SPECIFICATION FairSpec
CONSTANTS
    p1 = p1 p2 = p2 i1 = i1 node = node za = za zb = zb
    Pods = {p1, p2}
    IPs = {i1, node}
    NodeIP = node
    Zones = {za, zb}
    dotted = dotted BadZones = {dotted}
    NoZone = NoZone
    NoIP = NoIP
    Absent = Absent
    MaxChanges = 3
    MaxPending = 2
CHECK_DEADLOCK FALSE
INVARIANTS TypeOK MappingHasTenant MappingIsKnown MappingIsReal
PROPERTIES Heals
