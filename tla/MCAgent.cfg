SPECIFICATION Spec
CONSTANTS
    za = za zb = zb dotted = dotted n1 = n1 vipB = vipB ipA = ipA ipX = ipX
    t1 = t1 t2 = t2
    Zones = {za, zb}
    BadZones = {dotted}
    NoZone = NoZone
    Codes = {65001}
    NoOpt = NoOpt
    Spellings = {"n1"}
    Names = {n1}
    Lower <- MCLower
    Qtypes = {"A"}
    NotReady = NotReady
    NoID = NoID
    Peers <- MCAgentOnly
    Authorized = {"agent"}
    Code = 65001
    Gateways <- MCGateways
    Family <- MCFamily
    GatewayTTL = 1
    Downstream <- MCLong
    NoData = NoData
    NoTTL = NoTTL
    MaxEntries = 1
    MaxTTL = 1
    TicksPerSecond = 2
    NoEntry = NoEntry
    Threads = {t1, t2}
    Sources = {ipA}
    NodeIP = ipX
    BadSource = BadSource
    ClientOpts = {NoOpt}
    NoMessage = NoMessage
    Registries <- MCMoves
    MaxClock = 2
SYMMETRY Symmetric
INVARIANTS TypeOK ZoneIsolation PropagationBound CachedTTLExpires
PROPERTIES ImplementsZoneService
