SPECIFICATION FairSpec
CONSTANTS
    za = za zb = zb dotted = dotted n1 = n1 vipB = vipB ipA = ipA ipX = ipX
    t1 = t1 t2 = t2
    Zones = {za, zb}
    BadZones = {dotted}
    NoZone = NoZone
    Codes = {65001}
    NoOpt = NoOpt
    Spellings = {"n1", "N1"}
    Names = {n1}
    Lower <- MCLower
    Qtypes = {"A", "SRV"}
    NotReady = NotReady
    NoID = NoID
    Peers <- MCPeers
    Authorized = {"agent"}
    Code = 65001
    Gateways <- MCGateways
    Family <- MCFamily
    GatewayTTL = 1
    Downstream <- MCMixed
    NoData = NoData
    NoTTL = NoTTL
    MaxEntries = 2
    MaxTTL = 1
    TicksPerSecond = 1
    NoEntry = NoEntry
    Threads = {t1}
    Sources = {ipA, ipX, BadSource}
    NodeIP = ipX
    BadSource = BadSource
    ClientOpts <- MCClientOpts
    NoMessage = NoMessage
    Registries <- MCLoaded
    MaxClock = 0
INVARIANTS ZoneIsolation LRUCoherent
PROPERTIES EveryQueryEnds
