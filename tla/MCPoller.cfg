SPECIFICATION FairSpec
CONSTANTS
    za = za zb = zb n1 = n1 n2 = n2
    Zones = {za, zb}
    NoZone = NoZone NoId = NoId
    Spellings = {"", "n1", "N1.", "n2"}
    Names = {n1, n2}
    normalize <- MCnormalize
    Entries <- MCEntries
    MaxId = 2
    pageSize = 1
    maxPollPages = 3
    NotReady = NotReady
    NoEntry = NoEntry
    MaxChanges = 1
    MaxErrors = 2
CHECK_DEADLOCK FALSE
INVARIANTS TypeOK SnapshotIsBracketed StatsAreTrue
PROPERTIES FailureKeepsSnapshot PollEnds
