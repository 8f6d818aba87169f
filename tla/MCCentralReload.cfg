SPECIFICATION FairSpec
CONSTANTS
    MaxGen = 2
    MaxErrors = 1
    Stats <- MCStats
    NotReady = NotReady
    za = za dotted = dotted vip = vip other = other
    Unset = Unset Junk = Junk Invalid = Invalid
    Zones = {za}
    SPIFFEIDs = {"id"}
    LocalServers = {"unix"}
    CentralDirectives <- MCDirectives
    Corefiles <- MCCorefiles
CHECK_DEADLOCK FALSE
INVARIANTS TypeOK ConfigIsSound
PROPERTIES ErrorsAreShown SnapshotIsShown PollersEnd
