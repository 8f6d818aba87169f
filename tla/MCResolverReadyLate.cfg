SPECIFICATION Spec
CONSTANTS
    MaxGen = 3
    addr = addr za = za dotted = dotted
    Unset = Unset Junk = Junk NoArg = NoArg Invalid = Invalid
    Zones = {za}
    SPIFFEIDs = {"id"}
    NODE_IP = addr
    UpstreamDirectives <- MCDirectives
    Corefiles <- MCCorefiles
CHECK_DEADLOCK FALSE
PROPERTIES StopSparesNewer
