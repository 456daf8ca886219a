SPECIFICATION FairSpec
CONSTANTS
    CardSize = 12
    ChannelSize = 8
    HeaderSize = 1
    RingSize = 2
    SectorSize = 2
    Image = {"small", "junk", "empty"}
    SizeOf <- MCSizeOf
    Loadable <- MCLoadable
    NoImage = "none"
    MaxPayload = 2
    LenModulus = 4
    HostWaitsForIdle = FALSE
    MaxCommits = 2
    MaxFaults = 1
    MaxPowerOffs = 1
    MaxResets = 1
INVARIANT TypeOK
INVARIANT ClearedStaysCleared
INVARIANT AckImpliesLoaded
INVARIANT RunsOnce
INVARIANT AnyHostInv
PROPERTY StubReturnsToPoll
