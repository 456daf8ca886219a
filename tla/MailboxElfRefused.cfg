SPECIFICATION Spec
CONSTANTS
    CardSize = 12
    ChannelSize = 8
    HeaderSize = 1
    RingSize = 2
    SectorSize = 2
    Image = {"small", "big"}
    SizeOf <- MCSizeOf
    Loadable <- MCLoadable
    NoImage = "none"
    MaxPayload = 2
    LenModulus = 4
    HostWaitsForIdle = TRUE
    MaxCommits = 1
    MaxFaults = 0
    MaxPowerOffs = 0
    MaxResets = 0
INVARIANT FittingElfAccepted
