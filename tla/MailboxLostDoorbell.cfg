SPECIFICATION FairSpec
CONSTANTS
    CardSize = 12
    ChannelSize = 8
    HeaderSize = 1
    RingSize = 2
    SectorSize = 2
    Image = {"tiny", "small"}
    SizeOf <- MCSizeOf
    Loadable <- MCLoadable
    NoImage = "none"
    MaxPayload = 2
    LenModulus = 4
    HostWaitsForIdle = FALSE
    MaxCommits = 2
    MaxFaults = 0
    MaxPowerOffs = 0
    MaxResets = 0
PROPERTY DoorbellAnswered
