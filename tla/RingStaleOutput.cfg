SPECIFICATION Spec
CONSTANTS
    CardSize = 16
    ChannelSize = 8
    HeaderSize = 1
    RingSize = 4
    SectorSize = 2
    MaxPull = 2
    ResetPolicy = "never"
    MaxWrite = 2
    MaxBytes = 6
    MaxSessions = 2
    MaxFaults = 0
    MaxPowerOffs = 0
CHECK_DEADLOCK FALSE
INVARIANT ReceivesThisSession
