SPECIFICATION FairSpec
CONSTANTS
    CardSize = 16
    ChannelSize = 8
    HeaderSize = 1
    RingSize = 4
    SectorSize = 2
    MaxPull = 2
    ResetPolicy = "between"
    MaxWrite = 3
    MaxBytes = 6
    MaxSessions = 2
    MaxFaults = 1
    MaxPowerOffs = 1
CHECK_DEADLOCK FALSE
INVARIANT TypeOK
INVARIANT ReceivesThisSession
INVARIANT UnreadIsBetween
INVARIANT RingInv
PROPERTY ImplementsPipe
PROPERTY Drains
