SPECIFICATION LauncherFairSpec
CONSTANTS
    CardSize = 12
    ChannelSize = 8
    HeaderSize = 1
    RingSize = 2
    SectorSize = 2
    Image = {"tiny", "small", "junk", "big"}
    SizeOf <- MCSizeOf
    Loadable <- MCLoadable
    NoImage = "none"
    MaxPayload = 2
    LenModulus = 4
    HostWaitsForIdle = TRUE
    MaxCommits = 2
    MaxFaults = 1
    MaxPowerOffs = 1
    MaxResets = 1
INVARIANT RunsWhatWasCommitted
INVARIANT AckIsForLatest
INVARIANT QuietInv
INVARIANT LauncherInv
INVARIANT CountedOnce
INVARIANT LastIsCommitted
PROPERTY ImplementsLoader
PROPERTY DoorbellNotLost
PROPERTY ArmedOnlyByCommit
PROPERTY DoorbellAnswered
