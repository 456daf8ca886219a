SPECIFICATION WatchFairSpec
CONSTANTS
    CardSize = 10
    ChannelSize = 4
    HeaderSize = 1
    RingSize = 2
    SectorSize = 2
    PS1CardSize = 4
    DirtySize = 2
    MaxPayload = 3
    Write <- MCWrite
    MaxWrites = 2
    MaxConsole = 1
INVARIANT TypeOK
INVARIANT ChannelUntouched
INVARIANT UnsavedIsDirty
INVARIANT WrittenIsOnCard
PROPERTY WrittenIsSaved
PROPERTY WatchKeepsUp
