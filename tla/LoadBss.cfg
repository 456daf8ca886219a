SPECIFICATION FairSpec
CONSTANTS
    File <- MCFile
    RamSize = 6
    KsegSize = 8
    EhdrSize = 2
    MaxLoads = 2
    WordModulus = 16
    IopSize = 4
    MaxDump = 5
    Chunk <- MCChunk
    RowSize = 2
    Command <- MCCommand
    NoCommand = NoCommand
    MaxCommands = 2
    MaxFaults = 1
INVARIANT BssCleared
