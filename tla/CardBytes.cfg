CHECK_DEADLOCK FALSE
SPECIFICATION Spec
CONSTANTS
    Sectors = 2
    SectorSize = 3
    Tag = {"x", "y"}
    Blank = "blank"
    Undefined = "undefined"
    FirmwareApart = TRUE
    MaxCalls = 2
    MaxFaults = 1
    MaxStores = 1
INVARIANT TypeOK
PROPERTY ImplementsByteStore
