SPECIFICATION Spec
CHECK_DEADLOCK FALSE
CONSTANTS
    g1 = g1
    g2 = g2
    t1 = t1
    t2 = t2
    NoTable = NoTable
    NoSum = NoSum
    NEntries = 2
    Guids = {g1, g2}
    Tags = {t1}
    Grain = 2
    FirstLba = 2
    MaxSize = 12
    Devices <- SomeDevices
    Sizes = {}
    Starts = {4, 6}
    Lengths = {2}
    Explicit = FALSE
    SetsPosition = FALSE
    BadCalls = FALSE
    Faults = {"kill", "error"}
    MaxCalls = 6
INVARIANTS
    TypeOK
    WrittenTableReads
    CopiesAgree
    AddedStopsAtNext
PROPERTIES
    KeepsTableForFdisk
    KeepsTableForBlkid
