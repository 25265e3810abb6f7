SPECIFICATION Spec
CHECK_DEADLOCK FALSE
CONSTANTS
    g1 = g1
    g2 = g2
    t1 = t1
    t2 = t2
    NoTable = NoTable
    NoSum = NoSum
    NEntries = 2
    Guids = {g1, g2}
    Tags = {t1, t2}
    Grain = 1
    FirstLba = 1
    MaxSize = 12
    Devices <- FewDevices
    Sizes = {10, 12}
    Starts = {6}
    Lengths = {4}
    Explicit = FALSE
    SetsPosition = TRUE
    BadCalls = TRUE
    Faults = {"kill", "error", "short", "power"}
    MaxCalls = 4
INVARIANT
    NoMixture
PROPERTY
    DataKept
