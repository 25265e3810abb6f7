SPECIFICATION Spec
CHECK_DEADLOCK FALSE
CONSTANTS
    Probers <- SomeProbers
    Devices <- SomeDevices
    Disks <- SomeDisks
    Others <- SomeOthers
    Filters <- SomeFilters
    Enabled <- SomeEnabled
    Toggled = {2}
    InvertLate = FALSE
    MayFail = {"write"}
    MaxCalls = 5
INVARIANTS
    TypeOK
    ResultOfOneProber
    ScanComplete
    FullprobeTellsFirst
    SafeprobeUnambiguous
    TableOfOthers
PROPERTY
    CallsReturn
