SPECIFICATION Spec
CHECK_DEADLOCK FALSE
CONSTANTS
    Path <- DataPath
    Link <- MCLink
    Meant <- MCMeant
    Dev <- MCDev
    Plain <- MCPlain
    NoRdev = NoRdev
    Absent = Absent
    Null = Null
    NoData = NoData
    Recs <- FormatRecs
    Child = {c1, c2}
    Started = {c1, c2}
    Table = {t1}
    TableOf <- OneTable
    Fd = {0}
    Node0 <- MCNode0
    Removable <- NoPath
    Below <- MCBelow
    AsecDir = "asecdir"
    Syscalls <- OpenOnly
    FsTypes = {"ext4", "f2fs"}
    Names = {}
    Workload = {"clone", "exit", "dup2", "fast"}
    ErrnoKept = FALSE
    MaxClock = 3
    MaxUuid = 2
    MaxItems = 2
SYMMETRY ChildSymmetry
INVARIANT NoFalseAlarm
