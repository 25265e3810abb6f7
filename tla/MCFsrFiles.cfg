SPECIFICATION Spec
CHECK_DEADLOCK FALSE
CONSTANTS
    Path <- SourceDataPaths
    Link <- MCLink
    Meant <- MCMeant
    Dev <- MCDev
    Plain <- MCPlain
    NoRdev = NoRdev
    Absent = Absent
    Null = Null
    NoData = NoData
    Recs <- SourceRecs
    Child = {c1}
    Started = {c1}
    Table = {c1}
    TableOf <- OwnTable
    Fd = {0}
    Node0 <- MCNode0
    Removable <- NoPath
    Below <- MCBelow
    AsecDir = "asecdir"
    Syscalls <- OpenOnly
    FsTypes = {"ext4", "none"}
    Names = {"visible"}
    Workload = {"mount"}
    ErrnoKept = FALSE
    MaxClock = 4
    MaxUuid = 2
    MaxItems = 2
INVARIANT TypeOK
INVARIANT SettledMirrored
PROPERTY LiveFilesKept
