SPECIFICATION Spec
CHECK_DEADLOCK FALSE
CONSTANTS
    Path <- NodePaths
    Link <- MCLink
    Meant <- MCMeant
    Dev <- MCDev
    Plain <- MCPlain
    NoRdev = NoRdev
    Absent = Absent
    Null = Null
    NoData = NoData
    Recs <- FormatRecs
    Child = {c1}
    Started = {c1}
    Table = {c1}
    TableOf <- OwnTable
    Fd = {0, 1}
    Node0 <- MCNode0
    Removable <- AliasNode
    Below <- MCBelow
    AsecDir = "asecdir"
    Syscalls <- OpenOnly
    FsTypes = {"ext4", "none"}
    Names = {}
    Workload = {"dup", "fcntl"}
    ErrnoKept = FALSE
    MaxClock = 4
    MaxUuid = 3
    MaxItems = 2
INVARIANT TracksWhatIsOpen
INVARIANT DetectsFormat
