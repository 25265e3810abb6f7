SPECIFICATION Spec
CHECK_DEADLOCK FALSE
CONSTANTS
    Path <- DataPath
    Link <- MCLink
    Meant <- MCMeant
    Dev <- MCDev
    Plain <- MCPlain
    NoRdev = NoRdev
    Absent = Absent
    Null = Null
    NoData = NoData
    Recs <- FormatRecs
    Child = {c1, c2}
    Started = {c1, c2}
    Table = {c1, c2}
    TableOf <- OwnTable
    Fd = {0}
    Node0 <- MCNode0
    Removable <- NoPath
    Below <- MCBelow
    AsecDir = "asecdir"
    Syscalls <- OpenOnly
    FsTypes = {"ext4"}
    Names = {"visible"}
    Workload = {"mount"}
    ErrnoKept = FALSE
    MaxClock = 4
    MaxUuid = 3
    MaxItems = 2
SYMMETRY ChildSymmetry
VIEW WithoutHeld
INVARIANT TracksWhatIsOpen
INVARIANT DetectsFormat
INVARIANT Mirrored
