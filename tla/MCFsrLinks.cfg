SPECIFICATION Spec
CHECK_DEADLOCK FALSE
CONSTANTS
    Path <- FixedLinkPaths
    Link <- MCLink
    Meant <- MCMeant
    Dev <- MCDev
    Plain <- MCPlain
    NoRdev = NoRdev
    Absent = Absent
    Null = Null
    NoData = NoData
    Recs <- AllRecs
    Child = {c1}
    Started = {c1}
    Table = {c1}
    TableOf <- OwnTable
    Fd = {0}
    Node0 <- MCNode0
    Removable <- CanonicalNodes
    Below <- MCBelow
    AsecDir = "asecdir"
    Syscalls <- AgreeingCalls
    FsTypes = {}
    Names = {}
    Workload = {"mount", "umount", "nomem", "nullsource", "setback"}
    ErrnoKept = TRUE
    MaxClock = 2
    MaxUuid = 1
    MaxItems = 1
INVARIANT Isolation
INVARIANT NoCrash
INVARIANT ScratchBelongsToCall
INVARIANT PlainFilesKept
