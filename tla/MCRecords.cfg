SPECIFICATION Spec
CHECK_DEADLOCK FALSE
CONSTANTS
    NoRdev = NoRdev
    Null = Null
    Cmdlines <- SomeCmdlines
    BootModes = {"android", "recovery"}
    SysBlock <- Phone
    MbFiles <- SomeMbFiles
    RootDirs <- SomeRootDirs
    Content <- SomeContent
    Junk <- SomeJunk
    RcJunk = TRUE
    MayFail = {"uevent", "write"}
INVARIANTS
    TypeOK
    RecordsNamePartitions
    RecordsFit
    GuestMountsAsAsked
    SourceStaysWritable
