SPECIFICATION Spec
CHECK_DEADLOCK FALSE
CONSTANTS
    Kind <- AllKinds
    NFstabs = 2
    Options <- AllOptions
    MayFail <- Failures
    MaxBoots = 3
    MaxVold = 1
INVARIANT TypeOK
INVARIANT GuestPrepared
INVARIANT CleanMounts
PROPERTY DataKept
PROPERTY KeepsContract
PROPERTY BootDecides
PROPERTY SignalHeeded
