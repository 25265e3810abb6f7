SPECIFICATION Spec
CHECK_DEADLOCK FALSE
CONSTANTS
    Kind <- AllKinds
    NFstabs = 2
    Options <- AndroidOptions
    MayFail <- NoFailures
    MaxBoots = 1
    MaxVold = 1
INVARIANT VoldTraced
