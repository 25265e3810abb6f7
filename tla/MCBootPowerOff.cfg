SPECIFICATION Spec
CHECK_DEADLOCK FALSE
CONSTANTS
    Kind <- AllKinds
    NFstabs = 2
    Options <- MultibootOptions
    MayFail <- NoFailures
    MaxBoots = 2
    MaxVold = 1
INVARIANT ImagesComplete
