SPECIFICATION Spec
CONSTANTS
    c1 = c1
    c2 = c2
    Child <- MCChild
    MaxTask = 2
    MaxPacket = 1
    MaxResend = 1
    Crashing <- AnyDies
    MaxCrash = 2
    ForkFails = TRUE
SYMMETRY Symmetry
CHECK_DEADLOCK FALSE
INVARIANTS
    NoTaskLost
    NoPacketLost
    ServiceContinues
    TaskFilesApart
    AppliedInOrder
