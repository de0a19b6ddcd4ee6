SPECIFICATION Spec
CONSTANTS
    c1 = c1
    c2 = c2
    Child <- MCOneChild
    MaxTask = 1
    MaxPacket = 0
    MaxResend = 0
    Crashing <- ReloadDies
    MaxCrash = 1
    ForkFails = FALSE
CHECK_DEADLOCK FALSE
INVARIANTS
    ContinuesWithOldDatabase
