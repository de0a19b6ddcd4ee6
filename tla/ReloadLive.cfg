SPECIFICATION FairSpec
CONSTANTS
    c1 = c1
    c2 = c2
    Child <- MCOneChild
    MaxTask = 2
    MaxPacket = 0
    MaxResend = 1
    Crashing <- HelpersDie
    MaxCrash = 1
    ForkFails = FALSE
CHECK_DEADLOCK FALSE
INVARIANTS
    QuietHandover
PROPERTIES
    TasksApplied
    ReloadPassEnds
    ShutdownCompletes
