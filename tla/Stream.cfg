SPECIFICATION XsSpec
CONSTANTS
    SerialSpace = 8
    Starts <- MCStarts
    Content <- MCContent
    Keyed = TRUE
    Cap = 2
    SignEveryNth = 1
    MaxUnsigned = 1
    SizeLimit = 0
    Faults <- MCFaults
    MaxFaults = 2
    MaxRequests = 2
INVARIANTS
    ServedIsAVersion
    HonestAccepted
    FilesAccounted
CHECK_DEADLOCK FALSE
