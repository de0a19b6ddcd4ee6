SPECIFICATION ZdSpec
CONSTANTS
    DName <- MCDName
    Star <- MCStar
    Param = {1, 2}
    HashOf <- MCHash
    Zone <- MCZone
    Slave <- MCSlave
    Stream <- MCStream
    File <- MCFile
    QName <- MCQName
    QType <- MCQType
    MaxJobs = 3
    MaxDeaths = 2
    Room = {4}
    Careful = TRUE
INVARIANTS
    NamesSound
    Nsec3AsComputed
    FileAsMemory
PROPERTIES
    EndsWithGoal
    RestartWhole
CHECK_DEADLOCK FALSE
