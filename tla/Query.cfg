SPECIFICATION ZdSpec
CONSTANTS
    DName <- MCQueryDName
    Star <- MCStar
    Param = {1, 2}
    HashOf <- MCHash
    Zone <- MCZone
    Slave <- MCSlave
    Stream <- MCQueryStream
    File <- MCFile
    QName <- MCQName
    QType <- MCQType
    MaxJobs = 2
    MaxDeaths = 0
    Room = {}
    Careful = TRUE
INVARIANTS
    AnswersRight
    DenialsProved
CHECK_DEADLOCK FALSE
