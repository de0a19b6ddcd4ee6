INIT MCInit
NEXT MCNext
CONSTANTS
    Radix = 8
    UpperA = 2
    UpperZ = 3
    LowerA = 4
    Name <- MCName
    MaxNames = 3
    ZoneName <- MCZoneName
    MaxZones = 3
    Fuel = {0, 1, 3, 4, 5, 6, 7, 8, 20}
    ZoneRR <- MCZoneRR
    MaxRR = 5
    Sha1 = 1
    RbKey = {1, 2, 3, 4, 5, 6, 7, 8}
    MinExp = 1
    MaxExp = 3
    HeaderSize = 2
    DiskSize = 16
    Obj = {1, 2}
    Sz = {1, 2, 4}
    UdbPtr = {"p", "q"}
    RamSize = 4
    Client = {c1, c2, c3}
    Interface = {1, 2}
    MaxTcpCount = 2
    QueryLimit = 2
    MinLength = 1
    MaxLength = 2
    Length = {0, 1, 2, 3}
    Reply = {1, 3}
    NumRecv = 3
    Family = {"inet", "inet6"}
    NameLength <- MCNameLength
INVARIANTS
    RbSound
    UdSound
    RadSound
    UdrSound
    UzSound
    AcceptsWhenRoom
    UdpBatchSound
PROPERTIES
    UdrImplementsStore
    UdKeepsObjects
