SPECIFICATION Spec
CONSTANTS
  z1 = z1
  z2 = z2
  a = a
  b = b
  Zone <- MCZone
  Acl <- MCAcl
  MasterList <- MCMasterList
  NewList <- MCNewList
  Address <- MCAddress
  AllowUdp = {a}
  AxfrOnly = {}
  Fallback = {z1, z2}
  MultiMaster = {z1}
  MaxUdp = 1
  MaxTcp = 1
  IdNum = 2
  Unasked = {}
  Commanded = {z2}
  MaxOps = 1
INVARIANTS NeverForgotten
CHECK_DEADLOCK FALSE
