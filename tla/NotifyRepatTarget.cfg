SPECIFICATION RepatSpec
CONSTANTS
  z1 = z1
  z2 = z2
  z3 = z3
  Zone <- MCZone
  ZoneOrder <- MCZoneOrder
  AclLen <- MCAclLen
  Serial <- MCSerial
  MaxUdpNotify = 1
  NotifyRetry = 1
  RetryMod = 4
INVARIANT HandlerHasTarget
