SPECIFICATION FairSpec
CONSTANTS
  z1 = z1
  z2 = z2
  z3 = z3
  Zone <- MCZone
  AclLen <- MCAclLen0
  Serial <- MCSerial
  MaxUdpNotify = 1
  NotifyRetry = 1
  RetryMod = 4
INVARIANTS SlotsCounted WaitingListSound RoundComplete
PROPERTIES PoolBehaviour WaitingServed
