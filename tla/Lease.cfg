SPECIFICATION Spec
CONSTANTS
  SerialSpace = 4
  Refresh = 1
  Retry = 2
  Expire = 2
  MinRefresh = 0
  MaxRefresh = 9
  MinRetry = 0
  MaxRetry = 9
  BackoffStart = 1
  BackoffMax = 2
  RandomAbove = 2
  MaxDraw = 0
  ReqTimeout = 1
  ReloadWait = 1
  AllowUdp = {TRUE, FALSE}
  MaxReloadTime = 1
  MaxTime = 8
  Faults <- MCFaults
  MaxFaults = 2
CHECK_DEADLOCK FALSE
INVARIANTS
  WokenInTime
  ServerFollowsExpiry
  SoasAsServed
  AnswersWithinLease
