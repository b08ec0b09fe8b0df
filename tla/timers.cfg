CONSTANTS
  Req = {r1, r2}
  Milli = 2
  OwnTimeouts = {2}
  DefaultTimeouts = {1}
  RetryPeriods = {0, 1}
  PendingTimeouts = {1, 2}
  MayLower = FALSE
  MaxTime = 6
SPECIFICATION Spec
SYMMETRY Symmetry
CHECK_DEADLOCK FALSE
INVARIANTS
  TypeOK
  RequestTimerCovers
  PendingTimerCovers
