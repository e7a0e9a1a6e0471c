SPECIFICATION Spec
CONSTANTS
  u1 = u1
  Users = {u1}
  PeriodLen = 1
  GraceLen = 1
  RemindAt = {1}
  GraceAt = {1}
  WarnAfter = 1
  PurgeAfter = 3
  PayDelay = 1
  Never = Never
  MaxTime = 6
  MaxFaults = 0
CHECK_DEADLOCK FALSE
PROPERTY RemindedBeforeExpiry
