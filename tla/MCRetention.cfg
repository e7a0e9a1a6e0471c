SPECIFICATION FairSpec
CONSTANTS
  u1 = u1
  Users = {u1}
  PeriodLen = 1
  GraceLen = 2
  RemindAt = {1}
  GraceAt = {1, 2}
  WarnAfter = 1
  PurgeAfter = 3
  PayDelay = 1
  Never = Never
  MaxTime = 7
  MaxFaults = 1
CHECK_DEADLOCK FALSE
INVARIANT TypeOK
INVARIANT RemindedOnce
PROPERTY PayerKeepsFiles
PROPERTY GraceReminded
PROPERTY WarnedBeforePurge
PROPERTY GraceEnds
