SPECIFICATION Spec
SYMMETRY MCSymmetry
CHECK_DEADLOCK FALSE
CONSTANTS
  p = p
  ip = ip
  Keys = {k}
  Projects = {p}
  ProjectOf <- MCProjectOf
  IPs = {ip}
  N <- MCN
  Window = 3
  LockWait = 1
  Limits = {1}
  Unlimited = Unlimited
  Workers = {w1, w2}
  NoCaller = NoCaller
  Months = 1
  MaxTime = 4
  MaxRequests = 4
  MaxFaults = 1
INVARIANT TypeOK
INVARIANT IntervalBound
INVARIANT CountedOnce
INVARIANT QuotaOvershoot
PROPERTY DeniedJustified
