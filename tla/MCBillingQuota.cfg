SPECIFICATION HSpec
CONSTANTS
  u1 = u1
  p1 = p1
  p2 = p2
  a1 = a1
  free = free
  starter = starter
  pro = pro
  Users = {u1}
  Payments = {p1}
  Addons = {a1}
  Owner <- MCOwner
  Plans = {free, starter, pro}
  Free = free
  AddonPlans = {pro}
  PlanOf <- MCPlanOf
  Workers = {w1, w2}
  Job = Job
  None = None
  PeriodLen = 1
  MaxTime = 2
  Unsigned = {a1}
  MaxFaults = 1
  MaxActive = 2
CHECK_DEADLOCK FALSE
SYMMETRY MCSymmetry
INVARIANT QuotaIsPlanPlusAddons
INVARIANT LapsedQuotaIsFree
