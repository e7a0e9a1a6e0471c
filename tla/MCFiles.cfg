SPECIFICATION Spec
SYMMETRY MCSymmetry
CHECK_DEADLOCK FALSE
CONSTANTS
  a = a
  b = b
  p = p
  q = q
  FileIds = {a, b}
  Buckets = {p, q}
  BucketOf <- MCBucketOf
  Size <- MCSize
  Quota = 2
  Workers = {w1, w2}
  Job = Job
  None = None
  MaxActive = 2
  MaxFaults = 1
INVARIANT TypeOK
INVARIANT RowsWereStored
INVARIANT RowHasObject
INVARIANT QuotaKept
INVARIANT OrphansExplained
