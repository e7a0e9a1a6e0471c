SPECIFICATION FairSpec
CHECK_DEADLOCK FALSE
CONSTANTS
  e1 = e1
  EventOf <- MCEventOf
  Hooks = {h1, h2}
  Urls = {x}
  Events = {e1, e2}
  Fires = {f}
  maxAttempts = 3
  deliveryTimeout = 10
  Deadline = 60
  Spans = {0, 10}
  Workers = {w1, w2}
  None = None
  MaxRequests = 3
  MaxFaults = 1
INVARIANT TypeOK
INVARIANT DeliveriesTrue
INVARIANT RecordedInTime
PROPERTY PatchKeeps
PROPERTY EveryEventEnds
