SPECIFICATION Spec
SYMMETRY MCSymmetry
CHECK_DEADLOCK FALSE
CONSTANTS
  u1 = u1
  u2 = u2
  a1 = a1
  a2 = a2
  a3 = a3
  Users = {u1, u2}
  Registered = {u1}
  HomeOf <- MCHomeOf
  Emails = {a1, a2, a3}
  Passwords = {p1, p2}
  OldPassword = p1
  None = None
  Workers = {w1, w2}
  MaxRequests = 4
  MaxFaults = 1
INVARIANT TypeOK
INVARIANT SessionsEndWithReset
INVARIANT OneTokenPerSession
PROPERTY CodeUsedOnce
PROPERTY PasswordKept
PROPERTY AddressProven
