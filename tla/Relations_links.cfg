SPECIFICATION Spec
CONSTANTS
  worker = worker
  admin = admin
  a1 = a1
  b1 = b1
  c1 = c1
  NoEntry = NoEntry
  Workers = {worker}
  Requests = {admin}
  Entries = {a1, b1, c1}
  MaxFaults = 1
  MaxClaims = 2
INVARIANT LinksAreMutual
INVARIANT FlagsInLockstep
INVARIANT SidesAgree
PROPERTY RetryMends
SYMMETRY Symmetry
CHECK_DEADLOCK FALSE
CONSTRAINT NobodyMet
