SPECIFICATION Spec
CONSTANTS
  w1 = w1
  w2 = w2
  w3 = w3
  a = a
  b = b
  t1 = t1
  NoEntry = NoEntry
  Workers = {w1, w2}
  Entries = {a}
  Updates = {t1}
  MaxOverruns = 1
  MaxBumps = 1
  MaxFaults = 2
INVARIANT NothingStuck
