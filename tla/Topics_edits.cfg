SPECIFICATION Spec
CONSTANTS
  w1 = w1
  w2 = w2
  r1 = r1
  r2 = r2
  a = a
  x = x
  y = y
  m = m
  n = n
  NoEntry = NoEntry
  NoTitle = NoTitle
  NoTopic = NoTopic
  Workers = {w1}
  Requests = {r1, r2}
  Entries = {a}
  TopicIDs = {x, y}
  Titles = {m, n}
  MaxFaults = 1
INVARIANT FlagsInLockstep
INVARIANT NothingDangles
INVARIANT TimelineReplays
INVARIANT FlagsAreGenuine
INVARIANT TitlesUnique
PROPERTY OneShot
SYMMETRY Symmetry
