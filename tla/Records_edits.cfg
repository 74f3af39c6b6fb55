SPECIFICATION Spec
CONSTANTS
  r1 = r1
  r2 = r2
  r3 = r3
  b1 = b1
  e1 = e1
  e2 = e2
  x1 = x1
  x2 = x2
  v1 = v1
  v2 = v2
  NoEntry = NoEntry
  NoRelease = NoRelease
  NoName = NoName
  Requests = {r1, r2}
  Boots = {b1}
  Entries = {e1}
  Releases = {x1, x2}
  Names = {v1, v2}
INVARIANT TimelineReplays
INVARIANT ReleaseKeysHold
INVARIANT CreatedOnce
INVARIANT PublishedOnce
INVARIANT CommentsCounted
SYMMETRY Symmetry
CHECK_DEADLOCK FALSE
