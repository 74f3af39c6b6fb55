SPECIFICATION Spec
CONSTANTS
    u1 = u1
    u2 = u2
    a = a
    b = b
    Anonymous = Anonymous
    Users = {u1, u2}
    Entries = {a, b}
    Requests = {}
    Merges = {m1}
    Janitors = {j1}
    LegacyRows <- FloodedRows
    LegacyDrift <- NoDrift
    IndexAtStart = FALSE
    MaxFaults = 0
INVARIANT VotersKeepAVote
CHECK_DEADLOCK FALSE
