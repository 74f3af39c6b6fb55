SPECIFICATION Spec
CONSTANTS
    u1 = u1
    u2 = u2
    a = a
    b = b
    Anonymous = Anonymous
    Users = {u1, u2}
    Entries = {a, b}
    Requests = {1, 2}
    Merges = {m1}
    Janitors = {}
    LegacyRows <- SpreadRows
    LegacyDrift <- NoDrift
    IndexAtStart = TRUE
    MaxFaults = 0
INVARIANT VotersKeepAVote
INVARIANT MergedVotersFollow
INVARIANT CounterAccountsForVotes
CHECK_DEADLOCK FALSE
