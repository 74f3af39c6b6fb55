SPECIFICATION FairSpec
CONSTANTS
    u1 = u1
    u2 = u2
    a = a
    b = b
    Anonymous = Anonymous
    Users = {u1, u2}
    Entries = {a}
    Requests = {1, 2}
    Merges = {}
    Janitors = {j1, j2}
    LegacyRows <- FloodedRows
    LegacyDrift <- NoDrift
    IndexAtStart = FALSE
    MaxFaults = 1
PROPERTY ImplementsLedger
PROPERTY NothingDestroyed
PROPERTY CountersEventuallyExact
PROPERTY DuplicatesEventuallyArchived
CHECK_DEADLOCK FALSE
