SPECIFICATION FairSpec
CONSTANTS
    Pids = {p1, p2, p3, p4}
    NoPid = NoPid
    NumMod = 8
    Multis = {0, 1, 3}
    MaxChanges = 2
    MaxCrash = 2
INVARIANTS
    TypeOK
    Tracked
    NotTooMany
    CountExact
PROPERTIES
    Settles
CHECK_DEADLOCK FALSE
