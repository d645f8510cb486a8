SPECIFICATION FairSpec
CONSTANTS
    Workers = {w1, w2}
    MaxRequests = 3
INVARIANTS
    CountedOnce
    DestroyedLast
PROPERTY TeardownEnds
CHECK_DEADLOCK FALSE
