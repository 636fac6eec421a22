SPECIFICATION FairSpec
CONSTANTS
    Callers = {c1, c2, c3}
    Ttl = 2
    MaxVersion = 3
    MaxTime = 2
INVARIANTS FreshIsFresh BarrierHolds
PROPERTIES CallsEnd
CHECK_DEADLOCK FALSE
