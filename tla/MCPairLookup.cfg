SPECIFICATION FairLookupSpec
CONSTANTS
    Pairs = {p1, p2}
    Callers = {c1, c2, c3}
    Concurrency = 1
    PoolQueueLimit = 1
    Ttl = 2
    NegativeTtl = 1
    MaxEntries = 1
    MaxTime = 2
INVARIANTS LookupsConsistent
PROPERTIES CallersEnd
CHECK_DEADLOCK FALSE
