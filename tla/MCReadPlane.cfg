CONSTANTS
    Authorizations = {a1, a2, a3}
    Unit = 2
    Interval = 2
    Lifetime = 1
    Skew = 0
    MaxTime = 8
    Caches = {c1, c2}
    Identities = {v1, v2}
    Ttl = 2
    LastProbe = 4
SPECIFICATION PlaneSpec
SYMMETRY Symmetry
INVARIANT AdmittedOnce
INVARIANT RoomEnough
INVARIANT OwnFreshRead
INVARIANT ReadsPaced
INVARIANT BudgetHeld
PROPERTY SnapshotStands
CHECK_DEADLOCK FALSE
