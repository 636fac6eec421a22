SPECIFICATION Spec
CONSTANTS
    w1 = w1  w2 = w2
    h1 = h1  h2 = h2  h3 = h3
    t1 = t1  t2 = t2
    None = None
    Wallets = {w1, w2}
    Hashes = {h1, h2}
    TxHashes = {t1, t2}
    Policies <- TwoPolicies
    MaxNonce = 1
    MaxBlock = 1
    MaxTime = 1
    MaxCalls = 2
SYMMETRY Symmetry
INVARIANTS PermissionOnce Readable
PROPERTIES NoSpendingWhenClosed ImplementsEnvelope
CHECK_DEADLOCK FALSE
