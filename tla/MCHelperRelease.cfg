SPECIFICATION FairSpec
CONSTANTS
    p1 = p1  p2 = p2  p3 = p3  w1 = w1  w2 = w2
    Operations = {p1, p2, p3}
    Wallets = {w1, w2}
    SourceOf <- TwoWallets
    Requests = {r1, r2}
    Limit = 2
    QueueLimit = 1
    Nobody = Nobody
    Elsewhere = Elsewhere
INVARIANTS SentOnRecord FinalIsTrue
PROPERTIES SentIsResolved
CHECK_DEADLOCK FALSE
