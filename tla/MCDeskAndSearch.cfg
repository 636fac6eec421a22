CONSTANTS
    p1 = p1
    p2 = p2
    alice = alice
    bob = bob
    Pairs = {p1, p2}
    Wallets = {alice, bob}
    NoPair = noPair
    NoWallet = noWallet
    NoConfig = noConfig
    WalletOf <- OwnerOf
    Configs <- Known
    TTL = 2
    MaxTime = 2
    MaxUpsets = 2
    MaxReloads = 1
    MaxPosts = 1
    retry = retry
    fake = fake
    Calls = {retry, fake}
    NoCall = noCall
    Genuine = {retry}
    Sendable <- FewRows
    FirstBlock = 1
    LastBlock = 2
    MaxGap = 1
    PageSize = 1
    MaxPages = 3
    CandidateLimit = 1
    MaxHistory = 4
    MaxBlock = 3
SYMMETRY Symmetry
SPECIFICATION BothSpec
INVARIANT EmptyIsTrue
PROPERTY SubmittedAsShown
PROPERTY NoSecondSignature
CHECK_DEADLOCK FALSE
