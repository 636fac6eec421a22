CONSTANTS
    p1 = p1
    p2 = p2
    alice = alice
    bob = bob
    Pairs = {p1, p2}
    Wallets = {alice, bob}
    NoPair = noPair
    NoWallet = noWallet
    NoConfig = noConfig
    WalletOf <- OwnerOf
    Configs <- Known
    TTL = 2
    MaxTime = 2
    MaxUpsets = 0
    MaxReloads = 0
    MaxPosts = 1
SPECIFICATION Spec
PROPERTY LockedForWindow
CHECK_DEADLOCK FALSE
