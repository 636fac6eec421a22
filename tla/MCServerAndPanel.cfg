CONSTANTS
    Retries = 4
    MaxGeneration = 7
    p1 = p1
    alice = alice
    bob = bob
    Pairs = {p1}
    Wallets = {alice, bob}
    NoPair = noPair
    NoWallet = noWallet
    NoOffer = noOffer
    WalletOf <- OwnerOf
    Offers <- Offered
    MaxOffers = 2
    MaxMounts = 2
SPECIFICATION BothSpec
INVARIANTS SchedulersConsistent
PROPERTIES DecisionsStand NothingStuck PostedOnce Unlocks
CHECK_DEADLOCK FALSE
