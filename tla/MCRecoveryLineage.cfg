SPECIFICATION BothSpec
CONSTANTS
    w1 = w1  w2 = w2  s1 = s1  s2 = s2
    Nobody = Nobody
    Wallets = {w1, w2}
    Sponsors = {s1, s2}
    Pairs <- ThreePairs
    Terms <- TwoTerms
    MaxCampaigns = 2
    MaxTime = 2
    MaxHeight = 6
    MaxDuration = 1
    SeaDrop = "SeaDrop"
    ZeroAddress = "zero"
    Mainnet = 1
    MaxUint = 6
    MaxBatchGap = 5
    ProviderLimit = 2
    Sources <- MCSources
    StaleFacts <- MCStaleFacts
    Batches <- MCBatches
SYMMETRY Symmetry
INVARIANTS PaymentsSound AcceptedIsPayable NoPayablePairRefused ReportExplains
PROPERTIES RecoveredIsFinal ImplementsLineage
CHECK_DEADLOCK FALSE
