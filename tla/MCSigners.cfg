CONSTANTS
    Service = service
    Sponsors = {service}
    Beneficiaries = {alice, bob}
    CreditAmount = 1
    Amounts = {1}
    ActivationWindow = 1
    Transactions = {}
    Actions = {}
    StartDelay = 1
    WindowSize = 2
    MaxGap = 1
    RefundDelay = 2
    MaxCredits = 2
    MaxTime = 4
    MaxHead = 3
    MaxLost = 1
    AttestationInterval = 3
    i1 = i1
    Instances = {i1}
    FirstNonce = 55
    Others = {"rival", "later"}
    MaxHeight = 5
    MaxForks = 1
    EarlyHeight = 3
SPECIFICATION SignersSpec
SYMMETRY Callers
INVARIANTS ReclaimedAreDead OneCredit FinalizedIsFinal
PROPERTIES NoFalseRefusal SendsAreTimely
CHECK_DEADLOCK FALSE
