CONSTANTS
    Attempts = {first, second}
    Operator = operator
    Outsider = outsider
    Foreigner = foreigner
    Beneficiary = beneficiary
    Stranger = stranger
    Runs = 1
    Duration = 1
    MaxTime = 2
    MaxFailures = 2
SPECIFICATION RunnerSpec
INVARIANT PassedIsPaid
PROPERTY Recoverable
CHECK_DEADLOCK FALSE
