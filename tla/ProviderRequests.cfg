CONSTANTS
    MaxRetainDays = 30
    Environments <- MCEnvironments
    CommandLines <- MCCommandLines
    Jobs = {j1, j2}
    Conditions = {"up", "overloaded", "unreachable"}
    MaxRetries = 2
    RetryBase = 1
    RetryAfterCap = 2
    Concurrency = 2
    MaxAttempts = 2
    BackoffBase = 1
    Visibility = 2
    Cooldown = 2
    Horizon = 4
    MaxStoreErrors = 1
SPECIFICATION Spec
INVARIANTS RequestsBounded VectorsAreRecalled ChatIsBudgeted
SYMMETRY JobSymmetry
