SPECIFICATION Spec
CONSTANTS
    A = A  B = B  C = C
    Accounts = {A, B, C}
    HasAccountId = {A, B}
    NoAuth = NoAuth  ApiKeyAuth = ApiKeyAuth  NoId = NoId
    SavedLists <- Registries
    MaxRetries = 2
    MaxLimited = 1
    MaxSwitches = 1
CHECK_DEADLOCK FALSE
INVARIANTS TypeOK RetryBudget SurfacedWhenSpent
PROPERTIES LoopReturns
