SPECIFICATION Spec
CONSTANTS
    A = A  B = B  C = C
    Accounts = {A, B, C}
    HasAccountId = {A, B}
    NoAuth = NoAuth  ApiKeyAuth = ApiKeyAuth  NoId = NoId
    SavedLists <- Registries
    MaxRetries = 2
    MaxLimited = 2
    MaxSwitches = 0
CHECK_DEADLOCK FALSE
PROPERTIES NoBounce
