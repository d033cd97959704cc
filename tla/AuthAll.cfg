SPECIFICATION Spec
CONSTANTS
    A = A  B = B  p1 = p1  p2 = p2  t1 = t1  t2 = t2
    Accounts = {A, B}
    Tasks = {t1, t2}
    NoAuth = NoAuth  ApiKeyAuth = ApiKeyAuth  NoId = NoId  NoTask = NoTask
    Corrupt = Corrupt  NoToken = NoToken
    InitSaved <- SavedAB
    HasAccountId = {A}
    Procs = {p1}
    ProcOf <- OneProcess
    Ops <- MixedOps
    Faults = {"unreachable", "lost", "crash"}
    MaxTokens = 3
INVARIANTS TypeOK RefreshExclusive FailureScoped RegistryWellKeyed CacheCoherent
 
