SPECIFICATION FairSpec
CONSTANTS
    A = A  B = B  p1 = p1  p2 = p2  t1 = t1  t2 = t2
    Accounts = {A, B}
    Tasks = {t1, t2}
    NoAuth = NoAuth  ApiKeyAuth = ApiKeyAuth  NoId = NoId  NoTask = NoTask
    Corrupt = Corrupt  NoToken = NoToken
    InitSaved <- SavedAB
    HasAccountId = {A, B}
    Procs = {p1}
    ProcOf <- OneProcess
    Ops <- LockedOps
    Faults = {"unreachable", "lost", "crash"}
    MaxTokens = 3
INVARIANTS TokensMatchAccount SavedTokensLive NoSpuriousFailure
PROPERTIES NewestTokenKept LockedOpsFinish
