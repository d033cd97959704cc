------------------------- MODULE UsageLimitRotation -------------------------
(***************************************************************************)
(* The retry loop of run_sampling_request                                  *)
(* (codex-rs/core/src/session/turn.rs): one model request after another,   *)
(* with the stream retry budget, the fall back from WebSockets to HTTPS    *)
(* and the rotation through the saved accounts on UsageLimitReached, while *)
(* the user may switch accounts and other sessions use up quotas.          *)
(*                                                                         *)
(* One process whose reloads of auth.json are not overtaken by a write of  *)
(* it: then what it has cached is what auth.json holds (CacheCoherent of   *)
(* AuthManager), so a single variable stands for both, and the locked      *)
(* rotation of AuthManager is one step.                                    *)
(***************************************************************************)
EXTENDS AccountRegistry, FiniteSets

CONSTANTS
    SavedLists,    \* the registries to start from: sequences of accounts
    MaxRetries,    \* stream_max_retries of the provider
    MaxLimited,    \* bound: accounts that are at their usage limit
    MaxSwitches    \* bound: switches the user makes during the loop

ASSUME RotationAssumption ==
    /\ Accounts \cap RegistryIds = {}     \* a raw id has no registry prefix
    /\ SavedLists \subseteq Seq(Accounts)
    /\ MaxRetries \in Nat /\ MaxLimited \in Nat /\ MaxSwitches \in Nat

VARIABLES
    saved,       \* the accounts of accounts.json, in order
    active,      \* the credential in auth.json and in the cache
    limited,     \* accounts at their usage limit, which only the service knows
    pc,          \* "send", "inflight" or "done"
    sentWith,    \* the credential of the request in flight
    exhausted,   \* exhausted_usage_limit_account_ids
    retries,
    websockets,  \* WebSockets have not been disabled
    result,      \* what run_sampling_request returned
    attempts,    \* history: requests sent since the retry budget was last full
    hit,         \* history: accounts that answered UsageLimitReached
    rotateFailed,\* history: the rotation ended in an I/O error
    switches     \* bound: switches so far

vars == <<saved, active, limited, pc, sentWith, exhausted, retries, websockets,
          result, attempts, hit, rotateFailed, switches>>
world == <<saved, limited, switches>>

Cred(acct) == [acct |-> acct, tok |-> [owner |-> acct, n |-> 1]]
rows == [i \in DOMAIN saved |-> RowFor(Cred(saved[i]))]

\* Types; the retry counter stays within stream_max_retries.
TypeOK ==
    /\ saved \in Seq(Accounts) /\ limited \subseteq Accounts
    /\ active \in Auths /\ sentWith \in Auths
    /\ pc \in {"send", "inflight", "done"}
    /\ exhausted \subseteq Accounts
    /\ retries \in 0..MaxRetries /\ attempts \in Nat
    /\ websockets \in BOOLEAN
    /\ result \in {"none", "ok", "error", "usageLimit"}
    /\ hit \subseteq Accounts /\ rotateFailed \in BOOLEAN
    /\ switches \in 0..MaxSwitches

Init ==
    /\ saved \in SavedLists
    /\ active \in {Cred(acct) : acct \in Accounts} \cup {ApiKeyAuth}
    /\ limited \in {S \in SUBSET Accounts : Cardinality(S) <= MaxLimited}
    /\ pc = "send" /\ sentWith = NoAuth /\ result = "none"
    /\ exhausted = {} /\ hit = {} /\ rotateFailed = FALSE
    /\ retries = 0 /\ attempts = 0 /\ switches = 0
    /\ websockets \in BOOLEAN

----------------------------------------------------------------------------
\* try_run_sampling_request resolves the credential when it sends.
SendRequest ==
    /\ pc = "send"
    /\ pc' = "inflight"
    /\ sentWith' = active
    /\ attempts' = attempts + 1
    /\ UNCHANGED <<world, active, exhausted, retries, websockets, result, hit,
                   rotateFailed>>

Return(how) ==
    /\ pc' = "done"
    /\ result' = how
    /\ UNCHANGED <<world, active, sentWith, exhausted, retries, websockets, attempts>>

Retry(n) ==
    /\ pc' = "send"
    /\ retries' = n
    /\ attempts' = IF n = 0 THEN 0 ELSE attempts

AtLimit(auth) == IsChatgpt(auth) /\ auth.acct \in limited

\* A request accepted before the limit was reached still succeeds.
AnswerOk ==
    /\ pc = "inflight"
    /\ Return("ok")
    /\ UNCHANGED <<hit, rotateFailed>>

\* ContextWindowExceeded and every other error that is not retryable.
AnswerFatal ==
    /\ pc = "inflight"
    /\ Return("error")
    /\ UNCHANGED <<hit, rotateFailed>>

\* The raw account id goes into the set, the registry ids are looked up in it.
Exhaust(auth) ==
    exhausted \cup (IF AccountIdOf(auth) = NoId THEN {} ELSE {AccountIdOf(auth)})

\* The UsageLimitReached arm.  The account is the one cached now, whichever
\* one the request was sent with.  A rotation that fails (accounts.json cannot
\* be read, auth.json cannot be written) is logged, and the error is returned as
\* if no account were left.
AnswerUsageLimit ==
    /\ pc = "inflight" /\ AtLimit(sentWith)
    /\ hit' = hit \cup {sentWith.acct}
    /\ LET next == Eligible(rows, Exhaust(active), RegistryIdOf(active)) IN
       \/ /\ ~IsChatgpt(active) \/ next = {}
          /\ Return("usageLimit")
          /\ UNCHANGED rotateFailed
       \/ /\ IsChatgpt(active)                      \* Err(rotate_err)
          /\ Return("usageLimit")
          /\ rotateFailed' = TRUE
       \/ /\ IsChatgpt(active) /\ next # {}
          /\ exhausted' = Exhaust(active)
          /\ active' = rows[NextEligible(rows, Exhaust(active), RegistryIdOf(active))].auth
          /\ Retry(0)
          /\ UNCHANGED <<world, sentWith, websockets, result, rotateFailed>>

\* Mutant: one retry too many.
AnswerRetryable_OneMore ==
    /\ pc = "inflight"
    /\ retries <= MaxRetries
    /\ Retry(retries + 1)
    /\ UNCHANGED <<world, active, sentWith, exhausted, websockets, result, hit,
                   rotateFailed>>

\* Mutant: falling back does not disable WebSockets for good.
AnswerRetryable_FallsBackAgain ==
    /\ pc = "inflight"
    /\ Retry(IF retries < MaxRetries THEN retries + 1 ELSE 0)
    /\ UNCHANGED <<world, active, sentWith, exhausted, websockets, result, hit,
                   rotateFailed>>

\* A retryable error: fall back once the budget is spent, else back off and retry.
AnswerRetryable ==
    /\ pc = "inflight"
    /\ \/ /\ retries >= MaxRetries /\ websockets
          /\ websockets' = FALSE
          /\ Retry(0)
          /\ UNCHANGED <<world, active, sentWith, exhausted, result>>
       \/ /\ retries < MaxRetries
          /\ Retry(retries + 1)
          /\ UNCHANGED <<world, active, sentWith, exhausted, websockets, result>>
       \/ /\ retries >= MaxRetries /\ ~websockets
          /\ Return("error")
    /\ UNCHANGED <<hit, rotateFailed>>

\* /accounts, while the loop runs.
UserSwitches(i) ==
    /\ pc # "done" /\ switches < MaxSwitches
    /\ active' = rows[i].auth
    /\ switches' = switches + 1
    /\ UNCHANGED <<saved, limited, pc, sentWith, exhausted, retries, websockets,
                   result, attempts, hit, rotateFailed>>

\* The quota of an account runs out.
ReachesLimit(acct) ==
    /\ pc # "done" /\ acct \notin limited /\ Cardinality(limited) < MaxLimited
    /\ limited' = limited \cup {acct}
    /\ UNCHANGED <<saved, active, pc, sentWith, exhausted, retries, websockets,
                   result, attempts, hit, rotateFailed, switches>>

Answer == AnswerOk \/ AnswerFatal \/ AnswerUsageLimit \/ AnswerRetryable

Next ==
    \/ SendRequest \/ Answer
    \/ \E i \in DOMAIN saved : UserSwitches(i)
    \/ \E acct \in Accounts : ReachesLimit(acct)

\* The loop is one task that is always scheduled; a request ends with an answer
\* or an error (idle timeouts).
Spec == Init /\ [][Next]_vars /\ WF_vars(SendRequest) /\ WF_vars(Answer)

----------------------------------------------------------------------------
\* One full retry budget is never overdrawn: between two points where it is
\* filled up (start, rotation, fall back) at most MaxRetries + 1 requests go out.
RetryBudget == attempts <= MaxRetries + 1

\* UsageLimitReached reaches the user only when no other saved account has
\* quota left, or when the rotation itself failed: the Err(rotate_err) arm falls
\* through to the same error with accounts left to try.
SurfacedWhenSpent ==
    result = "usageLimit" /\ ~rotateFailed =>
        \A i \in DOMAIN saved : saved[i] \in limited \/ Cred(saved[i]) = active

Creds == {Cred(acct) : acct \in Accounts}

\* The parts that make RetryBudget and SurfacedWhenSpent inductive: the retry
\* counter bounds the requests, no switch leads back to an API key, and the
\* result is final.
BudgetFollowsRetries ==
    /\ pc = "send" => attempts <= retries
    /\ pc = "inflight" => attempts <= retries + 1

SwitchesKeepChatgpt ==
    /\ active \in Creds \cup {ApiKeyAuth}
    /\ pc = "inflight" => sentWith \in {active, ApiKeyAuth} \cup Creds
    /\ pc = "inflight" /\ active = ApiKeyAuth => sentWith = ApiKeyAuth

IndInv ==
    /\ TypeOK /\ RetryBudget /\ SurfacedWhenSpent
    /\ BudgetFollowsRetries /\ SwitchesKeepChatgpt
    /\ pc # "done" => result = "none" /\ ~rotateFailed

\* run_sampling_request returns: neither the two resets of the retry counter nor
\* the rotations keep it going for ever (with at most one account at its limit).
LoopReturns == <>(pc = "done")

\* The rotation never returns to an account that has already hit its limit in
\* this loop.
NoBounce ==
    [][switches' = switches /\ active' # active => active'.acct \notin hit']_vars
=============================================================================
