---------------------- MODULE UsageLimitRotationProofs ----------------------
(***************************************************************************)
(* The retry loop for registries of any length, any retry budget and any   *)
(* number of accounts at their limit: types, the retry budget, and when    *)
(* UsageLimitReached is shown, by one inductive invariant.                 *)
(***************************************************************************)
EXTENDS UsageLimitRotation, AccountRegistryProofs

\* The model's credential of an account is a ChatGPT credential of it.
LEMMA CredIsChatgpt ==
    ASSUME NEW acct \in Accounts
    PROVE  /\ Cred(acct) \in ChatgptAuths /\ Cred(acct).acct = acct
           /\ IsChatgpt(Cred(acct)) /\ Cred(acct) # ApiKeyAuth
BY RegistryAssumption DEF Cred, ChatgptAuths, Tokens, IsChatgpt

\* The registry made from the saved accounts has one row for each of them.
LEMMA RowsOfSaved ==
    ASSUME saved \in Seq(Accounts)
    PROVE  /\ rows \in Seq(Rows) /\ DOMAIN rows = DOMAIN saved
           /\ \A i \in DOMAIN saved :
                 /\ saved[i] \in Accounts
                 /\ rows[i].id = RegistryIdFor(saved[i])
                 /\ rows[i].auth = Cred(saved[i])
                 /\ rows[i].auth \in Creds
<1>1. DOMAIN saved = 1..Len(saved) /\ Len(saved) \in Nat
  BY LenProperties
<1>2. ASSUME NEW i \in DOMAIN saved
      PROVE  /\ saved[i] \in Accounts /\ RowFor(Cred(saved[i])) \in Rows
             /\ rows[i].id = RegistryIdFor(saved[i])
             /\ rows[i].auth = Cred(saved[i])
  <2>1. saved[i] \in Accounts
    BY <1>1, ElementOfSeq
  <2>2. Cred(saved[i]) \in ChatgptAuths /\ Cred(saved[i]).acct = saved[i]
    BY <2>1, CredIsChatgpt
  <2>3. RowFor(Cred(saved[i])) \in Rows
    BY <2>2, RowForIsRow
  <2> QED
    BY <2>1, <2>2, <2>3 DEF rows, RowFor
<1>3. rows \in [1..Len(saved) -> Rows]
  BY <1>1, <1>2 DEF rows
<1>4. rows \in Seq(Rows)
  BY <1>1, <1>3, SeqDef
<1> QED
  BY <1>2, <1>4 DEF rows, Creds

\* An account is determined by its registry id.
LEMMA RegistryIdInjective ==
    ASSUME NEW a \in Accounts, NEW b \in Accounts,
           RegistryIdFor(a) = RegistryIdFor(b)
    PROVE  a = b
BY DEF RegistryIdFor

\* The active credential, when it is not an API key.
LEMMA ActiveCred ==
    ASSUME IndInv, IsChatgpt(active)
    PROVE  \E acct \in Accounts : active = Cred(acct)
BY DEF IndInv, SwitchesKeepChatgpt, IsChatgpt, Creds

\* Recording the active account keeps the set a set of accounts.
LEMMA ExhaustStep ==
    ASSUME IndInv, IsChatgpt(active)
    PROVE  Exhaust(active) \subseteq Accounts
<1>1. PICK acct \in Accounts : active = Cred(acct)
  BY ActiveCred
<1> QED
  BY <1>1, CredIsChatgpt DEF Exhaust, AccountIdOf, IndInv, TypeOK

\* With no other candidate, every saved account is the active one: a raw account
\* id never equals a registry id, so the exhausted set excludes nobody.
LEMMA NoCandidate ==
    ASSUME IndInv, IsChatgpt(active),
           Eligible(rows, Exhaust(active), RegistryIdOf(active)) = {}
    PROVE  \A i \in DOMAIN saved : Cred(saved[i]) = active
<1>1. PICK acct \in Accounts : active = Cred(acct)
  BY ActiveCred
<1>2. RegistryIdOf(active) = RegistryIdFor(acct)
  BY <1>1, CredIsChatgpt DEF RegistryIdOf
<1>3. ASSUME NEW i \in DOMAIN saved
      PROVE  saved[i] = acct
  <2>1. /\ i \in DOMAIN rows /\ saved[i] \in Accounts
        /\ rows[i].id = RegistryIdFor(saved[i])
    BY RowsOfSaved DEF IndInv, TypeOK
  <2>2. RegistryIdFor(saved[i]) \in RegistryIds
    BY <2>1 DEF RegistryIdFor, RegistryIds
  <2>3. rows[i].id \notin Exhaust(active)
    BY <2>1, <2>2, ExhaustStep, RotationAssumption
  <2>4. rows[i].id = RegistryIdOf(active)
    BY <2>1, <2>3 DEF Eligible
  <2> QED
    BY <1>2, <2>1, <2>4, RegistryIdInjective
<1> QED
  BY <1>1, <1>3

----------------------------------------------------------------------------
(* The invariant, action by action. *)

\* The loop starts with a full budget and nothing sent.
LEMMA InitIsInductive == Init => IndInv
<1> SUFFICES ASSUME Init PROVE IndInv
  OBVIOUS
<1> USE RotationAssumption, RegistryAssumption
<1>1. active \in Creds \cup {ApiKeyAuth} /\ active \in Auths
  BY CredIsChatgpt DEF Init, Creds, Auths
<1>2. rotateFailed = FALSE /\ rotateFailed \in BOOLEAN
  BY Zenon DEF Init
<1>3. TypeOK
  BY <1>1, <1>2 DEF Init, TypeOK, Auths
<1> QED
  BY <1>1, <1>2, <1>3 DEF Init, IndInv, RetryBudget, SurfacedWhenSpent,
     BudgetFollowsRetries, SwitchesKeepChatgpt

\* Sending uses one request of the budget.
LEMMA SendPreserves ==
    ASSUME IndInv, SendRequest
    PROVE  IndInv'
BY RotationAssumption DEF SendRequest, IndInv, TypeOK, RetryBudget,
   SurfacedWhenSpent, BudgetFollowsRetries, SwitchesKeepChatgpt, world

\* An answer that ends the loop with success or an error.
LEMMA ReturnPreserves ==
    ASSUME IndInv, pc = "inflight", NEW how \in {"ok", "error"},
           Return(how), hit' \subseteq Accounts, rotateFailed' = rotateFailed
    PROVE  IndInv'
BY RotationAssumption DEF Return, IndInv, TypeOK, RetryBudget,
   SurfacedWhenSpent, BudgetFollowsRetries, SwitchesKeepChatgpt, world

\* A retryable error: the counter moves with the requests or both start again.
LEMMA RetryablePreserves ==
    ASSUME IndInv, AnswerRetryable
    PROVE  IndInv'
<1>1. pc = "inflight" /\ hit' = hit /\ rotateFailed' = rotateFailed
  BY DEF AnswerRetryable
<1>2. CASE Return("error")
  BY <1>1, <1>2, ReturnPreserves DEF IndInv, TypeOK
<1>3. CASE /\ websockets' = FALSE /\ Retry(0)
           /\ UNCHANGED <<world, active, sentWith, exhausted, result>>
  <2>1. pc' = "send" /\ retries' = 0 /\ attempts' = 0 /\ UNCHANGED world
    BY <1>3 DEF Retry
  <2>2. websockets' \in BOOLEAN
    BY <1>3
  <2>3. TypeOK'
    BY <1>1, <1>3, <2>1, <2>2, RotationAssumption DEF IndInv, TypeOK, world
  <2>4. RetryBudget' /\ BudgetFollowsRetries'
    BY <2>1, RotationAssumption DEF RetryBudget, BudgetFollowsRetries
  <2> QED
    BY <1>1, <1>3, <2>1, <2>3, <2>4 DEF IndInv, SurfacedWhenSpent,
       SwitchesKeepChatgpt, Creds, world
<1>4. CASE /\ retries < MaxRetries /\ Retry(retries + 1)
           /\ UNCHANGED <<world, active, sentWith, exhausted, websockets, result>>
  BY <1>1, <1>4, RotationAssumption DEF Retry, IndInv, TypeOK, RetryBudget,
     SurfacedWhenSpent, BudgetFollowsRetries, SwitchesKeepChatgpt, world
<1> QED
  BY <1>2, <1>3, <1>4 DEF AnswerRetryable

\* The usage limit: shown when no other account is left, else the next one is
\* active and the budget is full again.
LEMMA UsageLimitPreserves ==
    ASSUME IndInv, AnswerUsageLimit
    PROVE  IndInv'
<1> DEFINE next == Eligible(rows, Exhaust(active), RegistryIdOf(active))
<1>1. pc = "inflight" /\ AtLimit(sentWith) /\ hit' = hit \cup {sentWith.acct}
  BY DEF AnswerUsageLimit
<1>2. IsChatgpt(active)
  <2>1. sentWith # ApiKeyAuth
    BY <1>1 DEF AtLimit, IsChatgpt
  <2>2. active \in Creds
    BY <1>1, <2>1 DEF IndInv, SwitchesKeepChatgpt
  <2> QED
    BY <2>2, CredIsChatgpt DEF Creds
<1>3. hit' \subseteq Accounts
  BY <1>1 DEF AtLimit, IndInv, TypeOK
<1>4. CASE next = {} /\ Return("usageLimit") /\ UNCHANGED rotateFailed
  <2>1. \A i \in DOMAIN saved : Cred(saved[i]) = active
    BY <1>2, <1>4, NoCandidate
  <2> QED
    BY <1>1, <1>3, <1>4, <2>1, RotationAssumption DEF Return, IndInv, TypeOK,
       RetryBudget, SurfacedWhenSpent, BudgetFollowsRetries,
       SwitchesKeepChatgpt, world
<1>5. CASE Return("usageLimit") /\ rotateFailed' = TRUE
  <2>1. SurfacedWhenSpent'
    BY <1>5 DEF SurfacedWhenSpent
  <2> QED
    BY <1>1, <1>3, <1>5, <2>1, RotationAssumption DEF Return, IndInv, TypeOK,
       RetryBudget, BudgetFollowsRetries, SwitchesKeepChatgpt, world
<1>6. CASE /\ next # {} /\ exhausted' = Exhaust(active)
           /\ active' = rows[NextEligible(rows, Exhaust(active), RegistryIdOf(active))].auth
           /\ Retry(0) /\ UNCHANGED <<world, sentWith, websockets, result, rotateFailed>>
  <2>1. rows \in Seq(Rows) /\ DOMAIN rows = DOMAIN saved
    BY RowsOfSaved DEF IndInv, TypeOK
  <2>2. NextEligible(rows, Exhaust(active), RegistryIdOf(active)) \in DOMAIN rows
    BY <1>6, <2>1, NextEligibleIsRow DEF Eligible
  <2>3. active' \in Creds
    BY <1>6, <2>1, <2>2, RowsOfSaved DEF IndInv, TypeOK
  <2>4. active' \in Auths
    BY <2>3, CredIsChatgpt DEF Creds, Auths
  <2>5. exhausted' \subseteq Accounts
    BY <1>2, <1>6, ExhaustStep
  <2> QED
    BY <1>1, <1>3, <1>6, <2>3, <2>4, <2>5, RotationAssumption DEF Retry, IndInv,
       TypeOK, RetryBudget, SurfacedWhenSpent, BudgetFollowsRetries,
       SwitchesKeepChatgpt, world
<1> QED
  BY <1>2, <1>4, <1>5, <1>6 DEF AnswerUsageLimit

\* The user switches to a saved account; a request in flight keeps its own.
LEMMA UserSwitchPreserves ==
    ASSUME IndInv, NEW i \in DOMAIN saved, UserSwitches(i)
    PROVE  IndInv'
<1>1. active' \in Creds
  BY RowsOfSaved DEF UserSwitches, IndInv, TypeOK
<1>2. active' \in Auths /\ active' # ApiKeyAuth
  BY <1>1, CredIsChatgpt DEF Creds, Auths
<1>3. SwitchesKeepChatgpt'
  BY <1>1, <1>2 DEF UserSwitches, IndInv, SwitchesKeepChatgpt, Creds
<1> QED
  BY <1>1, <1>2, <1>3, RotationAssumption DEF UserSwitches, IndInv, TypeOK,
     RetryBudget, SurfacedWhenSpent, BudgetFollowsRetries

\* More accounts at their limit make no shown error wrong.
LEMMA LimitPreserves ==
    ASSUME IndInv, NEW acct \in Accounts, ReachesLimit(acct)
    PROVE  IndInv'
BY RotationAssumption DEF ReachesLimit, IndInv, TypeOK, RetryBudget,
   SurfacedWhenSpent, BudgetFollowsRetries, SwitchesKeepChatgpt, Creds

\* Every step of the loop and of its surroundings preserves the invariant.
LEMMA NextPreserves == IndInv /\ [Next]_vars => IndInv'
<1> SUFFICES ASSUME IndInv, [Next]_vars PROVE IndInv'
  OBVIOUS
<1>1. CASE AnswerOk \/ AnswerFatal
  BY <1>1, ReturnPreserves DEF AnswerOk, AnswerFatal, IndInv, TypeOK
<1>2. CASE UNCHANGED vars
  BY <1>2 DEF vars, IndInv, TypeOK, RetryBudget, SurfacedWhenSpent,
     BudgetFollowsRetries, SwitchesKeepChatgpt
<1> QED
  BY <1>1, <1>2, SendPreserves, RetryablePreserves, UsageLimitPreserves,
     UserSwitchPreserves, LimitPreserves DEF Next, Answer

----------------------------------------------------------------------------
\* The inductive invariant holds in every behaviour.
THEOREM Inductive == Spec => []IndInv
BY InitIsInductive, NextPreserves, PTL DEF Spec

\* Every variable of the loop keeps its type.
THEOREM TypeCorrect == Spec => []TypeOK
<1>1. IndInv => TypeOK
  BY DEF IndInv
<1> QED
  BY <1>1, Inductive, PTL

\* Whatever the budget, at most MaxRetries + 1 requests go out between two
\* points where run_sampling_request sets retries to 0.
THEOREM BudgetIsKept == Spec => []RetryBudget
<1>1. IndInv => RetryBudget
  BY DEF IndInv
<1> QED
  BY <1>1, Inductive, PTL

\* Whatever the registry and the set of accounts at their limit, and however
\* often the user switches, UsageLimitReached is shown only when no other saved
\* account is left to try or the rotation failed.
THEOREM ShownWhenSpent == Spec => []SurfacedWhenSpent
<1>1. IndInv => SurfacedWhenSpent
  BY DEF IndInv
<1> QED
  BY <1>1, Inductive, PTL
=============================================================================
