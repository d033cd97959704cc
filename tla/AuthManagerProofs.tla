------------------------- MODULE AuthManagerProofs -------------------------
(***************************************************************************)
(* AuthManager for every number of processes, tasks and accounts, every    *)
(* choice of operations and faults: the type invariant, the scope of the   *)
(* permanent failure, the keys of accounts.json and the exclusion that     *)
(* refresh_lock gives, by one inductive invariant; then what one process   *)
(* may rely on, and what one process that runs only the operations that    *)
(* respect refresh_lock keeps on disk.                                     *)
(***************************************************************************)
EXTENDS AuthManager, AccountRegistryProofs

\* The inductive invariant is about the tasks and about what they share.
TaskInv ==
    /\ pc \in [Tasks -> PCs] /\ loc \in [Tasks -> Locals]
    /\ lock \in [Procs -> Tasks \cup {NoTask}]
    /\ CopiesWellKeyed /\ HoldersHoldLock /\ \A t \in Tasks : CarriesTokens(t)

DataInv ==
    /\ authFile \in Auths /\ accounts \in Seq(Rows) \cup {Corrupt}
    /\ cache \in [Procs -> Auths] /\ failure \in [Procs -> Auths]
    /\ live \subseteq Tokens /\ issued \in Nat /\ strayed \subseteq Accounts
    /\ outdated \subseteq Procs
    /\ FailureScoped /\ RegistryWellKeyed

\* The local variables l are fit for a task at label.
Typed(label, l) ==
    /\ label \in PCs /\ l \in Locals /\ WellKeyed(l.rows)
    /\ label \in {"memo", "request", "mirrorLoad", "upsertLoad", "activate"} =>
           l.auth \in ChatgptAuths
    /\ label \in {"persist", "persistSave"} => l.resp \in Tokens

\* ... and the task does not enter the section of refresh_lock there.
Fits(t, label, l) ==
    Typed(label, l) /\ (l.op \in LockOps /\ label \notin {"idle", "wait"} => Holds(t))

\* An accounts.json without rows.
LEMMA EmptyWellKeyed == <<>> \in Seq(Rows) /\ WellKeyed(<<>>)
BY DEF WellKeyed, UniqueIds, FiledUnderOwnId

\* The local variables of an idle task.
LEMMA FreshIsLocal ==
    /\ Fresh \in Locals /\ WellKeyed(Fresh.rows)
    /\ Fresh.op = "none" /\ Fresh.next = "idle" /\ Fresh.auth = NoAuth
BY EmptyWellKeyed, RegistryAssumption DEF Fresh, Locals, LocalOps, LockOps, Auths

\* A credential that is neither absent nor an API key has an account and a token.
LEMMA ChatgptIsChatgpt ==
    ASSUME NEW auth \in Auths
    PROVE  IsChatgpt(auth) <=> auth \in ChatgptAuths
BY RegistryAssumption DEF IsChatgpt, Auths

\* What a task and its process hold.
LEMMA Here ==
    ASSUME IndInv, NEW t \in Tasks
    PROVE  /\ ProcOf[t] \in Procs /\ Cached(t) \in Auths /\ authFile \in Auths
           /\ pc[t] \in PCs /\ loc[t] \in Locals /\ WellKeyed(loc[t].rows)
           /\ loc[t].auth \in Auths /\ CarriesTokens(t)
BY AuthAssumption DEF IndInv, TypeOK, CopiesWellKeyed, Cached, Locals

----------------------------------------------------------------------------
(* The steps the actions are made of. *)

\* A task goes on.
LEMMA MoveOk ==
    ASSUME IndInv, NEW t \in Tasks, NEW label, NEW l, Fits(t, label, l), Move(t, label, l)
    PROVE  TaskInv'
<1>1. /\ pc' \in [Tasks -> PCs] /\ pc'[t] = label /\ \A u \in Tasks \ {t} : pc'[u] = pc[u]
      /\ loc' \in [Tasks -> Locals] /\ loc'[t] = l /\ \A u \in Tasks \ {t} : loc'[u] = loc[u]
      /\ UNCHANGED lock
  BY DEF Move, Fits, Typed, IndInv, TypeOK
<1>2. CopiesWellKeyed'
  BY <1>1 DEF IndInv, CopiesWellKeyed, Fits, Typed
<1>3. HoldersHoldLock'
  BY <1>1 DEF IndInv, HoldersHoldLock, Holds, Fits
<1>4. \A u \in Tasks : CarriesTokens(u)'
  BY <1>1 DEF IndInv, CarriesTokens, Fits, Typed
<1> QED
  BY <1>1, <1>2, <1>3, <1>4 DEF TaskInv, IndInv, TypeOK

\* An operation returns and drops the guard it may hold.
LEMMA FinishOk ==
    ASSUME IndInv, NEW t \in Tasks, Finish(t)
    PROVE  TaskInv'
<1> USE AuthAssumption
<1>1. /\ pc' \in [Tasks -> PCs] /\ pc'[t] = "idle" /\ \A u \in Tasks \ {t} : pc'[u] = pc[u]
      /\ loc' \in [Tasks -> Locals] /\ loc'[t] = Fresh /\ \A u \in Tasks \ {t} : loc'[u] = loc[u]
  BY FreshIsLocal DEF Finish, IndInv, TypeOK, PCs
<1>2. lock' \in [Procs -> Tasks \cup {NoTask}]
      /\ \A u \in Tasks \ {t} : lock[ProcOf[u]] = u => lock'[ProcOf[u]] = u
  BY DEF Finish, IndInv, TypeOK
<1>3. CopiesWellKeyed'
  BY <1>1, FreshIsLocal DEF IndInv, CopiesWellKeyed
<1>4. HoldersHoldLock'
  BY <1>1, <1>2 DEF IndInv, HoldersHoldLock, Holds
<1>5. \A u \in Tasks : CarriesTokens(u)'
  BY <1>1 DEF IndInv, CarriesTokens
<1> QED
  BY <1>1, <1>2, <1>3, <1>4, <1>5 DEF TaskInv

\* Taking the lock keeps every other holder's claim: there was none.
LEMMA AcquireOk ==
    ASSUME IndInv, NEW t \in Tasks, NEW label, NEW l, Typed(label, l), Acquire(t, label, l)
    PROVE  TaskInv'
<1> USE AuthAssumption
<1>1. /\ pc' \in [Tasks -> PCs] /\ pc'[t] = label /\ \A u \in Tasks \ {t} : pc'[u] = pc[u]
      /\ loc' \in [Tasks -> Locals] /\ loc'[t] = l /\ \A u \in Tasks \ {t} : loc'[u] = loc[u]
  BY DEF Acquire, Typed, IndInv, TypeOK
<1>2. /\ lock' \in [Procs -> Tasks \cup {NoTask}] /\ lock'[ProcOf[t]] = t
      /\ lock[ProcOf[t]] = NoTask
      /\ \A p \in Procs \ {ProcOf[t]} : lock'[p] = lock[p]
  BY DEF Acquire, IndInv, TypeOK
<1>3. CopiesWellKeyed'
  BY <1>1 DEF IndInv, CopiesWellKeyed, Typed
<1>4. HoldersHoldLock'
  BY <1>1, <1>2 DEF IndInv, HoldersHoldLock, Holds
<1>5. \A u \in Tasks : CarriesTokens(u)'
  BY <1>1 DEF IndInv, CarriesTokens, Typed
<1> QED
  BY <1>1, <1>2, <1>3, <1>4, <1>5 DEF TaskInv

\* A step that changes nothing shared.
LEMMA Quiet ==
    ASSUME IndInv, UNCHANGED <<disk, memory, authority>>, TaskInv'
    PROVE  IndInv'
<1>1. DataInv'
  BY DEF IndInv, TypeOK, DataInv, FailureScoped, RegistryWellKeyed, disk, memory, authority
<1> QED
  BY <1>1 DEF IndInv, TypeOK, TaskInv, DataInv

\* A step that changes auth.json only.
LEMMA WritesAuth ==
    ASSUME IndInv, UNCHANGED <<accounts, memory, authority>>, authFile' \in Auths, TaskInv'
    PROVE  IndInv'
<1>1. DataInv'
  BY DEF IndInv, TypeOK, DataInv, FailureScoped, RegistryWellKeyed, memory, authority
<1> QED
  BY <1>1 DEF IndInv, TypeOK, TaskInv, DataInv

\* A step that saves a task's copy as accounts.json.
LEMMA WritesRows ==
    ASSUME IndInv, NEW t \in Tasks, accounts' = loc[t].rows,
           UNCHANGED <<authFile, memory, authority>>, TaskInv'
    PROVE  IndInv'
<1>1. accounts' \in Seq(Rows) /\ WellKeyed(accounts')
  BY Here DEF Locals
<1>2. DataInv'
  BY <1>1 DEF IndInv, TypeOK, DataInv, FailureScoped, RegistryWellKeyed, memory, authority
<1> QED
  BY <1>2 DEF IndInv, TypeOK, TaskInv, DataInv

----------------------------------------------------------------------------
(* One lemma per group of actions. *)

\* Reloads, with and without the check of the account.
LEMMA ReloadsPreserve ==
    ASSUME IndInv, NEW t \in Tasks,
           ReloadLoad(t) \/ ReloadSet(t) \/ GuardLoad(t) \/ GuardCompare(t) \/ Reload(t)
    PROVE  IndInv'
<1> USE Here, FreshIsLocal
<1>1. CASE ReloadLoad(t)
  <2>1. Fits(t, "set", [loc[t] EXCEPT !.auth = authFile])
    BY <1>1 DEF ReloadLoad, Fits, Typed, Holds, PCs, Locals
  <2> QED
    BY <1>1, <2>1, MoveOk, Quiet DEF ReloadLoad
<1>2. CASE ReloadSet(t)
  <2> DEFINE new == [loc[t] EXCEPT !.auth = NoAuth, !.next = "idle"]
  <2>1. Fits(t, loc[t].next, new)
    BY <1>2 DEF ReloadSet, Fits, Typed, Holds, PCs, Locals, Auths
  <2>2. TaskInv'
    BY <1>2, <2>1, MoveOk, FinishOk DEF ReloadSet
  <2>3. cache' \in [Procs -> Auths] /\ failure' \in [Procs -> Auths] /\ FailureScoped'
    BY <1>2 DEF ReloadSet, SetCached, FailureScoped, IndInv, TypeOK, Auths
  <2>4. outdated' \subseteq Procs
    BY <1>2 DEF ReloadSet, IndInv, TypeOK
  <2>5. UNCHANGED <<disk, authority>>
    BY <1>2 DEF ReloadSet
  <2> QED
    BY <2>2, <2>3, <2>4, <2>5 DEF TaskInv, IndInv, TypeOK, RegistryWellKeyed, disk, authority
<1>3. CASE GuardLoad(t)
  <2> DEFINE new == [loc[t] EXCEPT !.auth = authFile, !.next = "retry"]
             label == IF loc[t].op = "refresh" THEN "compare" ELSE "set"
  <2>1. Fits(t, label, new)
    BY <1>3 DEF GuardLoad, Fits, Typed, Holds, PCs, Locals
  <2> QED
    BY <1>3, <2>1, MoveOk, FinishOk, Quiet DEF GuardLoad
<1>4. CASE GuardCompare(t)
  <2> DEFINE new == [loc[t] EXCEPT !.next = IF Cached(t) = loc[t].auth THEN "attempt" ELSE "idle"]
  <2>1. Fits(t, "set", new)
    BY <1>4 DEF GuardCompare, Fits, Typed, Holds, PCs, Locals
  <2> QED
    BY <1>4, <2>1, MoveOk, Quiet DEF GuardCompare
<1>5. CASE Reload(t)
  <2>1. Fits(t, "set", [Fresh EXCEPT !.auth = authFile])
    BY DEF Fits, Typed, PCs, Locals, LockOps
  <2> QED
    BY <1>5, <2>1, MoveOk, Quiet DEF Reload
<1> QED
  BY <1>1, <1>2, <1>3, <1>4, <1>5

\* Asking for the lock, and taking it.
LEMMA LockedPreserve ==
    ASSUME IndInv, NEW t \in Tasks,
           \/ RequestRefresh(t) \/ RequestRotate(t) \/ \E id \in KnownIds : RequestSwitch(t, id)
           \/ Locked(t)
    PROVE  IndInv'
<1> USE Here, FreshIsLocal
<1>1. ASSUME NEW op \in LockOps, NEW id \in RegistryIds \cup {NoId}, Request(t, op, id)
      PROVE  IndInv'
  <2>1. Fits(t, "wait", [Fresh EXCEPT !.op = op, !.id = id])
    BY DEF Fits, Typed, PCs, Locals, LocalOps
  <2> QED
    BY <1>1, <2>1, MoveOk, Quiet DEF Request
<1>2. KnownIds \subseteq RegistryIds
  BY DEF KnownIds, RegistryIds, RegistryIdFor
<1>3. CASE LockedRefresh(t)
  <2>1. Typed("guard", [loc[t] EXCEPT !.auth = Cached(t)])
    BY DEF Typed, PCs, Locals
  <2> QED
    BY <1>3, <2>1, AcquireOk, Quiet DEF LockedRefresh, Acquire
<1>4. CASE LockedRecover(t)
  <2>1. Typed("attempt", loc[t])
    BY DEF Typed, PCs
  <2> QED
    BY <1>4, <2>1, AcquireOk, Quiet DEF LockedRecover, Acquire
<1>5. CASE LockedSelect(t)
  <2>1. Typed("mirror", loc[t])
    BY DEF Typed, PCs
  <2> QED
    BY <1>5, <2>1, AcquireOk, Quiet DEF LockedSelect, Acquire
<1> QED
  BY <1>1, <1>2, <1>3, <1>4, <1>5 DEF RequestRefresh, RequestRotate, RequestSwitch, Locked, LockOps

\* The authority answers with a token of the account it was asked about.
LEMMA RotateStep ==
    ASSUME IndInv, NEW tok \in Tokens, Rotate(tok)
    PROVE  live' \subseteq Tokens /\ issued' \in Nat /\ NewToken(tok.owner) \in Tokens
BY DEF Rotate, NewToken, Tokens, IndInv, TypeOK

\* Up to the request, and the answers of the token authority.
LEMMA AuthorityPreserves ==
    ASSUME IndInv, NEW t \in Tasks, Attempt(t) \/ LookUpFailure(t) \/ Authority(t)
    PROVE  IndInv'
<1> USE Here
<1>1. CASE Attempt(t)
  <2>1. ASSUME IsChatgpt(Cached(t)) PROVE Fits(t, "memo", [loc[t] EXCEPT !.auth = Cached(t)])
    BY <1>1, <2>1, ChatgptIsChatgpt DEF Attempt, Fits, Typed, Holds, PCs, Locals
  <2> QED
    BY <1>1, <2>1, MoveOk, FinishOk, Quiet DEF Attempt
<1>2. CASE LookUpFailure(t)
  <2>1. Fits(t, "request", loc[t])
    BY <1>2 DEF LookUpFailure, Fits, Typed, Holds, PCs, CarriesTokens
  <2> QED
    BY <1>2, <2>1, MoveOk, FinishOk, Quiet DEF LookUpFailure
<1>3. ASSUME pc[t] = "request"
      PROVE  loc[t].auth \in ChatgptAuths /\ loc[t].auth.tok \in Tokens
             /\ loc[t].auth.tok.owner \in Accounts
  BY <1>3 DEF CarriesTokens, ChatgptAuths, Tokens
<1>4. CASE AuthorityRotates(t)
  <2> DEFINE new == [loc[t] EXCEPT !.resp = NewToken(loc[t].auth.tok.owner)]
  <2>1. /\ pc[t] = "request" /\ Rotate(loc[t].auth.tok) /\ Move(t, "persist", new)
        /\ UNCHANGED <<disk, memory, strayed>>
    BY <1>4 DEF AuthorityRotates
  <2>2. live' \subseteq Tokens /\ issued' \in Nat /\ NewToken(loc[t].auth.tok.owner) \in Tokens
    BY <1>3, <2>1, RotateStep
  <2>3. Fits(t, "persist", new)
    BY <2>1, <2>2 DEF Fits, Typed, Holds, PCs, Locals
  <2>4. TaskInv'
    BY <2>1, <2>3, MoveOk
  <2> QED
    BY <2>1, <2>2, <2>4 DEF TaskInv, IndInv, TypeOK, FailureScoped, RegistryWellKeyed, disk, memory
<1>5. CASE AuthorityRejects(t)
  <2>1. TaskInv' /\ UNCHANGED <<disk, cache, outdated, authority>>
    BY <1>5, FinishOk DEF AuthorityRejects
  <2>2. failure' \in [Procs -> Auths] /\ FailureScoped'
    BY <1>5 DEF AuthorityRejects, Cached, FailureScoped, IndInv, TypeOK
  <2> QED
    BY <2>1, <2>2 DEF TaskInv, IndInv, TypeOK, RegistryWellKeyed, disk, authority
<1>6. CASE AuthorityFails(t)
  <2>1. TaskInv' /\ UNCHANGED <<disk, memory>> /\ pc[t] = "request"
    BY <1>6, FinishOk DEF AuthorityFails
  <2>2. live' \subseteq Tokens /\ issued' \in Nat /\ strayed' \subseteq Accounts
    BY <1>3, <1>6, <2>1, RotateStep DEF AuthorityFails, authority, IndInv, TypeOK
  <2> QED
    BY <2>1, <2>2 DEF TaskInv, IndInv, TypeOK, FailureScoped, RegistryWellKeyed, disk, memory
<1> QED
  BY <1>1, <1>2, <1>4, <1>5, <1>6 DEF Authority

\* What persist_tokens makes of a record.
LEMMA MergeType ==
    ASSUME NEW auth \in Auths, NEW tok \in Tokens
    PROVE  Merge(auth, tok) \in Auths
<1>1. CASE IsChatgpt(auth)
  <2>1. auth \in ChatgptAuths
    BY <1>1, ChatgptIsChatgpt
  <2> QED
    BY <1>1, <2>1 DEF Merge, ChatgptAuths, Auths, Tokens
<1>2. CASE ~IsChatgpt(auth)
  BY <1>2 DEF Merge
<1> QED
  BY <1>1, <1>2

LEMMA PersistPreserves ==
    ASSUME IndInv, NEW t \in Tasks, PersistLoad(t) \/ PersistSave(t)
    PROVE  IndInv'
<1> USE Here
<1>1. pc[t] \in {"persist", "persistSave"} /\ loc[t].resp \in Tokens
  BY DEF PersistLoad, PersistSave, CarriesTokens
<1>2. CASE PersistLoad(t)
  <2>1. Fits(t, "persistSave", [loc[t] EXCEPT !.auth = authFile])
    BY <1>1, <1>2 DEF PersistLoad, Fits, Typed, Holds, PCs, Locals
  <2>2. TaskInv'
    BY <1>2, <2>1, MoveOk, FinishOk DEF PersistLoad
  <2>3. strayed' \subseteq Accounts /\ UNCHANGED <<disk, memory, live, issued>>
    BY <1>1, <1>2 DEF PersistLoad, Tokens, IndInv, TypeOK
  <2> QED
    BY <2>2, <2>3 DEF TaskInv, IndInv, TypeOK, FailureScoped, RegistryWellKeyed, disk, memory
<1>3. CASE PersistSave(t)
  <2>1. Fits(t, "load", [loc[t] EXCEPT !.resp = NoToken, !.next = "mirror"])
    BY <1>1 DEF Fits, Typed, Holds, PCs, Locals
  <2>2. TaskInv' /\ authFile' \in Auths
    BY <1>1, <1>3, <2>1, MoveOk, MergeType DEF PersistSave
  <2> QED
    BY <1>3, <2>2, WritesAuth DEF PersistSave
<1> QED
  BY <1>2, <1>3

\* After the mirror the operation selects an account or returns.
LEMMA AfterMirrorOk ==
    ASSUME IndInv, NEW t \in Tasks, pc[t] \notin {"idle", "wait"}, AfterMirror(t)
    PROVE  TaskInv'
<1>1. Fits(t, "select", [loc[t] EXCEPT !.auth = NoAuth, !.rows = <<>>])
  BY Here, EmptyWellKeyed DEF Fits, Typed, Holds, PCs, Locals, Auths
<1> QED
  BY <1>1, MoveOk, FinishOk DEF AfterMirror

\* The mirror of the active credential into its row.
LEMMA MirrorPreserves ==
    ASSUME IndInv, NEW t \in Tasks, MirrorRead(t) \/ MirrorLoad(t) \/ MirrorSave(t)
    PROVE  IndInv'
<1> USE Here
<1>1. CASE MirrorRead(t)
  <2>1. ASSUME IsChatgpt(Cached(t))
        PROVE  Fits(t, "mirrorLoad", [loc[t] EXCEPT !.auth = Cached(t)])
    BY <1>1, <2>1, ChatgptIsChatgpt DEF MirrorRead, Fits, Typed, Holds, PCs, Locals
  <2>2. TaskInv'
    BY <1>1, <2>1, MoveOk, AfterMirrorOk DEF MirrorRead
  <2> QED
    BY <1>1, <2>2, Quiet DEF MirrorRead
<1>2. CASE MirrorLoad(t)
  <2> DEFINE new == [loc[t] EXCEPT !.rows = UpdateIfExists(accounts, loc[t].auth)]
  <2>1. ASSUME accounts # Corrupt PROVE Fits(t, "mirrorSave", new)
    <3>1. loc[t].auth \in ChatgptAuths /\ accounts \in Seq(Rows) /\ WellKeyed(accounts)
      BY <1>2, <2>1 DEF MirrorLoad, CarriesTokens, IndInv, TypeOK, RegistryWellKeyed
    <3>2. /\ UpdateIfExists(accounts, loc[t].auth) \in Seq(Rows)
          /\ WellKeyed(UpdateIfExists(accounts, loc[t].auth))
      BY <3>1, UpdateKeepsKeys
    <3> QED
      BY <1>2, <3>2 DEF MirrorLoad, Fits, Typed, Holds, PCs, Locals
  <2>2. TaskInv'
    BY <1>2, <2>1, MoveOk, AfterMirrorOk DEF MirrorLoad
  <2> QED
    BY <1>2, <2>2, Quiet DEF MirrorLoad
<1>3. CASE MirrorSave(t)
  BY <1>3, AfterMirrorOk, WritesRows DEF MirrorSave
<1> QED
  BY <1>1, <1>2, <1>3

\* The selection of an account, and its activation.
LEMMA SelectPreserves ==
    ASSUME IndInv, NEW t \in Tasks,
           \/ SwitchSelect(t) \/ RotateLoad(t) \/ Activate(t)
           \/ \E exhausted \in SUBSET KnownIds : RotatePick(t, exhausted)
    PROVE  IndInv'
<1> USE Here
<1>1. CASE SwitchSelect(t)
  <2> DEFINE new == [loc[t] EXCEPT !.auth = SavedAuth(accounts, loc[t].id)]
  <2>1. ASSUME accounts # Corrupt, loc[t].id \in Ids(accounts) PROVE Fits(t, "activate", new)
    <3>1. accounts \in Seq(Rows)
      BY <2>1 DEF IndInv, TypeOK
    <3>2. SavedAuth(accounts, loc[t].id) \in ChatgptAuths
      <4>1. accounts[IndexOf(accounts, loc[t].id)] \in Rows
        BY <2>1, <3>1, IndexOfFinds, ElementOfSeq
      <4> QED
        BY <4>1 DEF SavedAuth, Rows
    <3> QED
      BY <1>1, <3>2 DEF SwitchSelect, Fits, Typed, Holds, PCs, Locals, Auths
  <2> QED
    BY <1>1, <2>1, MoveOk, FinishOk, Quiet DEF SwitchSelect
<1>2. CASE RotateLoad(t)
  <2>1. ASSUME accounts # Corrupt PROVE Fits(t, "pick", [loc[t] EXCEPT !.rows = accounts])
    BY <1>2, <2>1 DEF RotateLoad, Fits, Typed, Holds, PCs, Locals, IndInv, TypeOK,
       RegistryWellKeyed
  <2> QED
    BY <1>2, <2>1, MoveOk, FinishOk, Quiet DEF RotateLoad
<1>3. ASSUME NEW exhausted \in SUBSET KnownIds, RotatePick(t, exhausted) PROVE IndInv'
  <2> DEFINE rows == loc[t].rows
             E == Eligible(rows, exhausted, RegistryIdOf(authFile))
             k == NextEligible(rows, exhausted, RegistryIdOf(authFile))
             new == [loc[t] EXCEPT !.auth = rows[k].auth, !.rows = <<>>]
  <2>1. ASSUME E # {} PROVE Fits(t, "activate", new)
    <3>1. rows \in Seq(Rows)
      BY DEF Locals
    <3>2. k \in DOMAIN rows
      BY <2>1, <3>1, NextEligibleIsRow DEF Eligible
    <3>3. rows[k].auth \in ChatgptAuths
      <4>1. rows[k] \in Rows
        BY <3>1, <3>2, ElementOfSeq, LenProperties
      <4> QED
        BY <4>1 DEF Rows
    <3> QED
      BY <1>3, <3>3, EmptyWellKeyed DEF RotatePick, Fits, Typed, Holds, PCs, Locals, Auths
  <2>2. /\ IF E # {} THEN Move(t, "activate", new) ELSE Finish(t)
        /\ UNCHANGED <<disk, memory, authority>>
    BY <1>3 DEF RotatePick
  <2> QED
    BY <2>1, <2>2, MoveOk, FinishOk, Quiet
<1>4. CASE Activate(t)
  <2>1. Fits(t, "load", [loc[t] EXCEPT !.auth = NoAuth])
    BY <1>4 DEF Activate, Fits, Typed, Holds, PCs, Locals, Auths
  <2> QED
    BY <1>4, <2>1, MoveOk, WritesAuth DEF Activate
<1> QED
  BY <1>1, <1>2, <1>3, <1>4

\* UnauthorizedRecovery outside the lock.
LEMMA RecoverPreserves ==
    ASSUME IndInv, NEW t \in Tasks,
           RecoverBegin(t) \/ RecoverReload(t) \/ RecoverRefresh(t) \/ RecoverSatisfied(t)
    PROVE  IndInv'
<1> USE Here, FreshIsLocal
<1>1. CASE RecoverBegin(t)
  <2>1. Fits(t, "recover", [Fresh EXCEPT !.op = "recover", !.auth = Cached(t)])
    BY DEF Fits, Typed, PCs, Locals, LocalOps, LockOps
  <2> QED
    BY <1>1, <2>1, MoveOk, Quiet DEF RecoverBegin
<1>2. CASE RecoverReload(t)
  <2>1. Fits(t, "guard", loc[t])
    BY <1>2 DEF RecoverReload, Fits, Typed, Holds, PCs
  <2> QED
    BY <1>2, <2>1, MoveOk, FinishOk, Quiet DEF RecoverReload, RecoverNext
<1>3. CASE RecoverRefresh(t)
  <2>1. Fits(t, "wait", [Fresh EXCEPT !.op = "authority"])
    BY DEF Fits, Typed, PCs, Locals, LocalOps, LockOps
  <2> QED
    BY <1>3, <2>1, MoveOk, FinishOk, Quiet DEF RecoverRefresh, RecoverNext
<1>4. CASE RecoverSatisfied(t)
  BY <1>4, FinishOk, Quiet DEF RecoverSatisfied
<1> QED
  BY <1>1, <1>2, <1>3, <1>4

\* The removal of an account.
LEMMA RemovePreserves ==
    ASSUME IndInv, NEW t \in Tasks,
           \/ \E id \in KnownIds : RemoveBegin(t, id)
           \/ RemoveLoad(t) \/ RemoveSave(t) \/ RemoveNext(t)
    PROVE  IndInv'
<1> USE Here, FreshIsLocal
<1>1. ASSUME NEW id \in KnownIds, RemoveBegin(t, id) PROVE IndInv'
  <2> DEFINE op == IF RegistryIdOf(authFile) = id THEN "removeActive" ELSE "removeOther"
             new == [Fresh EXCEPT !.op = op, !.id = id]
  <2>1. id \in RegistryIds
    BY DEF KnownIds, RegistryIds, RegistryIdFor
  <2>2. op \in LocalOps /\ op \notin LockOps
    BY DEF LocalOps, LockOps
  <2>3. new \in Locals /\ new.rows = Fresh.rows /\ new.op = op
    BY <2>1, <2>2 DEF Locals
  <2>4. Fits(t, "removeLoad", new)
    BY <2>2, <2>3 DEF Fits, Typed, PCs
  <2> QED
    BY <1>1, <2>4, MoveOk, Quiet DEF RemoveBegin
<1>2. CASE RemoveLoad(t)
  <2> DEFINE new == [loc[t] EXCEPT !.rows = Retain(accounts, loc[t].id)]
  <2>1. ASSUME accounts # Corrupt PROVE Fits(t, "removeSave", new)
    <3>1. Retain(accounts, loc[t].id) \in Seq(Rows) /\ WellKeyed(Retain(accounts, loc[t].id))
      BY <2>1, RetainKeepsKeys DEF IndInv, TypeOK, RegistryWellKeyed
    <3> QED
      BY <1>2, <3>1 DEF RemoveLoad, Fits, Typed, Holds, PCs, Locals
  <2> QED
    BY <1>2, <2>1, MoveOk, FinishOk, Quiet DEF RemoveLoad
<1>3. CASE RemoveSave(t)
  <2>1. Fits(t, "removeNext", Fresh)
    BY DEF Fits, Typed, PCs, LockOps
  <2> QED
    BY <1>3, <2>1, MoveOk, FinishOk, WritesRows DEF RemoveSave
<1>4. CASE RemoveNext(t)
  <2> DEFINE new == [Fresh EXCEPT !.op = "switch", !.id = accounts[1].id]
  <2>1. ASSUME accounts # Corrupt, accounts # <<>> PROVE Fits(t, "wait", new)
    <3>1. accounts \in Seq(Rows)
      BY <2>1 DEF IndInv, TypeOK
    <3>2. 1 \in 1..Len(accounts)
      BY <2>1, <3>1, EmptySeq, LenProperties
    <3>3. accounts[1].id \in RegistryIds
      <4>1. accounts[1] \in Rows
        BY <3>1, <3>2, ElementOfSeq
      <4> QED
        BY <4>1 DEF Rows
    <3> QED
      BY <3>3 DEF Fits, Typed, PCs, Locals, LocalOps, LockOps
  <2> QED
    BY <1>4, <2>1, MoveOk, FinishOk, Quiet DEF RemoveNext
<1> QED
  BY <1>1, <1>2, <1>3, <1>4

\* The login flow.
LEMMA LoginPreserves ==
    ASSUME IndInv, NEW t \in Tasks,
           \/ LoginStart(t) \/ UpsertLoad(t) \/ UpsertSave(t) \/ LoginUpsert(t) \/ LoginUnsaved(t)
           \/ LoginCancelled(t) \/ \E acct \in Accounts : LoginCallback(t, acct)
    PROVE  IndInv'
<1> USE Here, FreshIsLocal
<1>1. ASSUME NEW op \in {"login", "added"}, IsChatgpt(authFile)
      PROVE  Fits(t, "upsertLoad", [Fresh EXCEPT !.op = op, !.auth = authFile])
  BY <1>1, ChatgptIsChatgpt DEF Fits, Typed, PCs, Locals, LocalOps, LockOps
<1>2. ASSUME NEW label \in {"browser", "load", "loginUpsert"} PROVE Fits(t, label, Fresh)
  BY <1>2 DEF Fits, Typed, PCs, LockOps
<1>3. CASE LoginStart(t)
  BY <1>1, <1>2, <1>3, MoveOk, Quiet DEF LoginStart
<1>4. CASE UpsertLoad(t)
  <2> DEFINE new == [loc[t] EXCEPT !.rows = Upsert(accounts, loc[t].auth)]
  <2>1. ASSUME accounts # Corrupt PROVE Fits(t, "upsertSave", new)
    <3>1. loc[t].auth \in ChatgptAuths /\ accounts \in Seq(Rows) /\ WellKeyed(accounts)
      BY <1>4, <2>1 DEF UpsertLoad, CarriesTokens, IndInv, TypeOK, RegistryWellKeyed
    <3>2. /\ Upsert(accounts, loc[t].auth) \in Seq(Rows)
          /\ WellKeyed(Upsert(accounts, loc[t].auth))
      BY <3>1, UpsertKeepsKeys
    <3> QED
      BY <1>4, <3>2 DEF UpsertLoad, Fits, Typed, Holds, PCs, Locals
  <2> QED
    BY <1>2, <1>4, <2>1, MoveOk, Quiet DEF UpsertLoad
<1>5. CASE UpsertSave(t)
  BY <1>2, <1>5, MoveOk, WritesRows DEF UpsertSave
<1>6. CASE LoginUpsert(t)
  BY <1>1, <1>6, MoveOk, Quiet DEF LoginUpsert
<1>7. CASE LoginUnsaved(t)
  <2>1. TaskInv' /\ outdated' \subseteq Procs /\ UNCHANGED <<disk, cache, failure, authority>>
    BY <1>7, FinishOk DEF LoginUnsaved, IndInv, TypeOK
  <2> QED
    BY <2>1 DEF TaskInv, IndInv, TypeOK, FailureScoped, RegistryWellKeyed, disk, authority
<1>8. CASE LoginCancelled(t)
  BY <1>8, FinishOk, Quiet DEF LoginCancelled
<1>9. ASSUME NEW acct \in Accounts, LoginCallback(t, acct) PROVE IndInv'
  <2>1. NewToken(acct) \in Tokens
    BY DEF NewToken, Tokens, IndInv, TypeOK
  <2>2. TaskInv' /\ UNCHANGED <<accounts, memory, strayed>>
    BY <1>2, <1>9, MoveOk DEF LoginCallback
  <2>3. live' \subseteq Tokens /\ issued' \in Nat /\ authFile' \in Auths
    BY <1>9, <2>1 DEF LoginCallback, IndInv, TypeOK, ChatgptAuths, Auths
  <2> QED
    BY <2>2, <2>3 DEF TaskInv, IndInv, TypeOK, FailureScoped, RegistryWellKeyed, memory
<1> QED
  BY <1>3, <1>4, <1>5, <1>6, <1>7, <1>8, <1>9

\* The API key and the logout.
LEMMA LogoutPreserves ==
    ASSUME IndInv, NEW t \in Tasks,
           LoginWithApiKey(t) \/ LogoutBegin(t) \/ LogoutRevoked(t) \/ LogoutDelete(t)
    PROVE  IndInv'
<1> USE Here, FreshIsLocal
<1>1. CASE LoginWithApiKey(t)
  <2>1. Fits(t, "load", Fresh)
    BY DEF Fits, Typed, PCs, LockOps
  <2> QED
    BY <1>1, <2>1, MoveOk, WritesAuth DEF LoginWithApiKey, Auths
<1>2. CASE LogoutBegin(t)
  <2>1. Fits(t, "revoke", [Fresh EXCEPT !.op = "logout", !.auth = Cached(t)])
    BY DEF Fits, Typed, PCs, Locals, LocalOps, LockOps
  <2> QED
    BY <1>2, <2>1, MoveOk, Quiet DEF LogoutBegin
<1>3. CASE LogoutRevoked(t)
  <2>1. Fits(t, "delete", [Fresh EXCEPT !.op = "logout"])
    BY DEF Fits, Typed, PCs, Locals, LocalOps, LockOps
  <2>2. TaskInv' /\ live' \subseteq live /\ UNCHANGED <<disk, memory, issued, strayed>>
    BY <1>3, <2>1, MoveOk DEF LogoutRevoked
  <2> QED
    BY <2>2 DEF TaskInv, IndInv, TypeOK, FailureScoped, RegistryWellKeyed, disk, memory
<1>4. CASE LogoutDelete(t)
  <2>1. Fits(t, "load", loc[t])
    BY <1>4 DEF LogoutDelete, Fits, Typed, Holds, PCs
  <2> QED
    BY <1>4, <2>1, MoveOk, WritesAuth DEF LogoutDelete, Auths
<1> QED
  BY <1>1, <1>2, <1>3, <1>4

\* A process dies: its tasks and its memory are gone, the files stay or, in the middle of a
\* save, stop parsing.
LEMMA CrashPreserves ==
    ASSUME IndInv, NEW p \in Procs, Crash(p)
    PROVE  IndInv'
<1> USE AuthAssumption
<1> DEFINE mine == {t \in Tasks : ProcOf[t] = p}
<1>1. accounts' \in Seq(Rows) \cup {Corrupt} /\ RegistryWellKeyed'
  BY DEF Crash, IndInv, TypeOK, RegistryWellKeyed
<1>2. /\ cache' = [cache EXCEPT ![p] = authFile]
      /\ failure' = [failure EXCEPT ![p] = NoAuth]
      /\ lock' = [lock EXCEPT ![p] = NoTask]
      /\ pc' = [t \in Tasks |-> IF t \in mine THEN "idle" ELSE pc[t]]
      /\ loc' = [t \in Tasks |-> IF t \in mine THEN Fresh ELSE loc[t]]
      /\ UNCHANGED <<authFile, live, issued, outdated>>
  BY DEF Crash
<1>3. /\ cache' \in [Procs -> Auths] /\ failure' \in [Procs -> Auths] /\ FailureScoped'
  BY <1>2 DEF IndInv, TypeOK, FailureScoped, Auths
<1>4. /\ pc' \in [Tasks -> PCs] /\ loc' \in [Tasks -> Locals]
      /\ lock' \in [Procs -> Tasks \cup {NoTask}]
  BY <1>2, FreshIsLocal DEF IndInv, TypeOK, PCs
<1>5. strayed' \subseteq Accounts
  BY DEF Crash, IndInv, TypeOK, CarriesTokens, Tokens
<1>6. CopiesWellKeyed'
  BY <1>2, FreshIsLocal DEF IndInv, CopiesWellKeyed
<1>7. \A t \in Tasks : CarriesTokens(t)'
  BY <1>2 DEF IndInv, CarriesTokens
<1>8. HoldersHoldLock'
  BY <1>2 DEF IndInv, TypeOK, HoldersHoldLock, Holds
<1> QED
  BY <1>1, <1>2, <1>3, <1>4, <1>5, <1>6, <1>7, <1>8 DEF IndInv, TypeOK

----------------------------------------------------------------------------
\* The accounts saved at the start are distinct, so the first file is well keyed.
LEMMA InitIsInductive == Init => IndInv
<1> SUFFICES ASSUME Init PROVE IndInv
  OBVIOUS
<1> USE AuthAssumption
<1> DEFINE n == Len(InitSaved)
<1>1. n \in Nat /\ DOMAIN InitSaved = 1..n
  BY LenProperties
<1>2. \A i \in 1..n : /\ InitSaved[i] \in Accounts
                      /\ FirstAuth(i) \in ChatgptAuths
                      /\ FirstAuth(i).acct = InitSaved[i]
                      /\ FirstAuth(i).tok \in Tokens
  BY <1>1, ElementOfSeq DEF FirstAuth, ChatgptAuths, Tokens
<1>3. accounts = [i \in 1..n |-> RowFor(FirstAuth(i))]
  BY DEF Init
<1>4. \A i \in 1..n : /\ accounts[i] \in Rows
                      /\ accounts[i].id = RegistryIdFor(InitSaved[i])
                      /\ accounts[i].auth.acct = InitSaved[i]
  BY <1>2, <1>3, RowForIsRow
<1>5. accounts \in Seq(Rows) /\ DOMAIN accounts = 1..n
  BY <1>1, <1>3, <1>4
<1>6. WellKeyed(accounts)
  <2>1. \A a, b \in Accounts : RegistryIdFor(a) = RegistryIdFor(b) => a = b
    BY DEF RegistryIdFor
  <2>2. UniqueIds(accounts)
    BY <1>1, <1>2, <1>4, <1>5, <2>1 DEF UniqueIds
  <2>3. FiledUnderOwnId(accounts)
    BY <1>4, <1>5 DEF FiledUnderOwnId
  <2> QED
    BY <2>2, <2>3 DEF WellKeyed
<1>7. authFile \in Auths
  <2>1. CASE InitSaved = <<>>
    BY <2>1 DEF Init, Auths
  <2>2. CASE InitSaved # <<>>
    <3>1. 1 \in 1..n
      BY <2>2, <1>1, EmptySeq
    <3> QED
      BY <2>2, <3>1, <1>2 DEF Init, Auths
  <2> QED
    BY <2>1, <2>2
<1>8. live \subseteq Tokens /\ issued \in Nat /\ strayed \subseteq Accounts /\ outdated \subseteq Procs
  BY <1>1, <1>2 DEF Init
<1>9. /\ cache \in [Procs -> Auths] /\ failure \in [Procs -> Auths]
      /\ lock \in [Procs -> Tasks \cup {NoTask}] /\ pc \in [Tasks -> PCs]
      /\ loc \in [Tasks -> Locals]
  BY <1>7, FreshIsLocal DEF Init, Auths, PCs
<1>10. FailureScoped /\ CopiesWellKeyed /\ HoldersHoldLock /\ \A t \in Tasks : CarriesTokens(t)
  BY FreshIsLocal DEF Init, FailureScoped, CopiesWellKeyed, CarriesTokens,
     HoldersHoldLock, Holds
<1> QED
  BY <1>5, <1>6, <1>7, <1>8, <1>9, <1>10 DEF IndInv, TypeOK, RegistryWellKeyed

\* Every step of every task, and every crash, preserves the inductive invariant.
LEMMA NextPreserves == IndInv /\ [Next]_vars => IndInv'
<1> SUFFICES ASSUME IndInv, [Next]_vars PROVE IndInv'
  OBVIOUS
<1>1. ASSUME NEW t \in Tasks, Begin(t) PROVE IndInv'
  BY <1>1, LockedPreserve, RemovePreserves, RecoverPreserves, LoginPreserves, LogoutPreserves,
     ReloadsPreserve DEF Begin
<1>2. ASSUME NEW t \in Tasks, User(t) PROVE IndInv'
  BY <1>2, LoginPreserves, RecoverPreserves DEF User
<1>3. ASSUME NEW t \in Tasks, Locked(t) PROVE IndInv'
  BY <1>3, LockedPreserve
<1>4. ASSUME NEW t \in Tasks, Authority(t) PROVE IndInv'
  BY <1>4, AuthorityPreserves
<1>5. ASSUME NEW t \in Tasks, Continue(t) PROVE IndInv'
  BY <1>5, ReloadsPreserve, AuthorityPreserves, PersistPreserves, MirrorPreserves,
     SelectPreserves, RecoverPreserves, RemovePreserves, LoginPreserves, LogoutPreserves
     DEF Continue
<1>6. ASSUME NEW p \in Procs, Crash(p) PROVE IndInv'
  BY <1>6, CrashPreserves
<1>7. CASE UNCHANGED vars
  <2>1. TaskInv'
    BY <1>7 DEF vars, IndInv, TypeOK, TaskInv, CopiesWellKeyed, HoldersHoldLock, Holds,
       CarriesTokens
  <2> QED
    BY <1>7, <2>1, Quiet DEF vars, disk, memory, authority
<1> QED
  BY <1>1, <1>2, <1>3, <1>4, <1>5, <1>6, <1>7 DEF Next

\* The inductive invariant holds in every reachable state.
THEOREM Inductive == Spec => []IndInv
BY InitIsInductive, NextPreserves, PTL DEF Spec

\* Every variable keeps its type, for every number of processes and tasks.
THEOREM TypeCorrect == Spec => []TypeOK
<1>1. IndInv => TypeOK
  BY DEF IndInv
<1> QED
  BY Inductive, <1>1, PTL

\* A recorded permanent failure is always about the credential in the cache,
\* whatever refreshes, switches, logins and logouts of the process interleave.
THEOREM FailureIsScoped == Spec => []FailureScoped
<1>1. IndInv => FailureScoped
  BY DEF IndInv
<1> QED
  BY Inductive, <1>1, PTL

\* accounts.json keeps one row per account, under that account's id, although
\* its writers do not exclude one another.
THEOREM RegistryStaysWellKeyed == Spec => []RegistryWellKeyed
<1>1. IndInv => RegistryWellKeyed
  BY DEF IndInv
<1> QED
  BY Inductive, <1>1, PTL

\* Two tasks of one process never both hold refresh_lock: the holder named by
\* the lock is unique, and crashes and error paths leave no second one behind.
THEOREM RefreshIsExclusive == Spec => []RefreshExclusive
<1>1. IndInv => RefreshExclusive
  BY AuthAssumption DEF IndInv, HoldersHoldLock, RefreshExclusive
<1> QED
  BY Inductive, <1>1, PTL

(***************************************************************************)
(* Which step can bring auth.json back.                                    *)
(***************************************************************************)

\* The steps that write auth.json.
Writes(t) ==
    \/ PersistSave(t) \/ Activate(t) \/ LogoutDelete(t) \/ LoginWithApiKey(t)
    \/ \E acct \in Accounts : LoginCallback(t, acct)

LEMMA AuthFileWriters ==
    ASSUME Next
    PROVE  UNCHANGED authFile \/ \E t \in Tasks : Writes(t)
<1>1. ASSUME NEW t \in Tasks, Begin(t), ~LoginWithApiKey(t) PROVE UNCHANGED authFile
  BY <1>1 DEF Begin, RequestRefresh, RequestRotate, RequestSwitch, Request, RemoveBegin,
     RecoverBegin, LoginStart, LogoutBegin, Reload, disk
<1>2. ASSUME NEW t \in Tasks, User(t), \A acct \in Accounts : ~LoginCallback(t, acct)
      PROVE  UNCHANGED authFile
  BY <1>2 DEF User, LoginCancelled, RecoverSatisfied, RecoverRefresh, RecoverNext, disk
<1>3. ASSUME NEW t \in Tasks, Locked(t) \/ Authority(t) PROVE UNCHANGED authFile
  BY <1>3 DEF Locked, LockedRefresh, LockedRecover, LockedSelect, Acquire, Authority,
     AuthorityRotates, AuthorityRejects, AuthorityFails, disk
<1>4. ASSUME NEW t \in Tasks, Continue(t), ~PersistSave(t), ~Activate(t), ~LogoutDelete(t)
      PROVE  UNCHANGED authFile
  <2>1. CASE ReloadLoad(t) \/ ReloadSet(t) \/ GuardLoad(t) \/ GuardCompare(t) \/ Attempt(t)
             \/ LookUpFailure(t) \/ PersistLoad(t) \/ RecoverReload(t) \/ LogoutRevoked(t)
    BY <2>1 DEF ReloadLoad, ReloadSet, GuardLoad, GuardCompare, Attempt, LookUpFailure,
       PersistLoad, RecoverReload, RecoverNext, LogoutRevoked, disk
  <2>2. CASE MirrorRead(t) \/ MirrorLoad(t) \/ MirrorSave(t) \/ SwitchSelect(t) \/ RotateLoad(t)
             \/ \E exhausted \in SUBSET KnownIds : RotatePick(t, exhausted)
    BY <2>2 DEF MirrorRead, MirrorLoad, MirrorSave, SwitchSelect, RotateLoad, RotatePick, disk
  <2>3. CASE RemoveLoad(t) \/ RemoveSave(t) \/ RemoveNext(t) \/ UpsertLoad(t) \/ UpsertSave(t)
             \/ LoginUpsert(t) \/ LoginUnsaved(t)
    BY <2>3 DEF RemoveLoad, RemoveSave, RemoveNext, UpsertLoad, UpsertSave, LoginUpsert,
       LoginUnsaved, disk
  <2> QED
    BY <1>4, <2>1, <2>2, <2>3 DEF Continue
<1>5. ASSUME NEW p \in Procs, Crash(p) PROVE UNCHANGED authFile
  BY <1>5 DEF Crash
<1> QED
  BY <1>1, <1>2, <1>3, <1>4, <1>5 DEF Next, Writes

\* Where a task goes.
LEMMA Moved ==
    ASSUME IndInv, NEW t \in Tasks, NEW label, NEW l, Move(t, label, l)
    PROVE  /\ pc'[t] = label /\ loc'[t] = l /\ UNCHANGED lock
           /\ \A u \in Tasks \ {t} : pc'[u] = pc[u] /\ loc'[u] = loc[u]
BY DEF Move, IndInv, TypeOK

LEMMA Finished ==
    ASSUME IndInv, NEW t \in Tasks, Finish(t)
    PROVE  /\ pc'[t] = "idle" /\ loc'[t] = Fresh
           /\ \A u \in Tasks \ {t} : pc'[u] = pc[u] /\ loc'[u] = loc[u]
BY DEF Finish, IndInv, TypeOK

LEMMA Acquired ==
    ASSUME IndInv, NEW t \in Tasks, NEW label, NEW l, Acquire(t, label, l)
    PROVE  /\ pc[t] = "wait" /\ pc'[t] = label /\ loc'[t] = l
           /\ \A u \in Tasks \ {t} : pc'[u] = pc[u] /\ loc'[u] = loc[u]
BY DEF Acquire, IndInv, TypeOK

\* One step recreates a missing auth.json only by signing in, or by saving what a refresh had
\* read before it was deleted.
LEMMA LogoutSticksStep ==
    ASSUME IndInv, [Next]_vars, authFile = NoAuth, authFile' # NoAuth
    PROVE  SignsIn
<1>1. PICK t \in Tasks : Writes(t)
  BY AuthFileWriters DEF vars
<1>2. CASE PersistSave(t) \/ Activate(t)
  <2>1. pc[t] \in {"persistSave", "activate"} /\ pc'[t] = "load"
    BY <1>2, Moved DEF PersistSave, Activate
  <2> QED
    BY <2>1 DEF SignsIn
<1>3. CASE \E acct \in Accounts : LoginCallback(t, acct)
  <2>1. pc[t] = "browser" /\ pc'[t] = "loginUpsert"
    BY <1>3, Moved DEF LoginCallback
  <2> QED
    BY <2>1 DEF SignsIn
<1>4. CASE LogoutDelete(t) \/ LoginWithApiKey(t)
  BY <1>4 DEF LogoutDelete, LoginWithApiKey, SignsIn
<1> QED
  BY <1>1, <1>2, <1>3, <1>4 DEF Writes

\* After a logout auth.json comes back only through a login, a switch or a refresh that had
\* read it before the logout deleted it (persist_tokens between its load and its save), for
\* any number of tasks, processes, accounts and faults: a refresh whose load comes after the
\* logout does not write it.
THEOREM LogoutIsFinal == Spec => LogoutSticks
<1>1. IndInv /\ [Next]_vars => [authFile = NoAuth /\ authFile' # NoAuth => SignsIn]_vars
  BY LogoutSticksStep
<1> QED
  BY <1>1, Inductive, PTL DEF Spec, LogoutSticks

(***************************************************************************)
(* One process on its CODEX_HOME: the cache and auth.json.                 *)
(***************************************************************************)

Others(t) == \A u \in Tasks \ {t} : pc'[u] = pc[u] /\ loc'[u] = loc[u]

\* A step of one task that is on its way to a reload, publishes auth.json, is overtaken, or
\* leaves auth.json and the cache as they are.
LEMMA CoherentStep ==
    ASSUME SoleProcess, CacheCoherent, NEW t \in Tasks, Others(t), outdated \subseteq outdated',
           \/ Reloading(t)' \/ cache'[ProcOf[t]] = authFile' \/ outdated' # {}
           \/ UNCHANGED <<cache, authFile>> /\ ~Reloading(t)
    PROVE  CacheCoherent'
<1>1. \A p \in Procs : p = ProcOf[t]
  BY AuthAssumption DEF SoleProcess
<1>2. \A u \in Tasks \ {t} : Reloading(u)' <=> Reloading(u)
  BY DEF Reloading, Others
<1>3. \A u \in Tasks : ProcOf[u] = ProcOf[t]
  BY <1>1, AuthAssumption
<1> QED
  BY <1>1, <1>2, <1>3 DEF CacheCoherent

\* A write of auth.json is followed by its reload.
LEMMA CoherentWrite ==
    ASSUME SoleProcess, IndInv, CacheCoherent, NEW t \in Tasks, Writes(t)
    PROVE  CacheCoherent'
<1>1. Others(t) /\ pc'[t] \in {"load", "loginUpsert"}
  BY Moved DEF Writes, PersistSave, Activate, LogoutDelete, LoginWithApiKey, LoginCallback, Others
<1>2. UNCHANGED outdated
  BY DEF Writes, PersistSave, Activate, LogoutDelete, LoginWithApiKey, LoginCallback, memory
<1> QED
  BY <1>1, <1>2, CoherentStep DEF Reloading

\* The steps on the way to the reload.
LEMMA CoherentReload ==
    ASSUME SoleProcess, IndInv, CacheCoherent, NEW t \in Tasks,
           \/ ReloadLoad(t) \/ ReloadSet(t) \/ LoginUpsert(t) \/ LoginUnsaved(t)
           \/ UpsertLoad(t) \/ UpsertSave(t)
    PROVE  CacheCoherent'
<1> USE Here, FreshIsLocal
<1>1. CASE ReloadLoad(t)
  <2>1. Others(t) /\ pc'[t] = "set" /\ UNCHANGED outdated
    BY <1>1, Moved DEF ReloadLoad, Others, memory
  <2> QED
    BY <2>1, CoherentStep DEF Reloading
<1>2. CASE ReloadSet(t)
  <2>1. Others(t)
    BY <1>2, Moved, Finished DEF ReloadSet, Others
  <2>2. outdated \subseteq outdated' /\ UNCHANGED authFile
    BY <1>2 DEF ReloadSet, disk
  <2>3. CASE loc[t].auth = authFile
    <3>1. cache'[ProcOf[t]] = authFile'
      BY <1>2, <2>2, <2>3 DEF ReloadSet, SetCached, IndInv, TypeOK
    <3> QED
      BY <2>1, <2>2, <3>1, CoherentStep
  <2>4. CASE loc[t].auth # authFile
    <3>1. ProcOf[t] \in outdated'
      BY <1>2, <2>4 DEF ReloadSet
    <3> QED
      BY <2>1, <2>2, <3>1, CoherentStep
  <2> QED
    BY <2>3, <2>4
<1>3. CASE LoginUpsert(t)
  <2> DEFINE new == [Fresh EXCEPT !.op = "added", !.auth = authFile]
  <2>1. Move(t, "upsertLoad", new) /\ UNCHANGED outdated
    BY <1>3 DEF LoginUpsert, memory
  <2>2. Others(t) /\ pc'[t] = "upsertLoad" /\ loc'[t] = new
    BY <2>1, Moved DEF Others
  <2>3. loc'[t].op = "added"
    BY <2>2 DEF Locals
  <2> QED
    BY <2>1, <2>2, <2>3, CoherentStep DEF Reloading
<1>4. CASE LoginUnsaved(t)
  <2>1. Others(t) /\ outdated \subseteq outdated' /\ UNCHANGED <<authFile, cache>>
    BY <1>4, Finished DEF LoginUnsaved, Others, disk
  <2>2. cache'[ProcOf[t]] = authFile' \/ ProcOf[t] \in outdated'
    BY <1>4, <2>1 DEF LoginUnsaved, Cached
  <2> QED
    BY <2>1, <2>2, CoherentStep
<1>5. CASE UpsertLoad(t)
  <2>1. pc[t] = "upsertLoad" /\ UNCHANGED <<authFile, cache, outdated>>
    BY <1>5 DEF UpsertLoad, disk, memory
  <2>2. Others(t)
    BY <1>5, Moved DEF UpsertLoad, Others
  <2>3. CASE loc[t].op = "added"
    <3> DEFINE new == [loc[t] EXCEPT !.rows = Upsert(accounts, loc[t].auth)]
    <3>1. Move(t, "upsertSave", new)
      BY <1>5, <2>3 DEF UpsertLoad
    <3>2. pc'[t] = "upsertSave" /\ loc'[t] = new
      BY <3>1, Moved
    <3>3. loc'[t].op = "added"
      BY <2>3, <3>2 DEF Locals
    <3> QED
      BY <2>1, <2>2, <3>2, <3>3, CoherentStep DEF Reloading
  <2>4. CASE loc[t].op # "added"
    BY <2>1, <2>2, <2>4, CoherentStep DEF Reloading
  <2> QED
    BY <2>3, <2>4
<1>6. CASE UpsertSave(t)
  <2> DEFINE label == IF loc[t].op = "login" THEN "browser" ELSE "load"
  <2>1. pc[t] = "upsertSave" /\ UNCHANGED <<authFile, cache, outdated>> /\ Move(t, label, Fresh)
    BY <1>6 DEF UpsertSave, memory
  <2>2. Others(t) /\ pc'[t] = label
    BY <2>1, Moved DEF Others
  <2> QED
    BY <2>1, <2>2, CoherentStep DEF Reloading
<1> QED
  BY <1>1, <1>2, <1>3, <1>4, <1>5, <1>6

\* All other steps of a task.
LEMMA CoherentElse ==
    ASSUME SoleProcess, IndInv, CacheCoherent, NEW t \in Tasks,
           Begin(t) \/ User(t) \/ Locked(t) \/ Authority(t) \/ Continue(t), ~Writes(t),
           ~ReloadLoad(t), ~ReloadSet(t), ~LoginUpsert(t), ~LoginUnsaved(t), ~UpsertLoad(t),
           ~UpsertSave(t)
    PROVE  CacheCoherent'
<1> DEFINE Still == /\ UNCHANGED <<cache, authFile, outdated>> /\ Others(t)
                    /\ pc[t] \notin {"load", "set", "loginUpsert", "upsertLoad", "upsertSave"}
<1> USE DEF disk, memory, Others
<1>1. CASE Begin(t)
  <2>1. ASSUME \/ RequestRefresh(t) \/ RequestRotate(t)
               \/ \E id \in KnownIds : RequestSwitch(t, id)
        PROVE  Still
    BY <2>1, Moved DEF RequestRefresh, RequestRotate, RequestSwitch, Request, Start
  <2>2. ASSUME \/ RecoverBegin(t) \/ LoginStart(t) \/ LogoutBegin(t) \/ Reload(t)
               \/ \E id \in KnownIds : RemoveBegin(t, id)
        PROVE  Still
    BY <2>2, Moved DEF RecoverBegin, LoginStart, LogoutBegin, Reload, RemoveBegin, Start
  <2>3. Still
    BY <1>1, <2>1, <2>2 DEF Begin, Writes
  <2> QED
    BY <2>3, CoherentStep DEF Reloading
<1>2. CASE User(t)
  <2>1. Still
    BY <1>2, Moved, Finished DEF User, LoginCancelled, RecoverSatisfied, RecoverRefresh,
       RecoverNext, Writes
  <2> QED
    BY <2>1, CoherentStep DEF Reloading
<1>3. CASE Locked(t)
  <2>1. Others(t) /\ pc[t] = "wait"
    BY <1>3, Acquired DEF Locked, LockedRefresh, LockedRecover, LockedSelect
  <2>2. UNCHANGED <<cache, authFile, outdated>>
    BY <1>3 DEF Locked, LockedRefresh, LockedRecover, LockedSelect, Acquire
  <2> QED
    BY <2>1, <2>2, CoherentStep DEF Reloading
<1>4. CASE Authority(t)
  <2>1. Still
    BY <1>4, Moved, Finished DEF Authority, AuthorityRotates, AuthorityRejects, AuthorityFails
  <2> QED
    BY <2>1, CoherentStep DEF Reloading
<1>5. CASE Continue(t)
  <2>1. ASSUME GuardLoad(t) \/ GuardCompare(t) \/ Attempt(t) \/ LookUpFailure(t) \/ PersistLoad(t)
               \/ RecoverReload(t) \/ LogoutRevoked(t)
        PROVE  Still
    BY <2>1, Moved, Finished DEF GuardLoad, GuardCompare, Attempt, LookUpFailure, PersistLoad,
       RecoverReload, RecoverNext, LogoutRevoked
  <2>2. ASSUME MirrorRead(t) \/ MirrorLoad(t) \/ MirrorSave(t) PROVE Still
    BY <2>2, Moved, Finished DEF MirrorRead, MirrorLoad, MirrorSave, AfterMirror
  <2>3. ASSUME \/ SwitchSelect(t) \/ RotateLoad(t)
               \/ \E exhausted \in SUBSET KnownIds : RotatePick(t, exhausted)
        PROVE  Still
    BY <2>3, Moved, Finished DEF SwitchSelect, RotateLoad, RotatePick
  <2>4. ASSUME RemoveLoad(t) \/ RemoveSave(t) \/ RemoveNext(t) PROVE Still
    BY <2>4, Moved, Finished DEF RemoveLoad, RemoveSave, RemoveNext
  <2>5. Still
    BY <1>5, <2>1, <2>2, <2>3, <2>4 DEF Continue, Writes
  <2> QED
    BY <2>5, CoherentStep DEF Reloading
<1> QED
  BY <1>1, <1>2, <1>3, <1>4, <1>5

\* The only process starts again, from auth.json.
LEMMA CoherentCrash ==
    ASSUME SoleProcess, IndInv, NEW p \in Procs, Crash(p)
    PROVE  CacheCoherent'
<1>1. \A q \in Procs : q = p
  BY DEF SoleProcess
<1>2. \A q \in Procs : cache'[q] = authFile'
  BY <1>1 DEF Crash, IndInv, TypeOK
<1> QED
  BY <1>2 DEF CacheCoherent

\* With one process on its CODEX_HOME, the cache is auth.json except while the task that
\* wrote auth.json is on its way to the reload, whatever the operations of any number of
\* tasks, until a reload is overtaken by a later write or a login cannot save its account.
THEOREM CacheIsCoherent == SoleProcess => (Spec => []CacheCoherent)
<1> SUFFICES ASSUME SoleProcess PROVE Spec => []CacheCoherent
  OBVIOUS
<1>1. Init => CacheCoherent
  BY DEF Init, CacheCoherent
<1>2. ASSUME IndInv, CacheCoherent, [Next]_vars PROVE CacheCoherent'
  <2>1. ASSUME NEW t \in Tasks, Begin(t) \/ User(t) \/ Locked(t) \/ Authority(t) \/ Continue(t)
        PROVE  CacheCoherent'
    BY <1>2, <2>1, CoherentWrite, CoherentReload, CoherentElse
  <2>2. CASE UNCHANGED vars
    BY <1>2, <2>2 DEF vars, CacheCoherent, Reloading
  <2> QED
    BY <1>2, <2>1, <2>2, CoherentCrash DEF Next
<1> QED
  BY <1>1, <1>2, Inductive, PTL DEF Spec

(***************************************************************************)
(* One process that runs only the operations that respect refresh_lock:    *)
(* the tokens, as long as no reload was overtaken.                         *)
(***************************************************************************)

\* LockedInv without its premise.
CacheNow ==
    \A p \in Procs : \/ cache[p] = authFile
                     \/ \E t \in Tasks : Holds(t) /\ pc[t] \in {"load", "set"}
FailuresNow == \A p \in Procs : failure[p] # NoAuth => failure[p].acct \in strayed
RowsNow == accounts # Corrupt => \A i \in DOMAIN accounts : RowInv(accounts[i])
Now == CacheNow /\ FailuresNow /\ ActiveInv /\ RowsNow /\ \A t \in Tasks : HolderCurrent(t)

LEMMA LockedIsNow == LockedInv <=> (outdated = {} => Now)
BY DEF LockedInv, NoSpuriousFailure, CacheNow, FailuresNow, RowsNow, Now

Outside == {"idle", "wait", "recover", "guard", "set", "retry"}
Persisting == {"persist", "persistSave"}

\* While a task holds the lock the others are outside, and stay there.
LEMMA Alone ==
    ASSUME SoleProcess, IndInv, Now, NEW t \in Tasks, Holds(t)
    PROVE  \A u \in Tasks \ {t} : ~Holds(u) /\ pc[u] \in Outside
<1>1. \A u \in Tasks \ {t} : ~Holds(u)
  BY AuthAssumption DEF SoleProcess, IndInv, HoldersHoldLock
<1> QED
  BY <1>1 DEF Now, HolderCurrent, Outside

LEMMA Bystanders ==
    ASSUME SoleProcess, IndInv, Now, NEW t \in Tasks, Holds(t), Others(t)
    PROVE  \A u \in Tasks \ {t} : /\ ~Holds(u)' /\ HolderCurrent(u)'
                                  /\ pc'[u] = pc[u] /\ pc[u] \in Outside
<1> SUFFICES ASSUME NEW u \in Tasks \ {t}
             PROVE  /\ ~Holds(u)' /\ HolderCurrent(u)'
                    /\ pc'[u] = pc[u] /\ pc[u] \in Outside
  OBVIOUS
<1>1. ~Holds(u) /\ pc'[u] = pc[u] /\ loc'[u] = loc[u] /\ pc[u] \in Outside
  BY Alone DEF Others
<1>2. ~Holds(u)'
  BY <1>1 DEF Holds
<1>3. HolderCurrent(u)'
  BY <1>1, <1>2 DEF Now, HolderCurrent
<1> QED
  BY <1>1, <1>2, <1>3

\* A task in the section, other than one that reloads, finds auth.json in the cache.
LEMMA CacheHeld ==
    ASSUME SoleProcess, IndInv, Now, NEW t \in Tasks, Holds(t), pc[t] \notin {"load", "set"}
    PROVE  Cached(t) = authFile /\ \A p \in Procs : cache[p] = authFile
BY Alone, AuthAssumption DEF Now, CacheNow, Cached

\* The cache is left as it is.
LEMMA CacheStays ==
    ASSUME Now, NEW t \in Tasks, Others(t), UNCHANGED <<cache, authFile>>,
           Holds(t) /\ pc[t] \in {"load", "set"} => Holds(t)' /\ pc'[t] \in {"load", "set"}
    PROVE  CacheNow'
<1>1. \A u \in Tasks \ {t} : (Holds(u)' <=> Holds(u)) /\ pc'[u] = pc[u]
  BY DEF Others, Holds
<1> QED
  BY <1>1 DEF Now, CacheNow

\* A step that changes neither the files nor the tokens.
LEMMA LockedQuiet ==
    ASSUME Now, NEW t \in Tasks, Others(t), CacheNow', HolderCurrent(t)',
           UNCHANGED <<authFile, accounts, live, issued, strayed>>,
           \A p \in Procs : failure'[p] \in {NoAuth, failure[p]},
           pc[t] \in Persisting => pc'[t] \in Persisting
    PROVE  Now'
<1>1. Mirrored' <=> Mirrored
  BY DEF Mirrored
<1>2. ASSUME NEW u \in Tasks \ {t} PROVE HolderCurrent(u)'
  <2>1. HolderCurrent(u) /\ pc'[u] = pc[u] /\ loc'[u] = loc[u] /\ (Holds(u)' <=> Holds(u))
    BY DEF Now, Others, Holds
  <2> QED
    BY <1>1, <2>1 DEF HolderCurrent
<1>3. ActiveInv'
  BY DEF Now, ActiveInv, Others, Persisting
<1>4. FailuresNow'
  BY DEF Now, FailuresNow
<1>5. RowsNow'
  BY DEF Now, RowsNow, RowInv
<1> QED
  BY <1>2, <1>3, <1>4, <1>5 DEF Now

\* ... nor the memory.
LEMMA LockedStill ==
    ASSUME Now, NEW t \in Tasks, Others(t), HolderCurrent(t)',
           UNCHANGED <<disk, memory, authority>>,
           Holds(t) /\ pc[t] \in {"load", "set"} => Holds(t)' /\ pc'[t] \in {"load", "set"},
           pc[t] \in Persisting => pc'[t] \in Persisting
    PROVE  Now'
<1>1. CacheNow'
  BY CacheStays DEF disk, memory
<1> QED
  BY <1>1, LockedQuiet DEF disk, memory, authority

\* The operation returns.
LEMMA IdleCurrent ==
    ASSUME IndInv, NEW t \in Tasks, Finish(t)
    PROVE  HolderCurrent(t)' /\ Others(t) /\ pc'[t] = "idle" /\ ~Holds(t)'
BY Finished DEF HolderCurrent, Holds, Others

LEMMA LockedReturns ==
    ASSUME IndInv, Now, NEW t \in Tasks, Finish(t), UNCHANGED <<disk, memory, authority>>,
           pc[t] \notin Persisting, ~(Holds(t) /\ pc[t] \in {"load", "set"})
    PROVE  Now'
BY IdleCurrent, LockedStill

\* Operations that begin: with LockedOnly, those that ask for the lock, and reloads.
LEMMA LockedBegin ==
    ASSUME LockedOnly, IndInv, Now, NEW t \in Tasks, Begin(t)
    PROVE  Now'
<1> USE Here, FreshIsLocal
<1>1. /\ ~LoginStart(t) /\ ~LogoutBegin(t) /\ ~LoginWithApiKey(t)
      /\ \A id \in KnownIds : ~RemoveBegin(t, id)
  BY DEF LockedOnly, Start, RemoveBegin, LoginStart, LogoutBegin, LoginWithApiKey
<1>2. ASSUME NEW op, NEW id, Request(t, op, id) PROVE Now'
  <2> DEFINE new == [Fresh EXCEPT !.op = op, !.id = id]
  <2>1. /\ pc[t] = "idle" /\ pc'[t] = "wait" /\ loc'[t] = new /\ Others(t)
        /\ UNCHANGED <<disk, memory, authority>>
    BY <1>2, Moved DEF Request, Start, Others
  <2>2. loc'[t].next = "idle"
    BY <2>1 DEF Fresh
  <2>3. HolderCurrent(t)'
    BY <2>1, <2>2 DEF HolderCurrent, Holds
  <2> QED
    BY <2>1, <2>3, LockedStill DEF Persisting
<1>3. CASE RecoverBegin(t)
  <2> DEFINE new == [Fresh EXCEPT !.op = "recover", !.auth = Cached(t)]
  <2>1. /\ pc[t] = "idle" /\ pc'[t] = "recover" /\ loc'[t] = new /\ Others(t)
        /\ UNCHANGED <<disk, memory, authority>>
    BY <1>3, Moved DEF RecoverBegin, Start, Others
  <2>2. loc'[t].op \notin LockOps
    BY <2>1 DEF Fresh, LockOps
  <2>3. HolderCurrent(t)'
    BY <2>1, <2>2 DEF HolderCurrent, Holds
  <2> QED
    BY <2>1, <2>3, LockedStill DEF Persisting
<1>4. CASE Reload(t)
  <2> DEFINE new == [Fresh EXCEPT !.auth = authFile]
  <2>1. /\ pc[t] = "idle" /\ pc'[t] = "set" /\ loc'[t] = new /\ Others(t)
        /\ UNCHANGED <<disk, memory, authority>>
    BY <1>4, Moved DEF Reload, Start, Others
  <2>2. loc'[t].op \notin LockOps /\ loc'[t].next = "idle"
    BY <2>1 DEF Fresh, LockOps
  <2>3. HolderCurrent(t)'
    BY <2>1, <2>2 DEF HolderCurrent, Holds
  <2> QED
    BY <2>1, <2>3, LockedStill DEF Persisting
<1> QED
  BY <1>1, <1>2, <1>3, <1>4 DEF Begin, RequestRefresh, RequestRotate, RequestSwitch

\* The lock is taken.
LEMMA LockedTakes ==
    ASSUME IndInv, Now, NEW t \in Tasks, Locked(t)
    PROVE  Now'
<1> USE Here
<1>1. /\ pc[t] = "wait" /\ Others(t) /\ loc[t].op \in LockOps
      /\ UNCHANGED <<disk, memory, authority>>
  BY Acquired DEF Locked, LockedRefresh, LockedRecover, LockedSelect, Others, LockOps, Acquire
<1>2. loc[t].next = "idle"
  BY <1>1 DEF Now, HolderCurrent, Holds
<1>3. /\ loc'[t].next = "idle"
      /\ pc'[t] \in {"attempt", "mirror"} \/ (pc'[t] = "guard" /\ loc'[t].op = "refresh")
      /\ loc'[t].op \in LockOps
  <2>1. CASE LockedRefresh(t)
    BY <1>2, <2>1, Acquired DEF LockedRefresh, Locals, LockOps
  <2>2. CASE LockedRecover(t) \/ LockedSelect(t)
    BY <1>1, <1>2, <2>2, Acquired DEF LockedRecover, LockedSelect
  <2> QED
    BY <2>1, <2>2 DEF Locked
<1>4. HolderCurrent(t)'
  BY <1>3 DEF HolderCurrent, Holds, HolderPCs
<1> QED
  BY <1>1, <1>4, LockedStill DEF Holds, Persisting

\* UnauthorizedRecovery outside the lock.
LEMMA LockedRecovers ==
    ASSUME IndInv, Now, NEW t \in Tasks,
           RecoverReload(t) \/ RecoverRefresh(t) \/ RecoverSatisfied(t)
    PROVE  Now'
<1> USE Here, FreshIsLocal
<1>1. /\ pc[t] \in {"recover", "retry"} /\ pc[t] \notin Persisting
      /\ UNCHANGED <<disk, memory, authority>>
  BY DEF RecoverReload, RecoverRefresh, RecoverSatisfied, RecoverNext, Persisting
<1>2. ~Holds(t) /\ loc[t].op \notin LockOps
  BY <1>1 DEF Now, HolderCurrent, HolderPCs, Holds
<1>3. CASE Finish(t)
  BY <1>1, <1>3, LockedReturns
<1>4. CASE ~Finish(t) /\ RecoverReload(t)
  <2>1. pc'[t] = "guard" /\ loc'[t] = loc[t] /\ Others(t)
    BY <1>4, Moved DEF RecoverReload, RecoverNext, Others
  <2>2. HolderCurrent(t)'
    BY <1>2, <2>1 DEF HolderCurrent, Holds
  <2> QED
    BY <1>1, <2>1, <2>2, LockedStill
<1>5. CASE ~Finish(t) /\ RecoverRefresh(t)
  <2>1. pc'[t] = "wait" /\ loc'[t] = [Fresh EXCEPT !.op = "authority"] /\ Others(t)
    BY <1>5, Moved DEF RecoverRefresh, RecoverNext, Others
  <2>2. loc'[t].next = "idle"
    BY <2>1 DEF Fresh
  <2>3. HolderCurrent(t)'
    BY <2>1, <2>2 DEF HolderCurrent, Holds
  <2> QED
    BY <1>1, <2>1, <2>3, LockedStill
<1> QED
  BY <1>3, <1>4, <1>5 DEF RecoverSatisfied

\* The reloads: the holder of the lock publishes what auth.json holds, and so does any other
\* task whose reload was not overtaken.
LEMMA LockedReloads ==
    ASSUME SoleProcess, IndInv, Now, NEW t \in Tasks, outdated' = {},
           ReloadLoad(t) \/ ReloadSet(t) \/ GuardLoad(t) \/ GuardCompare(t)
    PROVE  Now'
<1> USE Here
<1>1. CASE ReloadLoad(t)
  <2> DEFINE new == [loc[t] EXCEPT !.auth = authFile]
  <2>1. /\ pc[t] = "load" /\ pc'[t] = "set" /\ loc'[t] = new /\ Others(t)
        /\ UNCHANGED <<disk, memory, authority>>
    BY <1>1, Moved DEF ReloadLoad, Others
  <2>2. Holds(t) /\ loc[t].next # "retry" /\ loc[t].op \in LockOps
    BY <2>1 DEF Now, HolderCurrent, Holds
  <2>3. loc'[t].auth = authFile /\ loc'[t].op = loc[t].op /\ loc'[t].next = loc[t].next
    BY <2>1 DEF Locals
  <2>4. HolderCurrent(t)' /\ Holds(t)'
    BY <2>1, <2>2, <2>3 DEF HolderCurrent, Holds, HolderPCs, disk
  <2> QED
    BY <2>1, <2>4, LockedStill DEF Persisting
<1>2. CASE ReloadSet(t)
  <2>1. pc[t] = "set" /\ UNCHANGED <<disk, authority>>
    BY <1>2 DEF ReloadSet
  <2>2. loc[t].auth = authFile
    BY <1>2 DEF ReloadSet
  <2>3. /\ \A p \in Procs : cache'[p] = authFile
        /\ \A p \in Procs : failure'[p] \in {NoAuth, failure[p]}
    <3>1. \A p \in Procs : p = ProcOf[t]
      BY DEF SoleProcess
    <3> QED
      BY <1>2, <2>2, <3>1 DEF ReloadSet, SetCached, IndInv, TypeOK
  <2>4. CacheNow'
    BY <2>1, <2>3 DEF CacheNow, disk
  <2>5. HolderCurrent(t)' /\ Others(t)
    <3>1. CASE Finish(t)
      BY <3>1, IdleCurrent
    <3>2. CASE ~Finish(t)
      <4> DEFINE new == [loc[t] EXCEPT !.auth = NoAuth, !.next = "idle"]
      <4>1. loc[t].next # "idle" /\ pc'[t] = loc[t].next /\ loc'[t] = new /\ Others(t)
        BY <1>2, <3>2, Moved DEF ReloadSet, Others
      <4>2. loc'[t].next = "idle" /\ loc'[t].op = loc[t].op
        BY <4>1 DEF Locals
      <4>3. loc[t].next \in {"mirror", "attempt", "retry"}
        BY <4>1 DEF Locals
      <4>4. CASE Holds(t)
        <5>1. loc[t].next # "retry"
          BY <2>1, <4>4 DEF Now, HolderCurrent
        <5> QED
          BY <4>1, <4>2, <4>3, <4>4, <5>1 DEF HolderCurrent, Holds, HolderPCs
      <4>5. CASE ~Holds(t)
        <5>1. loc[t].next = "retry" /\ loc[t].op \notin LockOps
          BY <2>1, <4>1, <4>5 DEF Now, HolderCurrent, Holds
        <5> QED
          BY <4>1, <4>2, <5>1 DEF HolderCurrent, Holds
      <4> QED
        BY <4>1, <4>4, <4>5
    <3> QED
      BY <3>1, <3>2
  <2> QED
    BY <2>1, <2>3, <2>4, <2>5, LockedQuiet DEF disk, authority, Persisting
<1>3. CASE GuardLoad(t)
  <2>1. pc[t] = "guard" /\ UNCHANGED <<disk, memory, authority>>
    BY <1>3 DEF GuardLoad
  <2>2. CASE Finish(t)
    BY <2>1, <2>2, LockedReturns DEF Persisting
  <2>3. CASE ~Finish(t)
    <3> DEFINE new == [loc[t] EXCEPT !.auth = authFile, !.next = "retry"]
               label == IF loc[t].op = "refresh" THEN "compare" ELSE "set"
    <3>1. pc'[t] = label /\ loc'[t] = new /\ Others(t)
      BY <1>3, <2>3, Moved DEF GuardLoad, Others
    <3>2. loc'[t].auth = authFile /\ loc'[t].next = "retry" /\ loc'[t].op = loc[t].op
      BY <3>1 DEF Locals
    <3>3. HolderCurrent(t)'
      <4>1. CASE loc[t].op = "refresh"
        BY <2>1, <3>1, <3>2, <4>1 DEF HolderCurrent, Holds, HolderPCs, LockOps, disk
      <4>2. CASE loc[t].op # "refresh"
        <5>1. loc[t].op \notin LockOps
          BY <2>1, <4>2 DEF Now, HolderCurrent, Holds
        <5> QED
          BY <2>1, <3>1, <3>2, <4>2, <5>1 DEF HolderCurrent, Holds
      <4> QED
        BY <4>1, <4>2
    <3> QED
      BY <2>1, <3>1, <3>3, LockedStill DEF Persisting
  <2> QED
    BY <2>2, <2>3
<1>4. CASE GuardCompare(t)
  <2> DEFINE new == [loc[t] EXCEPT !.next = IF Cached(t) = loc[t].auth THEN "attempt" ELSE "idle"]
  <2>1. /\ pc[t] = "compare" /\ pc'[t] = "set" /\ loc'[t] = new /\ Others(t)
        /\ UNCHANGED <<disk, memory, authority>>
    BY <1>4, Moved DEF GuardCompare, Others
  <2>2. Holds(t) /\ loc[t].auth = authFile
    BY <2>1 DEF Now, HolderCurrent
  <2>3. loc'[t].auth = authFile /\ loc'[t].next \in {"attempt", "idle"} /\ loc'[t].op = loc[t].op
    BY <2>1, <2>2 DEF Locals
  <2>4. HolderCurrent(t)'
    BY <2>1, <2>2, <2>3 DEF HolderCurrent, Holds, HolderPCs, disk
  <2> QED
    BY <2>1, <2>4, LockedStill DEF Persisting
<1> QED
  BY <1>1, <1>2, <1>3, <1>4

\* Up to the request.
LEMMA LockedAttempts ==
    ASSUME SoleProcess, IndInv, Now, NEW t \in Tasks, Attempt(t) \/ LookUpFailure(t)
    PROVE  Now'
<1> USE Here
<1>1. /\ pc[t] \in {"attempt", "memo"} /\ pc[t] \notin Persisting
      /\ UNCHANGED <<disk, memory, authority>>
  BY DEF Attempt, LookUpFailure, Persisting
<1>2. Holds(t) /\ loc[t].next # "retry" /\ (pc[t] = "memo" => loc[t].auth = authFile)
  BY <1>1 DEF Now, HolderCurrent
<1>3. CASE Finish(t)
  BY <1>1, <1>3, LockedReturns
<1>4. CASE ~Finish(t)
  <2>1. /\ pc'[t] \in {"memo", "request"} /\ Others(t)
        /\ loc'[t].auth = authFile /\ loc'[t].op = loc[t].op /\ loc'[t].next = loc[t].next
    <3>1. CASE Attempt(t)
      BY <1>1, <1>2, <1>4, <3>1, Moved, CacheHeld DEF Attempt, Others, Locals
    <3>2. CASE LookUpFailure(t)
      BY <1>2, <1>4, <3>2, Moved DEF LookUpFailure, Others
    <3> QED
      BY <3>1, <3>2
  <2>2. HolderCurrent(t)'
    BY <1>1, <1>2, <2>1 DEF HolderCurrent, Holds, HolderPCs, disk
  <2> QED
    BY <1>1, <2>1, <2>2, LockedStill
<1> QED
  BY <1>3, <1>4

\* The rows after a mirror of the credential: the row of its account has it, the others
\* are as they were.
LEMMA Updated ==
    ASSUME NEW rows \in Seq(Rows), WellKeyed(rows), NEW auth \in ChatgptAuths,
           RegistryIdFor(auth.acct) \in Ids(rows)
    PROVE  LET new == UpdateIfExists(rows, auth) IN
           /\ DOMAIN new = DOMAIN rows
           /\ \A i \in DOMAIN rows :
                 /\ new[i].id = rows[i].id
                 /\ new[i] = IF rows[i].id = RegistryIdFor(auth.acct) THEN RowFor(auth) ELSE rows[i]
<1> DEFINE k == IndexOf(rows, RegistryIdFor(auth.acct))
           new == UpdateIfExists(rows, auth)
<1>1. k \in DOMAIN rows /\ rows[k].id = RegistryIdFor(auth.acct)
  BY IndexOfFinds
<1>2. new = [rows EXCEPT ![k] = RowFor(auth)]
  BY DEF UpdateIfExists
<1>3. \A i \in DOMAIN rows : rows[i].id = RegistryIdFor(auth.acct) => i = k
  BY <1>1 DEF WellKeyed, UniqueIds
<1>4. RowFor(auth).id = RegistryIdFor(auth.acct)
  BY RowForIsRow
<1> QED
  BY <1>1, <1>2, <1>3, <1>4

\* Registry ids tell accounts apart.
LEMMA IdsInjective == \A a, b \in Accounts : RegistryIdFor(a) = RegistryIdFor(b) <=> a = b
BY DEF RegistryIdFor

\* A row of a readable file, and its id.
LEMMA RowTypes ==
    ASSUME IndInv, accounts # Corrupt, NEW i \in DOMAIN accounts
    PROVE  /\ accounts[i].auth \in ChatgptAuths /\ accounts[i].auth \in Auths
           /\ accounts[i].auth.acct \in Accounts /\ accounts[i].auth.tok.n \in Nat
           /\ accounts[i].id = RegistryIdFor(accounts[i].auth.acct)
<1>1. accounts \in Seq(Rows) /\ WellKeyed(accounts)
  BY DEF IndInv, TypeOK, RegistryWellKeyed
<1>2. accounts[i] \in Rows
  BY <1>1, ElementOfSeq, LenProperties
<1> QED
  BY <1>1, <1>2 DEF Rows, ChatgptAuths, Auths, Tokens, WellKeyed, FiledUnderOwnId

\* The record in auth.json, when it is a ChatGPT record.
LEMMA ActiveTypes ==
    ASSUME IndInv, IsChatgpt(authFile)
    PROVE  /\ authFile \in ChatgptAuths /\ authFile.acct \in Accounts
           /\ authFile.tok \in Tokens /\ authFile.tok.n \in Nat /\ authFile.tok.owner \in Accounts
           /\ RegistryIdOf(authFile) = RegistryIdFor(authFile.acct)
<1>1. authFile \in ChatgptAuths
  BY ChatgptIsChatgpt DEF IndInv, TypeOK
<1> QED
  BY <1>1 DEF ChatgptAuths, Tokens, RegistryIdOf

\* A step that changes neither the files nor the tokens, and fills caches from auth.json.

\* The task that waits for the authority sent the token of auth.json, and nobody saves one.
LEMMA InRequest ==
    ASSUME SoleProcess, IndInv, Now, NEW t \in Tasks, pc[t] = "request"
    PROVE  /\ Holds(t) /\ loc[t].auth = authFile /\ IsChatgpt(authFile) /\ loc[t].next # "retry"
           /\ authFile.tok \in live \/ authFile.acct \in strayed
<1>1. Holds(t) /\ loc[t].auth = authFile /\ loc[t].next # "retry"
  BY DEF Now, HolderCurrent
<1>2. IsChatgpt(authFile)
  BY <1>1, ChatgptIsChatgpt DEF IndInv, TypeOK, CarriesTokens
<1>3. ~\E u \in Tasks : pc[u] \in {"persist", "persistSave"}
  BY <1>1, Alone DEF Outside
<1> QED
  BY <1>1, <1>2, <1>3 DEF Now, ActiveInv

\* A rotation of the token of auth.json by the authority: the rows of other accounts hold
\* tokens of their own.
LEMMA RotationKeepsRows ==
    ASSUME IndInv, Now, IsChatgpt(authFile), Rotate(authFile.tok),
           UNCHANGED <<authFile, accounts>>, strayed \subseteq strayed'
    PROVE  RowsNow'
<1> SUFFICES ASSUME accounts # Corrupt, NEW i \in DOMAIN accounts PROVE RowInv(accounts[i])'
  BY DEF RowsNow
<1>1. RowInv(accounts[i]) /\ authFile.tok.owner = authFile.acct
  BY DEF Now, RowsNow, ActiveInv
<1>2. live \ {authFile.tok} \subseteq live' /\ issued' = issued + 1 /\ issued \in Nat
  BY DEF Rotate, IndInv, TypeOK
<1>3. accounts[i].auth.tok.n \in Nat
  BY RowTypes
<1> QED
  BY <1>1, <1>2, <1>3 DEF RowInv

\* The answers of the authority.
LEMMA LockedAuthority ==
    ASSUME SoleProcess, IndInv, Now, NEW t \in Tasks, Authority(t)
    PROVE  Now'
<1> USE Here
<1>1. pc[t] = "request" /\ UNCHANGED <<authFile, accounts, cache>>
  BY DEF Authority, AuthorityRotates, AuthorityRejects, AuthorityFails, disk, memory
<1>2. /\ Holds(t) /\ loc[t].auth = authFile /\ IsChatgpt(authFile) /\ loc[t].next # "retry"
      /\ authFile.tok \in live \/ authFile.acct \in strayed
  BY <1>1, InRequest
<1>3. /\ authFile.tok.owner = authFile.acct /\ authFile.tok.n <= issued
      /\ authFile.tok.n \in Nat /\ issued \in Nat
      /\ accounts # Corrupt => RegistryIdOf(authFile) \in Ids(accounts)
  BY <1>2, ActiveTypes DEF Now, ActiveInv, IndInv, TypeOK
<1>4. CacheNow'
  BY <1>1, <1>2, CacheHeld DEF CacheNow
<1>5. CASE AuthorityRotates(t)
  <2> DEFINE new == [loc[t] EXCEPT !.resp = NewToken(authFile.tok.owner)]
  <2>1. Rotate(authFile.tok) /\ Move(t, "persist", new) /\ UNCHANGED <<failure, strayed>>
    BY <1>2, <1>5 DEF AuthorityRotates, memory
  <2>2. /\ NewToken(authFile.tok.owner) \in live' /\ issued' = issued + 1
        /\ NewToken(authFile.tok.owner).owner = authFile.acct
        /\ NewToken(authFile.tok.owner).n = issued + 1
    BY <1>3, <2>1 DEF Rotate, NewToken
  <2>3. pc'[t] = "persist" /\ loc'[t] = new /\ Others(t)
    BY <2>1, Moved DEF Others
  <2>4. /\ loc'[t].resp = NewToken(authFile.tok.owner) /\ loc'[t].auth = authFile
        /\ loc'[t].next = loc[t].next /\ loc'[t].op = loc[t].op
    BY <1>2, <2>3 DEF Locals
  <2>5. HolderCurrent(t)'
    BY <1>1, <1>2, <1>3, <2>2, <2>3, <2>4 DEF HolderCurrent, Holds, HolderPCs
  <2>6. \A u \in Tasks \ {t} : HolderCurrent(u)'
    BY <1>2, <2>3, Bystanders
  <2>7. ActiveInv'
    BY <1>1, <1>3, <2>2, <2>3 DEF ActiveInv
  <2>8. FailuresNow'
    BY <2>1 DEF Now, FailuresNow
  <2>9. RowsNow'
    BY <1>1, <1>2, <2>1, RotationKeepsRows
  <2> QED
    BY <1>4, <2>5, <2>6, <2>7, <2>8, <2>9 DEF Now
<1>6. CASE AuthorityRejects(t)
  <2>1. /\ authFile.tok \notin live /\ Finish(t) /\ UNCHANGED <<live, issued, strayed>>
        /\ failure' \in {failure, [failure EXCEPT ![ProcOf[t]] = authFile]}
    BY <1>2, <1>6 DEF AuthorityRejects, authority
  <2>2. authFile.acct \in strayed
    BY <1>2, <2>1
  <2>3. FailuresNow'
    BY <2>1, <2>2 DEF Now, FailuresNow, IndInv, TypeOK
  <2>4. \A u \in Tasks : HolderCurrent(u)'
    BY <1>2, <2>1, IdleCurrent, Bystanders
  <2>5. ActiveInv'
    BY <1>1, <1>3, <2>1, <2>2 DEF ActiveInv
  <2>6. RowsNow'
    BY <1>1, <2>1 DEF Now, RowsNow, RowInv
  <2> QED
    BY <1>4, <2>3, <2>4, <2>5, <2>6 DEF Now
<1>7. CASE AuthorityFails(t) /\ UNCHANGED authority
  BY <1>1, <1>7, LockedReturns DEF AuthorityFails, Persisting
<1>8. CASE AuthorityFails(t) /\ ~UNCHANGED authority
  <2>1. /\ Rotate(authFile.tok) /\ strayed' = strayed \cup {authFile.acct}
        /\ Finish(t) /\ UNCHANGED failure
    BY <1>2, <1>3, <1>8 DEF AuthorityFails, memory
  <2>2. FailuresNow'
    BY <2>1 DEF Now, FailuresNow
  <2>3. \A u \in Tasks : HolderCurrent(u)'
    BY <1>2, <2>1, IdleCurrent, Bystanders
  <2>4. ActiveInv'
    BY <1>1, <1>3, <2>1 DEF ActiveInv, Rotate
  <2>5. RowsNow'
    BY <1>1, <1>2, <2>1, RotationKeepsRows
  <2> QED
    BY <1>4, <2>2, <2>3, <2>4, <2>5 DEF Now
<1> QED
  BY <1>5, <1>6, <1>7, <1>8 DEF Authority

\* The task that saves an answer is alone in the section, and the answer is for auth.json.
LEMMA InPersist ==
    ASSUME IndInv, Now, NEW t \in Tasks, pc[t] \in Persisting
    PROVE  /\ Holds(t) /\ IsChatgpt(authFile) /\ loc[t].auth = authFile
           /\ loc[t].resp \in live /\ loc[t].resp \in Tokens /\ loc[t].next # "retry"
           /\ loc[t].resp.owner = authFile.acct /\ loc[t].resp.n \in authFile.tok.n..issued
BY Here DEF Now, HolderCurrent, CarriesTokens, Persisting

\* persist_tokens finds the record it was asked to refresh.
LEMMA LockedPersistLoad ==
    ASSUME SoleProcess, IndInv, Now, NEW t \in Tasks, PersistLoad(t)
    PROVE  Now'
<1> USE Here
<1>1. pc[t] = "persist" /\ pc[t] \in Persisting
  BY DEF PersistLoad, Persisting
<1>2. /\ Holds(t) /\ IsChatgpt(authFile) /\ loc[t].auth = authFile
      /\ loc[t].resp \in live /\ loc[t].resp \in Tokens /\ loc[t].next # "retry"
      /\ loc[t].resp.owner = authFile.acct /\ loc[t].resp.n \in authFile.tok.n..issued
  BY <1>1, InPersist
<1>3. authFile # NoAuth
  BY <1>2 DEF IsChatgpt
<1> DEFINE new == [loc[t] EXCEPT !.auth = authFile]
<1>4. Move(t, "persistSave", new) /\ UNCHANGED <<disk, memory, authority>>
  BY <1>3 DEF PersistLoad, authority
<1>5. pc'[t] = "persistSave" /\ loc'[t] = new /\ Others(t)
  BY <1>4, Moved DEF Others
<1>6. /\ loc'[t].auth = authFile /\ loc'[t].resp = loc[t].resp
      /\ loc'[t].op = loc[t].op /\ loc'[t].next = loc[t].next
  BY <1>5 DEF Locals
<1>7. HolderCurrent(t)'
  BY <1>1, <1>2, <1>4, <1>5, <1>6 DEF HolderCurrent, Holds, HolderPCs, disk, authority
<1> QED
  BY <1>1, <1>4, <1>5, <1>7, LockedStill DEF Persisting

\* What persist_tokens makes of auth.json: the same account with the newer token.
LEMMA PersistMerges ==
    ASSUME IndInv, Now, NEW t \in Tasks, PersistSave(t)
    PROVE  /\ IsChatgpt(authFile) /\ authFile' = [acct |-> authFile.acct, tok |-> loc[t].resp]
           /\ UNCHANGED <<accounts, cache, failure, strayed, live, issued>>
<1>1. IsChatgpt(authFile) /\ loc[t].resp.owner = authFile.acct /\ loc[t].auth = authFile
  BY InPersist DEF PersistSave, Persisting
<1>2. authFile' = [acct |-> authFile.acct, tok |-> loc[t].resp]
  BY <1>1 DEF PersistSave, Merge
<1> QED
  BY <1>1, <1>2 DEF PersistSave, memory, authority

\* The new token is live and newer than that of any row of the account.
LEMMA LockedPersistSave ==
    ASSUME SoleProcess, IndInv, Now, NEW t \in Tasks, PersistSave(t)
    PROVE  Now'
<1> USE Here
<1>1. pc[t] = "persistSave" /\ pc[t] \in Persisting
  BY DEF PersistSave, Persisting
<1>2. /\ Holds(t) /\ IsChatgpt(authFile) /\ loc[t].auth = authFile
      /\ loc[t].resp \in live /\ loc[t].resp \in Tokens /\ loc[t].next # "retry"
      /\ loc[t].resp.owner = authFile.acct /\ loc[t].resp.n \in authFile.tok.n..issued
  BY <1>1, InPersist
<1> DEFINE new == [loc[t] EXCEPT !.resp = NoToken, !.next = "mirror"]
<1>3. /\ authFile' = [acct |-> authFile.acct, tok |-> loc[t].resp]
      /\ UNCHANGED <<accounts, cache, failure, strayed, live, issued>>
      /\ Move(t, "load", new)
  BY PersistMerges DEF PersistSave
<1>4. /\ authFile \in ChatgptAuths /\ authFile.acct \in Accounts /\ authFile.tok.n \in Nat
      /\ RegistryIdOf(authFile) = RegistryIdFor(authFile.acct) /\ issued \in Nat
  BY <1>2, ActiveTypes DEF IndInv, TypeOK
<1>5. /\ authFile'.acct = authFile.acct /\ authFile'.tok = loc[t].resp
      /\ authFile' \in ChatgptAuths
  BY <1>2, <1>3, <1>4 DEF ChatgptAuths
<1>6. IsChatgpt(authFile') /\ RegistryIdOf(authFile)' = RegistryIdFor(authFile.acct)
  BY <1>5, ChatgptIsChatgpt DEF Auths, RegistryIdOf
<1>7. pc'[t] = "load" /\ loc'[t] = new /\ Others(t)
  BY <1>3, Moved DEF Others
<1>8. loc'[t].next = "mirror" /\ loc'[t].op = loc[t].op
  BY <1>7 DEF Locals
<1>9. HolderCurrent(t)' /\ Holds(t)'
  BY <1>2, <1>7, <1>8 DEF HolderCurrent, Holds, HolderPCs
<1>10. \A u \in Tasks : HolderCurrent(u)'
  BY <1>2, <1>7, <1>9, Bystanders
<1>11. CacheNow'
  BY <1>7, <1>9 DEF CacheNow
<1>12. FailuresNow'
  BY <1>3 DEF Now, FailuresNow
<1>13. ActiveInv'
  BY <1>2, <1>3, <1>4, <1>5, <1>6 DEF Now, ActiveInv
<1>14. ASSUME accounts' # Corrupt, NEW i \in DOMAIN accounts' PROVE RowInv(accounts[i])'
  <2>1. RowInv(accounts[i]) /\ accounts[i].auth.tok.n \in Nat
    BY <1>3, <1>14, RowTypes DEF Now, RowsNow
  <2> QED
    BY <1>2, <1>3, <1>4, <1>5, <1>6, <2>1 DEF RowInv
<1>15. RowsNow'
  BY <1>14 DEF RowsNow
<1> QED
  BY <1>10, <1>11, <1>12, <1>13, <1>15 DEF Now

\* Without a row of the active account the rows are level with auth.json.
LEMMA NothingToMirror ==
    ASSUME IndInv, accounts = Corrupt \/ RegistryIdOf(authFile) \notin Ids(accounts)
    PROVE  Mirrored
<1> SUFFICES ASSUME accounts # Corrupt, NEW i \in DOMAIN accounts
             PROVE  accounts[i].id # RegistryIdOf(authFile)
  BY DEF Mirrored
<1>1. accounts[i].id \in Ids(accounts)
  BY DEF Ids
<1> QED
  BY <1>1

\* The mirror is over: the operation selects, or returns.
LEMMA AfterMirrorCurrent ==
    ASSUME IndInv, Now, NEW t \in Tasks, Holds(t), AfterMirror(t), loc[t].next # "retry", Mirrored'
    PROVE  HolderCurrent(t)' /\ Others(t) /\ pc'[t] \in {"idle", "select"}
<1>1. CASE Finish(t)
  BY <1>1, IdleCurrent
<1>2. CASE ~Finish(t)
  <2> DEFINE new == [loc[t] EXCEPT !.auth = NoAuth, !.rows = <<>>]
  <2>1. Move(t, "select", new)
    BY <1>2 DEF AfterMirror
  <2>2. pc'[t] = "select" /\ loc'[t] = new /\ Others(t)
    BY <2>1, Moved DEF Others
  <2>3. loc'[t].op = loc[t].op /\ loc'[t].next = loc[t].next
    BY <2>2, Here DEF Locals
  <2> QED
    BY <2>2, <2>3 DEF HolderCurrent, Holds, HolderPCs
<1> QED
  BY <1>1, <1>2

\* The mirror is read and loaded: the copy is made of the current file and credential.
LEMMA LockedMirrorLoads ==
    ASSUME SoleProcess, IndInv, Now, NEW t \in Tasks, MirrorRead(t) \/ MirrorLoad(t)
    PROVE  Now'
<1> USE Here
<1>1. /\ pc[t] \in {"mirror", "mirrorLoad"} /\ UNCHANGED <<disk, memory, authority>>
      /\ pc[t] \notin Persisting
  BY DEF MirrorRead, MirrorLoad, Persisting
<1>2. Holds(t) /\ loc[t].next # "retry" /\ (pc[t] = "mirrorLoad" => loc[t].auth = authFile)
  BY <1>1 DEF Now, HolderCurrent
<1>3. Cached(t) = authFile
  BY <1>1, <1>2, CacheHeld
<1>4. CASE AfterMirror(t) /\ (accounts = Corrupt \/ RegistryIdOf(authFile) \notin Ids(accounts))
  <2>1. Mirrored'
    BY <1>1, <1>4, NothingToMirror DEF Mirrored, disk
  <2> QED
    BY <1>1, <1>2, <1>4, <2>1, AfterMirrorCurrent, LockedStill
<1>5. CASE MirrorRead(t)
  <2>1. CASE IsChatgpt(authFile)
    <3> DEFINE new == [loc[t] EXCEPT !.auth = authFile]
    <3>1. pc'[t] = "mirrorLoad" /\ loc'[t] = new /\ Others(t)
      BY <1>3, <1>5, <2>1, Moved DEF MirrorRead, Others
    <3>2. loc'[t].auth = authFile /\ loc'[t].op = loc[t].op /\ loc'[t].next = loc[t].next
      BY <3>1 DEF Locals
    <3>3. HolderCurrent(t)'
      BY <1>1, <1>2, <3>1, <3>2 DEF HolderCurrent, Holds, HolderPCs, disk
    <3> QED
      BY <1>1, <3>1, <3>3, LockedStill
  <2>2. CASE ~IsChatgpt(authFile)
    <3>1. AfterMirror(t)
      BY <1>3, <1>5, <2>2 DEF MirrorRead
    <3>2. accounts # Corrupt => RegistryIdOf(authFile) \notin Ids(accounts)
      <4>1. RegistryIdOf(authFile) = NoId
        BY <2>2 DEF RegistryIdOf
      <4>2. ASSUME accounts # Corrupt, NEW i \in DOMAIN accounts PROVE accounts[i].id # NoId
        <5>1. /\ accounts[i].auth.acct \in Accounts
              /\ accounts[i].id = RegistryIdFor(accounts[i].auth.acct)
          BY <4>2, RowTypes
        <5>2. accounts[i].id \in RegistryIds
          BY <5>1 DEF RegistryIds, RegistryIdFor
        <5> QED
          BY <5>2, RegistryAssumption
      <4> QED
        BY <4>1, <4>2 DEF Ids
    <3> QED
      BY <1>4, <3>1, <3>2
  <2> QED
    BY <2>1, <2>2
<1>6. CASE MirrorLoad(t)
  <2>1. loc[t].auth = authFile /\ IsChatgpt(authFile)
    BY <1>2, <1>6, ChatgptIsChatgpt DEF MirrorLoad, CarriesTokens
  <2>2. CASE accounts # Corrupt /\ RegistryIdOf(authFile) \in Ids(accounts)
    <3> DEFINE new == [loc[t] EXCEPT !.rows = UpdateIfExists(accounts, authFile)]
    <3>1. pc'[t] = "mirrorSave" /\ loc'[t] = new /\ Others(t)
      BY <1>6, <2>1, <2>2, Moved DEF MirrorLoad, Others
    <3>2. /\ loc'[t].auth = authFile /\ loc'[t].op = loc[t].op /\ loc'[t].next = loc[t].next
          /\ loc'[t].rows = UpdateIfExists(accounts, authFile)
      BY <2>1, <3>1 DEF Locals
    <3>3. HolderCurrent(t)'
      BY <1>1, <1>2, <2>1, <2>2, <3>1, <3>2 DEF HolderCurrent, Holds, HolderPCs, disk
    <3> QED
      BY <1>1, <3>1, <3>3, LockedStill
  <2>3. CASE ~(accounts # Corrupt /\ RegistryIdOf(authFile) \in Ids(accounts))
    BY <1>4, <1>6, <2>1, <2>3 DEF MirrorLoad
  <2> QED
    BY <2>2, <2>3
<1> QED
  BY <1>5, <1>6

\* What the mirror writes: the active account's row gets the credential of auth.json.
LEMMA MirrorWrites ==
    ASSUME IndInv, Now, NEW t \in Tasks, MirrorSave(t)
    PROVE  /\ IsChatgpt(authFile) /\ accounts # Corrupt /\ accounts' # Corrupt
           /\ DOMAIN accounts' = DOMAIN accounts
           /\ \A i \in DOMAIN accounts :
                 /\ accounts'[i].id = accounts[i].id
                 /\ accounts[i].id = RegistryIdOf(authFile) => accounts'[i].auth = authFile
                 /\ accounts[i].id # RegistryIdOf(authFile) => accounts'[i] = accounts[i]
<1>1. pc[t] = "mirrorSave" /\ accounts' = loc[t].rows
  BY DEF MirrorSave
<1>2. /\ IsChatgpt(authFile) /\ accounts # Corrupt
      /\ accounts' = UpdateIfExists(accounts, authFile)
  BY <1>1 DEF Now, HolderCurrent
<1>3. accounts' # Corrupt
  BY <1>1, AuthAssumption, Here DEF Locals
<1>4. /\ authFile \in ChatgptAuths
      /\ RegistryIdOf(authFile) = RegistryIdFor(authFile.acct)
      /\ RegistryIdOf(authFile) \in Ids(accounts)
  BY <1>2, ActiveTypes DEF Now, ActiveInv
<1>5. accounts \in Seq(Rows) /\ WellKeyed(accounts)
  BY <1>2 DEF IndInv, TypeOK, RegistryWellKeyed
<1>6. RowFor(authFile).auth = authFile
  BY <1>4, RowForIsRow
<1> QED
  BY <1>2, <1>3, <1>4, <1>5, <1>6, Updated

\* The mirror is saved.
LEMMA LockedMirrorSave ==
    ASSUME SoleProcess, IndInv, Now, NEW t \in Tasks, MirrorSave(t)
    PROVE  Now'
<1>1. /\ pc[t] = "mirrorSave" /\ AfterMirror(t)
      /\ UNCHANGED <<authFile, cache, failure, live, issued, strayed>>
  BY DEF MirrorSave, memory, authority
<1>2. /\ IsChatgpt(authFile) /\ accounts # Corrupt /\ accounts' # Corrupt
      /\ DOMAIN accounts' = DOMAIN accounts
      /\ \A i \in DOMAIN accounts :
            /\ accounts'[i].id = accounts[i].id
            /\ accounts[i].id = RegistryIdOf(authFile) => accounts'[i].auth = authFile
            /\ accounts[i].id # RegistryIdOf(authFile) => accounts'[i] = accounts[i]
  BY MirrorWrites
<1>3. Holds(t) /\ loc[t].next # "retry"
  BY <1>1 DEF Now, HolderCurrent
<1>4. Mirrored'
  BY <1>1, <1>2 DEF Mirrored
<1>5. HolderCurrent(t)' /\ Others(t) /\ pc'[t] \in {"idle", "select"}
  BY <1>1, <1>3, <1>4, AfterMirrorCurrent
<1>6. \A u \in Tasks : HolderCurrent(u)'
  BY <1>3, <1>5, Bystanders
<1>7. ActiveInv'
  <2>1. Ids(accounts') = Ids(accounts)
    BY <1>2 DEF Ids
  <2>2. ~\E u \in Tasks : pc[u] \in {"persist", "persistSave"}
    BY <1>1, <1>3, Alone DEF Outside
  <2> QED
    BY <1>1, <1>2, <2>1, <2>2 DEF Now, ActiveInv
<1>8. FailuresNow' /\ CacheNow'
  BY <1>1, <1>3, CacheHeld DEF Now, FailuresNow, CacheNow
<1>9. ASSUME NEW i \in DOMAIN accounts PROVE RowInv(accounts[i])'
  <2>1. RowInv(accounts[i])
    BY <1>2 DEF Now, RowsNow
  <2>2. CASE accounts[i].id = RegistryIdOf(authFile)
    <3>1. accounts'[i].auth = authFile
      BY <1>2, <2>2
    <3>2. authFile.tok.n \in Nat
      BY <1>2, ActiveTypes
    <3> QED
      BY <1>1, <1>2, <3>1, <3>2 DEF RowInv, Now, ActiveInv
  <2>3. CASE accounts[i].id # RegistryIdOf(authFile)
    BY <1>1, <1>2, <2>1, <2>3 DEF RowInv
  <2> QED
    BY <2>2, <2>3
<1>10. RowsNow'
  BY <1>2, <1>9 DEF RowsNow
<1> QED
  BY <1>6, <1>7, <1>8, <1>10 DEF Now

\* A row is selected: the holder takes its credential.
LEMMA LockedSelects ==
    ASSUME SoleProcess, IndInv, Now, NEW t \in Tasks,
           \/ SwitchSelect(t) \/ RotateLoad(t)
           \/ \E exhausted \in SUBSET KnownIds : RotatePick(t, exhausted)
    PROVE  Now'
<1> USE Here
<1>1. /\ pc[t] \in {"select", "pick"} /\ UNCHANGED <<disk, memory, authority>>
      /\ pc[t] \notin Persisting
  BY DEF SwitchSelect, RotateLoad, RotatePick, Persisting
<1>2. /\ Holds(t) /\ loc[t].next # "retry" /\ Mirrored
      /\ pc[t] = "pick" => accounts # Corrupt /\ loc[t].rows = accounts
  BY <1>1 DEF Now, HolderCurrent
<1>3. Mirrored'
  BY <1>1, <1>2 DEF Mirrored, disk
<1>4. ASSUME NEW i \in DOMAIN accounts, NEW l, Move(t, "activate", l), accounts # Corrupt,
             l.auth = accounts[i].auth, l.op = loc[t].op, l.next = loc[t].next
      PROVE  Now'
  <2>1. pc'[t] = "activate" /\ loc'[t] = l /\ Others(t)
    BY <1>4, Moved DEF Others
  <2>2. HolderCurrent(t)'
    BY <1>1, <1>2, <1>3, <1>4, <2>1 DEF HolderCurrent, Holds, HolderPCs, disk
  <2> QED
    BY <1>1, <2>1, <2>2, LockedStill
<1>5. CASE Finish(t)
  BY <1>1, <1>5, LockedReturns
<1>6. CASE ~Finish(t) /\ SwitchSelect(t)
  <2> DEFINE k == IndexOf(accounts, loc[t].id)
             new == [loc[t] EXCEPT !.auth = accounts[k].auth]
  <2>1. Move(t, "activate", new) /\ accounts # Corrupt /\ loc[t].id \in Ids(accounts)
    BY <1>6 DEF SwitchSelect, SavedAuth
  <2>2. k \in DOMAIN accounts
    BY <2>1, IndexOfFinds DEF IndInv, TypeOK
  <2>3. new.auth = accounts[k].auth /\ new.op = loc[t].op /\ new.next = loc[t].next
    BY DEF Locals
  <2> HIDE DEF new
  <2> QED
    BY <1>4, <2>1, <2>2, <2>3
<1>7. CASE ~Finish(t) /\ RotateLoad(t)
  <2> DEFINE new == [loc[t] EXCEPT !.rows = accounts]
  <2>1. pc'[t] = "pick" /\ loc'[t] = new /\ Others(t) /\ accounts # Corrupt
    BY <1>7, Moved DEF RotateLoad, Others
  <2>2. loc'[t].rows = accounts /\ loc'[t].op = loc[t].op /\ loc'[t].next = loc[t].next
    BY <2>1 DEF Locals
  <2>3. HolderCurrent(t)'
    BY <1>1, <1>2, <1>3, <2>1, <2>2 DEF HolderCurrent, Holds, HolderPCs, disk
  <2> QED
    BY <1>1, <2>1, <2>3, LockedStill
<1>8. ASSUME NEW exhausted \in SUBSET KnownIds, RotatePick(t, exhausted), ~Finish(t) PROVE Now'
  <2> DEFINE E == Eligible(accounts, exhausted, RegistryIdOf(authFile))
             k == NextEligible(accounts, exhausted, RegistryIdOf(authFile))
             new == [loc[t] EXCEPT !.auth = accounts[k].auth, !.rows = <<>>]
  <2>1. accounts # Corrupt /\ loc[t].rows = accounts
    BY <1>2, <1>8 DEF RotatePick
  <2>2. E # {} /\ Move(t, "activate", new)
    BY <1>8, <2>1 DEF RotatePick
  <2>3. k \in DOMAIN accounts
    BY <2>1, <2>2, NextEligibleIsRow DEF Eligible, IndInv, TypeOK
  <2>4. new.auth = accounts[k].auth /\ new.op = loc[t].op /\ new.next = loc[t].next
    BY DEF Locals
  <2> HIDE DEF new
  <2> QED
    BY <1>4, <2>1, <2>2, <2>3, <2>4
<1> QED
  BY <1>5, <1>6, <1>7, <1>8

\* auth.json becomes a copy of a row.
LEMMA Activates ==
    ASSUME IndInv, Now, NEW t \in Tasks, Activate(t)
    PROVE  /\ Holds(t) /\ Mirrored /\ accounts # Corrupt /\ loc[t].next # "retry"
           /\ UNCHANGED <<accounts, cache, failure, live, issued, strayed>>
           /\ \E i \in DOMAIN accounts : authFile' = accounts[i].auth
<1>1. pc[t] = "activate" /\ authFile' = loc[t].auth
  BY DEF Activate
<1> QED
  BY <1>1 DEF Activate, Now, HolderCurrent, memory, authority

\* A switch or rotation: the account that is left has its token in its row, and the row
\* that is restored has a good one.
LEMMA LockedActivates ==
    ASSUME SoleProcess, IndInv, Now, NEW t \in Tasks, Activate(t)
    PROVE  Now'
<1> USE Here
<1>1. /\ Holds(t) /\ Mirrored /\ accounts # Corrupt /\ loc[t].next # "retry"
      /\ UNCHANGED <<accounts, cache, failure, live, issued, strayed>>
  BY Activates
<1>2. PICK i \in DOMAIN accounts : authFile' = accounts[i].auth
  BY Activates
<1> DEFINE new == accounts[i].auth
           l == [loc[t] EXCEPT !.auth = NoAuth]
<1>3. pc[t] = "activate" /\ pc'[t] = "load" /\ loc'[t] = l /\ Others(t)
  BY Moved DEF Activate, Others
<1>4. loc'[t].op = loc[t].op /\ loc'[t].next = loc[t].next
  BY <1>3 DEF Locals
<1>5. HolderCurrent(t)' /\ Holds(t)'
  BY <1>1, <1>3, <1>4 DEF HolderCurrent, Holds, HolderPCs
<1>6. \A u \in Tasks : HolderCurrent(u)'
  BY <1>1, <1>3, <1>5, Bystanders
<1>7. CacheNow'
  BY <1>3, <1>5 DEF CacheNow
<1>8. FailuresNow'
  BY <1>1 DEF Now, FailuresNow
<1>9. ~\E u \in Tasks : pc[u] \in {"persist", "persistSave"}
  BY <1>1, <1>3, Alone DEF Outside
<1>10. /\ new \in ChatgptAuths /\ new \in Auths /\ new.acct \in Accounts /\ new.tok.n \in Nat
       /\ accounts[i].id = RegistryIdFor(new.acct)
  BY <1>1, RowTypes
<1>11. IsChatgpt(new) /\ RegistryIdOf(new) = accounts[i].id
  BY <1>10, ChatgptIsChatgpt DEF RegistryIdOf
<1>12. /\ new.tok.owner = new.acct /\ new.tok.n <= issued
       /\ new.tok \in live \/ new.acct \in strayed
  <2>1. RowInv(accounts[i])
    BY <1>1 DEF Now, RowsNow
  <2>2. CASE IsChatgpt(authFile) /\ authFile.acct = new.acct
    <3>1. accounts[i].id = RegistryIdOf(authFile)
      BY <1>10, <2>2 DEF RegistryIdOf
    <3>2. new = authFile
      BY <1>1, <3>1 DEF Mirrored
    <3> QED
      BY <1>9, <2>2, <3>2 DEF Now, ActiveInv
  <2>3. CASE ~(IsChatgpt(authFile) /\ authFile.acct = new.acct)
    BY <2>1, <2>3 DEF RowInv
  <2> QED
    BY <2>2, <2>3
<1>13. ActiveInv'
  <2>1. RegistryIdOf(new) \in Ids(accounts)
    BY <1>11 DEF Ids
  <2>2. RegistryIdOf(authFile)' = RegistryIdOf(new)
    BY <1>2 DEF RegistryIdOf, IsChatgpt
  <2> QED
    BY <1>1, <1>2, <1>12, <2>1, <2>2 DEF ActiveInv
<1>14. ASSUME NEW j \in DOMAIN accounts PROVE RowInv(accounts[j])'
  <2>1. RowInv(accounts[j]) /\ accounts[j].auth.acct \in Accounts
        /\ accounts[j].id = RegistryIdFor(accounts[j].auth.acct)
    BY <1>1, RowTypes DEF Now, RowsNow
  <2>2. CASE accounts[j].auth.acct = new.acct
    <3>1. accounts[j].id = accounts[i].id
      BY <1>10, <2>1, <2>2
    <3>2. j = i
      BY <1>1, <3>1 DEF IndInv, RegistryWellKeyed, WellKeyed, UniqueIds
    <3> QED
      BY <1>1, <1>2, <1>10, <1>11, <1>12, <3>2 DEF RowInv
  <2>3. CASE accounts[j].auth.acct # new.acct
    <3>1. CASE IsChatgpt(authFile) /\ authFile.acct = accounts[j].auth.acct
      <4>1. accounts[j].id = RegistryIdOf(authFile)
        BY <2>1, <3>1 DEF RegistryIdOf
      <4>2. accounts[j].auth = authFile
        BY <1>1, <4>1 DEF Mirrored
      <4>3. authFile.tok \in live \/ authFile.acct \in strayed
        BY <1>9, <3>1 DEF Now, ActiveInv
      <4> QED
        BY <1>1, <1>2, <2>1, <2>3, <4>2, <4>3 DEF RowInv
    <3>2. CASE ~(IsChatgpt(authFile) /\ authFile.acct = accounts[j].auth.acct)
      BY <1>1, <1>2, <2>1, <2>3, <3>2 DEF RowInv
    <3> QED
      BY <3>1, <3>2
  <2> QED
    BY <2>2, <2>3
<1>15. RowsNow'
  BY <1>1, <1>14 DEF RowsNow
<1> QED
  BY <1>6, <1>7, <1>8, <1>13, <1>15 DEF Now

\* The process dies.  The answer it had not saved is lost, for the account of auth.json.
LEMMA LockedCrash ==
    ASSUME SoleProcess, IndInv, Now, NEW p \in Procs, Crash(p)
    PROVE  Now'
<1>1. \A q \in Procs : q = p
  BY DEF SoleProcess
<1>2. /\ UNCHANGED <<authFile, live, issued>> /\ accounts' \in {accounts, Corrupt}
      /\ strayed \subseteq strayed'
  BY DEF Crash
<1>3. \A q \in Procs : cache'[q] = authFile' /\ failure'[q] = NoAuth
  BY <1>1 DEF Crash, IndInv, TypeOK
<1>4. \A t \in Tasks : pc'[t] = "idle"
  BY <1>1, AuthAssumption DEF Crash
<1>5. \A t \in Tasks : HolderCurrent(t)'
  BY <1>4 DEF HolderCurrent, Holds
<1>6. ActiveInv'
  <2>1. ASSUME NEW t \in Tasks, pc[t] \in {"persist", "persistSave"}
        PROVE  authFile.acct \in strayed'
    <3>1. loc[t].resp.owner = authFile.acct
      BY <2>1, InPersist DEF Persisting
    <3>2. loc[t].resp.owner \in strayed'
      BY <1>1, <2>1, AuthAssumption DEF Crash
    <3> QED
      BY <3>1, <3>2
  <2> QED
    BY <1>2, <2>1 DEF Now, ActiveInv
<1>7. RowsNow'
  BY <1>2 DEF Now, RowsNow, RowInv
<1>8. CacheNow' /\ FailuresNow'
  BY <1>3 DEF CacheNow, FailuresNow
<1> QED
  BY <1>5, <1>6, <1>7, <1>8 DEF Now

\* Every account that was saved has its first token, the active one among them.
LEMMA LockedInit == Init => Now
<1> SUFFICES ASSUME Init PROVE Now
  OBVIOUS
<1> USE AuthAssumption
<1> DEFINE n == Len(InitSaved)
<1>1. n \in Nat /\ DOMAIN InitSaved = 1..n /\ issued = n
  BY LenProperties DEF Init
<1>2. \A i \in 1..n : /\ FirstAuth(i) \in ChatgptAuths /\ FirstAuth(i).tok \in live
                      /\ FirstAuth(i).tok.owner = FirstAuth(i).acct
                      /\ FirstAuth(i).tok.n = i /\ FirstAuth(i).acct = InitSaved[i]
  BY <1>1, ElementOfSeq DEF FirstAuth, ChatgptAuths, Tokens, Init
<1>3. accounts = [i \in 1..n |-> RowFor(FirstAuth(i))]
  BY DEF Init
<1>4. \A i \in 1..n : /\ accounts[i].auth = FirstAuth(i)
                      /\ accounts[i].id = RegistryIdFor(FirstAuth(i).acct)
  BY <1>2, <1>3, RowForIsRow
<1>5. authFile = NoAuth \/ (1 \in 1..n /\ authFile = FirstAuth(1))
  BY <1>1, EmptySeq DEF Init
<1>6. \A t \in Tasks : HolderCurrent(t)
  BY DEF Init, HolderCurrent, Holds
<1>7. ActiveInv
  <2>1. CASE authFile = NoAuth
    BY <2>1 DEF ActiveInv, IsChatgpt
  <2>2. CASE 1 \in 1..n /\ authFile = FirstAuth(1)
    <3>1. RegistryIdFor(authFile.acct) \in Ids(accounts)
      BY <1>3, <1>4, <2>2 DEF Ids
    <3> QED
      BY <1>1, <1>2, <2>2, <3>1 DEF ActiveInv, RegistryIdOf
  <2> QED
    BY <1>5, <2>1, <2>2
<1>8. \A i \in DOMAIN accounts : RowInv(accounts[i])
  <2> SUFFICES ASSUME NEW i \in 1..n PROVE RowInv(accounts[i])
    BY <1>3
  <2>1. /\ accounts[i].auth.tok.owner = accounts[i].auth.acct /\ accounts[i].auth.tok.n <= issued
        /\ accounts[i].auth.tok \in live
    BY <1>1, <1>2, <1>4
  <2>2. ASSUME IsChatgpt(authFile), authFile.acct = accounts[i].auth.acct
        PROVE  accounts[i].auth.tok.n <= authFile.tok.n
    <3>1. 1 \in 1..n /\ authFile = FirstAuth(1)
      BY <1>5, <2>2 DEF IsChatgpt
    <3>2. i = 1
      BY <1>1, <1>2, <1>4, <2>2, <3>1
    <3> QED
      BY <1>2, <1>4, <3>1, <3>2
  <2> QED
    BY <2>1, <2>2 DEF RowInv
<1>9. FailuresNow /\ CacheNow
  BY DEF Init, FailuresNow, CacheNow
<1> QED
  BY <1>6, <1>7, <1>8, <1>9 DEF Now, RowsNow

\* With LockedOnly, the steps a task can take.
LEMMA LockedSteps ==
    ASSUME Now, NEW t \in Tasks
    PROVE  /\ User(t) => RecoverSatisfied(t) \/ RecoverRefresh(t)
           /\ Continue(t) =>
                 \/ ReloadLoad(t) \/ ReloadSet(t) \/ GuardLoad(t) \/ GuardCompare(t)
                 \/ Attempt(t) \/ LookUpFailure(t) \/ PersistLoad(t) \/ PersistSave(t)
                 \/ MirrorRead(t) \/ MirrorLoad(t) \/ MirrorSave(t) \/ Activate(t)
                 \/ SwitchSelect(t) \/ RotateLoad(t)
                 \/ \E exhausted \in SUBSET KnownIds : RotatePick(t, exhausted)
                 \/ RecoverReload(t)
<1>1. pc[t] \notin {"browser", "removeLoad", "removeSave", "removeNext", "upsertLoad",
                    "upsertSave", "loginUpsert", "revoke", "delete"}
  BY DEF Now, HolderCurrent, HolderPCs
<1>2. /\ ~RemoveLoad(t) /\ ~RemoveSave(t) /\ ~RemoveNext(t) /\ ~UpsertLoad(t) /\ ~UpsertSave(t)
      /\ ~LoginUpsert(t) /\ ~LoginUnsaved(t) /\ ~LogoutRevoked(t) /\ ~LogoutDelete(t)
      /\ ~LoginCancelled(t) /\ \A acct \in Accounts : ~LoginCallback(t, acct)
  BY <1>1 DEF RemoveLoad, RemoveSave, RemoveNext, UpsertLoad, UpsertSave, LoginUpsert,
     LoginUnsaved, LogoutRevoked, LogoutDelete, LoginCancelled, LoginCallback
<1> QED
  BY <1>2 DEF User, Continue

\* A process that was left with an old credential stays one.
LEMMA OutdatedGrows == [Next]_vars => outdated \subseteq outdated'
<1> SUFFICES ASSUME [Next]_vars PROVE outdated \subseteq outdated'
  OBVIOUS
<1> USE DEF memory
<1>1. ASSUME NEW t \in Tasks, Begin(t) PROVE UNCHANGED outdated
  BY <1>1 DEF Begin, RequestRefresh, RequestRotate, RequestSwitch, Request, RemoveBegin,
     RecoverBegin, LoginStart, LogoutBegin, Reload, LoginWithApiKey
<1>2. ASSUME NEW t \in Tasks, User(t) \/ Locked(t) \/ Authority(t) PROVE UNCHANGED outdated
  BY <1>2 DEF User, LoginCallback, LoginCancelled, RecoverSatisfied, RecoverRefresh, RecoverNext,
     Locked, LockedRefresh, LockedRecover, LockedSelect, Acquire, Authority, AuthorityRotates,
     AuthorityRejects, AuthorityFails
<1>3. ASSUME NEW t \in Tasks, Continue(t) PROVE outdated \subseteq outdated'
  <2>1. CASE ReloadLoad(t) \/ ReloadSet(t) \/ GuardLoad(t) \/ GuardCompare(t) \/ Attempt(t)
             \/ LookUpFailure(t) \/ PersistLoad(t) \/ PersistSave(t) \/ RecoverReload(t)
    BY <2>1 DEF ReloadLoad, ReloadSet, GuardLoad, GuardCompare, Attempt, LookUpFailure,
       PersistLoad, PersistSave, RecoverReload, RecoverNext
  <2>2. CASE MirrorRead(t) \/ MirrorLoad(t) \/ MirrorSave(t) \/ SwitchSelect(t) \/ RotateLoad(t)
             \/ Activate(t) \/ \E exhausted \in SUBSET KnownIds : RotatePick(t, exhausted)
    BY <2>2 DEF MirrorRead, MirrorLoad, MirrorSave, SwitchSelect, RotateLoad, RotatePick, Activate
  <2>3. CASE RemoveLoad(t) \/ RemoveSave(t) \/ RemoveNext(t) \/ UpsertLoad(t) \/ UpsertSave(t)
             \/ LoginUpsert(t) \/ LoginUnsaved(t) \/ LogoutRevoked(t) \/ LogoutDelete(t)
    BY <2>3 DEF RemoveLoad, RemoveSave, RemoveNext, UpsertLoad, UpsertSave, LoginUpsert,
       LoginUnsaved, LogoutRevoked, LogoutDelete
  <2> QED
    BY <1>3, <2>1, <2>2, <2>3 DEF Continue
<1>4. ASSUME NEW p \in Procs, Crash(p) PROVE UNCHANGED outdated
  BY <1>4 DEF Crash
<1>5. CASE UNCHANGED vars
  BY <1>5 DEF vars
<1> QED
  BY <1>1, <1>2, <1>3, <1>4, <1>5 DEF Next

LEMMA LockedNext == SoleProcess /\ LockedOnly /\ IndInv /\ LockedInv /\ [Next]_vars => LockedInv'
<1> SUFFICES ASSUME SoleProcess, LockedOnly, IndInv, LockedInv, [Next]_vars, outdated' = {}
             PROVE  Now'
  BY LockedIsNow DEF LockedInv, NoSpuriousFailure, CacheNow, FailuresNow, RowsNow, Now
<1>1. Now
  BY OutdatedGrows, LockedIsNow
<1>2. ASSUME NEW t \in Tasks, Begin(t) PROVE Now'
  BY <1>1, <1>2, LockedBegin
<1>3. ASSUME NEW t \in Tasks, User(t) PROVE Now'
  BY <1>1, <1>3, LockedSteps, LockedRecovers
<1>4. ASSUME NEW t \in Tasks, Locked(t) PROVE Now'
  BY <1>1, <1>4, LockedTakes
<1>5. ASSUME NEW t \in Tasks, Authority(t) PROVE Now'
  BY <1>1, <1>5, LockedAuthority
<1>6. ASSUME NEW t \in Tasks, Continue(t) PROVE Now'
  BY <1>1, <1>6, LockedSteps, LockedReloads, LockedAttempts, LockedPersistLoad,
     LockedPersistSave, LockedMirrorLoads, LockedMirrorSave, LockedSelects, LockedActivates,
     LockedRecovers
<1>7. ASSUME NEW p \in Procs, Crash(p) PROVE Now'
  BY <1>1, <1>7, LockedCrash
<1>8. CASE UNCHANGED vars
  <2>1. Mirrored' <=> Mirrored
    BY <1>8 DEF vars, Mirrored
  <2>2. \A t \in Tasks : HolderCurrent(t)'
    BY <1>1, <1>8, <2>1 DEF vars, Now, HolderCurrent, Holds
  <2>3. CacheNow' /\ FailuresNow' /\ ActiveInv'
    BY <1>1, <1>8 DEF vars, Now, CacheNow, FailuresNow, ActiveInv, Holds
  <2>4. RowsNow'
    BY <1>1, <1>8 DEF vars, Now, RowsNow, RowInv
  <2> QED
    BY <2>2, <2>3, <2>4 DEF Now
<1> QED
  BY <1>2, <1>3, <1>4, <1>5, <1>6, <1>7, <1>8 DEF Next

\* With one process and the operations that write auth.json under refresh_lock, what the
\* holder of the lock read is current until it is used, and every token on disk is accounted
\* for, until a reload without the lock publishes a credential that was replaced meanwhile.
THEOREM LockedInductive == SoleProcess /\ LockedOnly => (Spec => []LockedInv)
<1> SUFFICES ASSUME SoleProcess, LockedOnly PROVE Spec => []LockedInv
  OBVIOUS
<1>1. Init => LockedInv
  BY LockedInit, LockedIsNow
<1>2. IndInv /\ LockedInv /\ [Next]_vars => LockedInv'
  BY LockedNext
<1> QED
  BY <1>1, <1>2, Inductive, PTL DEF Spec

\* ... no record pairs one account's identity with another account's token, ...
THEOREM TokensAreTheAccounts == SoleProcess /\ LockedOnly => (Spec => []TokensMatchAccount)
<1> SUFFICES ASSUME SoleProcess, LockedOnly PROVE Spec => []TokensMatchAccount
  OBVIOUS
<1>1. LockedInv => TokensMatchAccount
  BY DEF LockedInv, ActiveInv, RowInv, TokensMatchAccount
<1> QED
  BY <1>1, LockedInductive, PTL

\* ... the rows of inactive accounts hold tokens the authority accepts, unless one was lost
\* on its way to the disk, ...
THEOREM SavedTokensAreLive == SoleProcess /\ LockedOnly => (Spec => []SavedTokensLive)
<1> SUFFICES ASSUME SoleProcess, LockedOnly PROVE Spec => []SavedTokensLive
  OBVIOUS
<1>1. LockedInv => SavedTokensLive
  BY DEF LockedInv, RowInv, SavedTokensLive
<1> QED
  BY <1>1, LockedInductive, PTL

\* ... and a refresh is refused for good only for an account whose token was lost.
THEOREM FailuresAreReal == SoleProcess /\ LockedOnly => (Spec => []NoSpuriousFailure)
<1> SUFFICES ASSUME SoleProcess, LockedOnly PROVE Spec => []NoSpuriousFailure
  OBVIOUS
<1>1. LockedInv => NoSpuriousFailure
  BY DEF LockedInv, NoSpuriousFailure
<1> QED
  BY <1>1, LockedInductive, PTL

(* The newest token of every account stays on disk. *)

\* With LockedOnly, the steps that write a file.
LEMMA LockedWriters ==
    ASSUME LockedOnly, Now, [Next]_vars
    PROVE  \/ UNCHANGED <<authFile, accounts>>
           \/ \E t \in Tasks : PersistSave(t) \/ MirrorSave(t) \/ Activate(t)
           \/ accounts' = Corrupt
<1> USE DEF disk
<1>1. ASSUME NEW t \in Tasks, Begin(t) PROVE UNCHANGED <<authFile, accounts>>
  BY <1>1 DEF LockedOnly, Start, Begin, RequestRefresh, RequestRotate, RequestSwitch, Request,
     RemoveBegin, RecoverBegin, LoginStart, LogoutBegin, LoginWithApiKey, Reload
<1>2. ASSUME NEW t \in Tasks, User(t) \/ Locked(t) \/ Authority(t)
      PROVE  UNCHANGED <<authFile, accounts>>
  BY <1>2, LockedSteps DEF RecoverSatisfied, RecoverRefresh, RecoverNext, Locked, LockedRefresh,
     LockedRecover, LockedSelect, Acquire, Authority, AuthorityRotates, AuthorityRejects,
     AuthorityFails
<1>3. ASSUME NEW t \in Tasks, Continue(t), ~PersistSave(t), ~MirrorSave(t), ~Activate(t)
      PROVE  UNCHANGED <<authFile, accounts>>
  BY <1>3, LockedSteps DEF ReloadLoad, ReloadSet, GuardLoad, GuardCompare, Attempt,
     LookUpFailure, PersistLoad, MirrorRead, MirrorLoad, SwitchSelect, RotateLoad, RotatePick,
     RecoverReload, RecoverNext
<1>4. ASSUME NEW p \in Procs, Crash(p)
      PROVE  UNCHANGED authFile /\ (UNCHANGED accounts \/ accounts' = Corrupt)
  BY <1>4 DEF Crash
<1>5. CASE UNCHANGED vars
  BY <1>5 DEF vars
<1> QED
  BY <1>1, <1>2, <1>3, <1>4, <1>5 DEF Next

\* A token number on disk is that of auth.json or of a row.
LEMMA OnDisk ==
    ASSUME IndInv, accounts # Corrupt, NEW acct
    PROVE  \A n : n \in DiskTokens(acct) <=>
              \/ IsChatgpt(authFile) /\ authFile.acct = acct /\ n = authFile.tok.n
              \/ \E i \in DOMAIN accounts : accounts[i].auth.acct = acct /\ n = accounts[i].auth.tok.n
<1>1. \A i \in DOMAIN accounts : IsChatgpt(accounts[i].auth)
  BY RowTypes, ChatgptIsChatgpt
<1> QED
  BY <1>1 DEF DiskTokens

\* One step keeps the newest token of every account, or one newer still.
LEMMA NewestStep ==
    ASSUME LockedOnly, IndInv, Now, IndInv', [Next]_vars,
           accounts # Corrupt, accounts' # Corrupt,
           NEW acct \in Accounts, NEW n \in DiskTokens(acct)
    PROVE  \E m \in DiskTokens(acct)' : m >= n
<1> DEFINE InFile(m) == IsChatgpt(authFile') /\ authFile'.acct = acct /\ m = authFile'.tok.n
           InRow(m) == \E i \in DOMAIN accounts' :
                           accounts'[i].auth.acct = acct /\ m = accounts'[i].auth.tok.n
<1>1. \A m : m \in DiskTokens(acct)' <=> InFile(m) \/ InRow(m)
  <2>1. \A i \in DOMAIN accounts' : IsChatgpt(accounts'[i].auth)
    <3>1. accounts' \in Seq(Rows)
      BY DEF IndInv, TypeOK
    <3>2. \A i \in DOMAIN accounts' : accounts'[i] \in Rows
      BY <3>1, ElementOfSeq, LenProperties
    <3> QED
      BY <3>2, ChatgptIsChatgpt DEF Rows, Auths
  <2> QED
    BY <2>1 DEF DiskTokens
<1>2. \/ IsChatgpt(authFile) /\ authFile.acct = acct /\ n = authFile.tok.n
      \/ \E i \in DOMAIN accounts : accounts[i].auth.acct = acct /\ n = accounts[i].auth.tok.n
  BY OnDisk
<1>3. IsChatgpt(authFile) => authFile.acct \in Accounts /\ authFile.tok.n \in Nat
                             /\ RegistryIdOf(authFile) = RegistryIdFor(authFile.acct)
  BY ActiveTypes
<1>4. \A i \in DOMAIN accounts : /\ accounts[i].auth.tok.n \in Nat /\ accounts[i].auth.acct \in Accounts
                                 /\ accounts[i].id = RegistryIdFor(accounts[i].auth.acct)
  BY RowTypes
<1>5. n \in Nat
  BY <1>2, <1>3, <1>4
<1> SUFFICES \E m : m >= n /\ (InFile(m) \/ InRow(m))
  BY <1>1
<1>6. CASE UNCHANGED <<authFile, accounts>>
  BY <1>2, <1>5, <1>6
<1>7. ASSUME NEW t \in Tasks, PersistSave(t) PROVE \E m : m >= n /\ (InFile(m) \/ InRow(m))
  <2>1. /\ IsChatgpt(authFile) /\ authFile' = [acct |-> authFile.acct, tok |-> loc[t].resp]
        /\ UNCHANGED accounts
    BY <1>7, PersistMerges
  <2>2. loc[t].resp.n \in authFile.tok.n..issued /\ issued \in Nat
    BY <1>7, InPersist DEF PersistSave, Persisting, IndInv, TypeOK
  <2>3. /\ authFile'.acct = authFile.acct /\ authFile'.tok.n = loc[t].resp.n
        /\ loc[t].resp.n >= authFile.tok.n
    BY <1>3, <2>1, <2>2
  <2>4. IsChatgpt(authFile')
    <3>1. loc[t].resp \in Tokens
      BY <1>7, InPersist DEF PersistSave, Persisting
    <3>2. authFile' \in ChatgptAuths
      BY <1>3, <2>1, <3>1 DEF ChatgptAuths
    <3> QED
      BY <3>2, ChatgptIsChatgpt DEF Auths
  <2>5. CASE authFile.acct = acct /\ n = authFile.tok.n
    BY <2>3, <2>4, <2>5
  <2>6. CASE \E i \in DOMAIN accounts : accounts[i].auth.acct = acct /\ n = accounts[i].auth.tok.n
    BY <1>5, <2>1, <2>6
  <2> QED
    BY <1>2, <2>5, <2>6
<1>8. ASSUME NEW t \in Tasks, MirrorSave(t) PROVE \E m : m >= n /\ (InFile(m) \/ InRow(m))
  <2>1. UNCHANGED authFile
    BY <1>8 DEF MirrorSave
  <2>2. /\ IsChatgpt(authFile) /\ DOMAIN accounts' = DOMAIN accounts
        /\ \A i \in DOMAIN accounts : accounts[i].id # RegistryIdOf(authFile) => accounts'[i] = accounts[i]
    BY <1>8, MirrorWrites
  <2>3. CASE authFile.acct = acct
    <3>1. authFile.tok.n >= n
      BY <1>2, <1>3, <1>4, <2>2, <2>3 DEF Now, RowsNow, RowInv
    <3> QED
      BY <2>1, <2>2, <2>3, <3>1
  <2>4. CASE authFile.acct # acct
    <3>1. PICK i \in DOMAIN accounts : accounts[i].auth.acct = acct /\ n = accounts[i].auth.tok.n
      BY <1>2, <2>4
    <3>2. accounts'[i] = accounts[i]
      BY <1>3, <1>4, <2>2, <2>4, <3>1, IdsInjective
    <3>3. InRow(n)
      BY <2>2, <3>1, <3>2
    <3> QED
      BY <1>5, <3>3
  <2> QED
    BY <2>3, <2>4
<1>9. ASSUME NEW t \in Tasks, Activate(t) PROVE \E m : m >= n /\ (InFile(m) \/ InRow(m))
  <2>1. Mirrored /\ UNCHANGED accounts
    BY <1>9, Activates
  <2>2. CASE IsChatgpt(authFile) /\ authFile.acct = acct /\ n = authFile.tok.n
    <3>1. PICK i \in DOMAIN accounts : accounts[i].id = RegistryIdOf(authFile)
      BY <2>2 DEF Now, ActiveInv, Ids
    <3>2. accounts[i].auth = authFile
      BY <2>1, <3>1 DEF Mirrored
    <3>3. accounts'[i].auth.acct = acct /\ n = accounts'[i].auth.tok.n /\ i \in DOMAIN accounts'
      BY <2>1, <2>2, <3>1, <3>2
    <3>4. InRow(n)
      BY <3>3
    <3> QED
      BY <1>5, <3>4
  <2>3. CASE \E i \in DOMAIN accounts : accounts[i].auth.acct = acct /\ n = accounts[i].auth.tok.n
    <3>1. InRow(n)
      BY <2>1, <2>3
    <3> QED
      BY <1>5, <3>1
  <2> QED
    BY <1>2, <2>2, <2>3
<1> QED
  BY <1>6, <1>7, <1>8, <1>9, LockedWriters

\* With one process and the operations that write auth.json under refresh_lock, no crash,
\* switch or rotation falls back to a refresh token that was already rotated, until a reload
\* without the lock was overtaken.
THEOREM NewestTokenIsKept == SoleProcess /\ LockedOnly => (Spec => NewestTokenKept)
<1> SUFFICES ASSUME SoleProcess, LockedOnly PROVE Spec => NewestTokenKept
  OBVIOUS
<1>1. IndInv /\ LockedInv /\ IndInv' /\ [Next]_vars =>
        [outdated = {} /\ accounts # Corrupt /\ accounts' # Corrupt =>
            \A acct \in Accounts : \A n \in DiskTokens(acct) :
                \E m \in DiskTokens(acct)' : m >= n]_vars
  BY NewestStep, LockedIsNow
<1> QED
  BY <1>1, Inductive, LockedInductive, PTL DEF Spec, NewestTokenKept
=============================================================================
