---------------------------- MODULE AuthManager ----------------------------
(***************************************************************************)
(* AuthManager (codex-rs/login/src/auth/manager.rs) with the operations    *)
(* the TUI, the app server and the sampling loop start on it.  Processes   *)
(* share auth.json and accounts.json; the tasks of one process share its   *)
(* cached credential, the permanent-failure memo and refresh_lock.         *)
(*                                                                         *)
(* A task runs one operation at a time.  The runtime has several worker    *)
(* threads, so an operation is cut at every await (the lock, the request   *)
(* to the token authority, the browser login, the revoke request) and at   *)
(* every access to what tasks share: a load or a save of a file, a read or *)
(* a write of the cache.  Only the first read after taking the lock is     *)
(* part of the step that takes it.                                         *)
(***************************************************************************)
EXTENDS AccountRegistry

CONSTANTS
    Procs,       \* Super Codex processes on one CODEX_HOME
    Tasks,       \* concurrent tasks, each of one process
    ProcOf,      \* [Tasks -> Procs]
    NoTask,      \* refresh_lock is free
    Ops,         \* [Tasks -> SUBSET AllOps]: the operations a task may start
    Faults,      \* the faults that may happen
    InitSaved,   \* the accounts saved at the start, in registry order
    Corrupt,     \* accounts.json does not parse
    NoToken,
    MaxTokens    \* bound: refresh tokens the authority ever issues

AllOps == {"refresh", "recover", "switch", "rotate", "remove", "login",
           "logout", "apikey", "reload"}
AllFaults == {"unreachable", "lost", "crash"}

ASSUME AuthAssumption ==
    /\ ProcOf \in [Tasks -> Procs]
    /\ NoTask \notin Tasks
    /\ Ops \in [Tasks -> SUBSET AllOps]
    /\ Faults \subseteq AllFaults
    /\ MaxTokens \in Nat
    /\ InitSaved \in Seq(Accounts)
    /\ \A i, j \in DOMAIN InitSaved : InitSaved[i] = InitSaved[j] => i = j
    /\ Corrupt \notin Seq(Rows)
    /\ NoToken \notin Tokens

VARIABLES
    authFile,    \* auth.json
    accounts,    \* accounts.json: its rows, or Corrupt
    cache,       \* [Procs -> Auths], CachedAuth.auth
    failure,     \* [Procs -> Auths], the credential permanent_refresh_failure is for
    lock,        \* [Procs -> Tasks], the holder of refresh_lock
    pc, loc,     \* per task: where its operation is, and its local variables
    live,        \* the refresh tokens the authority accepts
    issued,      \* how many refresh tokens it has issued
    strayed,     \* history: accounts whose rotated token never reached auth.json
    outdated     \* history: processes that were left with an old credential in the cache

vars == <<authFile, accounts, cache, failure, lock, pc, loc, live, issued, strayed, outdated>>
disk == <<authFile, accounts>>
memory == <<cache, failure, outdated>>
authority == <<live, issued, strayed>>

PCs == {"idle", "wait", "guard", "compare", "load", "set", "attempt", "memo", "request",
        "persist", "persistSave", "mirror", "mirrorLoad", "mirrorSave", "select", "pick",
        "activate", "recover", "retry", "removeLoad", "removeSave", "removeNext",
        "upsertLoad", "upsertSave", "browser", "loginUpsert", "revoke", "delete"}

\* The operations that hold refresh_lock from the end of their wait until they return.
LockOps == {"refresh", "authority", "switch", "rotate"}
LocalOps == LockOps \cup {"none", "recover", "removeActive", "removeOther", "login",
                          "added", "logout"}
Locals == [op : LocalOps, id : RegistryIds \cup {NoId}, auth : Auths,
           resp : Tokens \cup {NoToken}, rows : Seq(Rows),
           next : {"idle", "mirror", "attempt", "retry"}]
Fresh == [op |-> "none", id |-> NoId, auth |-> NoAuth, resp |-> NoToken,
          rows |-> <<>>, next |-> "idle"]

\* Types of the files, the cache and the tasks.
TypeOK ==
    /\ authFile \in Auths
    /\ accounts \in Seq(Rows) \cup {Corrupt}
    /\ cache \in [Procs -> Auths]
    /\ failure \in [Procs -> Auths]
    /\ lock \in [Procs -> Tasks \cup {NoTask}]
    /\ pc \in [Tasks -> PCs]
    /\ loc \in [Tasks -> Locals]
    /\ live \subseteq Tokens
    /\ issued \in Nat
    /\ strayed \subseteq Accounts
    /\ outdated \subseteq Procs

FirstAuth(i) == [acct |-> InitSaved[i], tok |-> [owner |-> InitSaved[i], n |-> i]]

\* The accounts of InitSaved were added one by one and the first is active.
Init ==
    /\ accounts = [i \in 1..Len(InitSaved) |-> RowFor(FirstAuth(i))]
    /\ authFile = IF InitSaved = <<>> THEN NoAuth ELSE FirstAuth(1)
    /\ cache = [p \in Procs |-> authFile]
    /\ failure = [p \in Procs |-> NoAuth]
    /\ lock = [p \in Procs |-> NoTask]
    /\ pc = [t \in Tasks |-> "idle"]
    /\ loc = [t \in Tasks |-> Fresh]
    /\ live = {FirstAuth(i).tok : i \in 1..Len(InitSaved)}
    /\ issued = Len(InitSaved)
    /\ strayed = {} /\ outdated = {}

----------------------------------------------------------------------------
Start(t, op) == pc[t] = "idle" /\ op \in Ops[t]

\* The task goes on at label with the local variables l.
Move(t, label, l) ==
    /\ pc' = [pc EXCEPT ![t] = label]
    /\ loc' = [loc EXCEPT ![t] = l]
    /\ UNCHANGED lock

\* The operation returns; a refresh guard it holds is dropped.
Finish(t) ==
    /\ pc' = [pc EXCEPT ![t] = "idle"]
    /\ loc' = [loc EXCEPT ![t] = Fresh]
    /\ lock' = [lock EXCEPT ![ProcOf[t]] = IF @ = t THEN NoTask ELSE @]

Cached(t) == cache[ProcOf[t]]

\* Mutant: the recorded failure survives a change of credentials.
SetCached_KeepsFailure(p, auth) ==
    cache' = [cache EXCEPT ![p] = auth] /\ UNCHANGED failure

\* set_cached_auth: a changed credential drops the failure recorded for the old one.
SetCached(p, auth) ==
    /\ cache' = [cache EXCEPT ![p] = auth]
    /\ failure' = IF cache[p] = auth THEN failure
                                     ELSE [failure EXCEPT ![p] = NoAuth]

----------------------------------------------------------------------------
(* AuthManager::reload: load_auth_from_storage, then set_cached_auth.  The   *)
(* operation then goes on at loc.next, or returns.                          *)

ReloadLoad(t) ==
    /\ pc[t] = "load"
    /\ Move(t, "set", [loc[t] EXCEPT !.auth = authFile])
    /\ UNCHANGED <<disk, memory, authority>>

\* What is published may no longer be what auth.json holds.
ReloadSet(t) ==
    /\ pc[t] = "set"
    /\ SetCached(ProcOf[t], loc[t].auth)
    /\ outdated' = IF loc[t].auth = authFile THEN outdated ELSE outdated \cup {ProcOf[t]}
    /\ IF loc[t].next = "idle"
       THEN Finish(t)
       ELSE Move(t, loc[t].next, [loc[t] EXCEPT !.auth = NoAuth, !.next = "idle"])
    /\ UNCHANGED <<disk, authority>>

\* reload_if_account_id_matches does not skip.
SameAccount(auth, onDisk) ==
    AccountIdOf(auth) # NoId /\ AccountIdOf(onDisk) = AccountIdOf(auth)

\* Its load, with the credential whose account is expected in loc.auth.
GuardLoad(t) ==
    /\ pc[t] = "guard"
    /\ IF SameAccount(loc[t].auth, authFile)
       THEN Move(t, IF loc[t].op = "refresh" THEN "compare" ELSE "set",
                 [loc[t] EXCEPT !.auth = authFile, !.next = "retry"])
       ELSE Finish(t)                               \* ReloadOutcome::Skipped
    /\ UNCHANGED <<disk, memory, authority>>

\* What it finds in the cache decides on ReloadedNoChange or ReloadedChanged.
GuardCompare(t) ==
    /\ pc[t] = "compare"
    /\ Move(t, "set", [loc[t] EXCEPT !.next = IF Cached(t) = loc[t].auth
                                              THEN "attempt" ELSE "idle"])
    /\ UNCHANGED <<disk, memory, authority>>

----------------------------------------------------------------------------
(* Operations that take refresh_lock: first the request for it. *)

Request(t, op, id) ==
    /\ Start(t, op)
    /\ Move(t, "wait", [Fresh EXCEPT !.op = op, !.id = id])
    /\ UNCHANGED <<disk, memory, authority>>

\* refresh_token, called for a stale token.
RequestRefresh(t) == Request(t, "refresh", NoId)

\* An entry of the /accounts popup, however old.
RequestSwitch(t, id) == Request(t, "switch", id)

\* The sampling loop, on a usage limit.
RequestRotate(t) == IsChatgpt(Cached(t)) /\ Request(t, "rotate", NoId)

\* Mutant: the semaphore has two permits.
Acquire_Shared(t, label, l) ==
    /\ pc[t] = "wait"
    /\ lock' = [lock EXCEPT ![ProcOf[t]] = t]
    /\ pc' = [pc EXCEPT ![t] = label]
    /\ loc' = [loc EXCEPT ![t] = l]
    /\ UNCHANGED <<disk, memory, authority>>

\* The wait for the semaphore ends.
Acquire(t, label, l) ==
    /\ pc[t] = "wait"
    /\ lock[ProcOf[t]] = NoTask
    /\ lock' = [lock EXCEPT ![ProcOf[t]] = t]
    /\ pc' = [pc EXCEPT ![t] = label]
    /\ loc' = [loc EXCEPT ![t] = l]
    /\ UNCHANGED <<disk, memory, authority>>

\* refresh_token: the account of the cached credential is the expected one.
LockedRefresh(t) ==
    /\ loc[t].op = "refresh"
    /\ Acquire(t, "guard", [loc[t] EXCEPT !.auth = Cached(t)])

\* refresh_token_from_authority, the second step of UnauthorizedRecovery.
LockedRecover(t) ==
    /\ loc[t].op = "authority"
    /\ Acquire(t, "attempt", loc[t])

\* Mutant: the switch does not mirror the active account first.
LockedSelect_NoMirror(t) ==
    /\ loc[t].op \in {"switch", "rotate"}
    /\ Acquire(t, "select", loc[t])

\* switch_to_saved_... and rotate_to_next_... with the lock held.
LockedSelect(t) ==
    /\ loc[t].op \in {"switch", "rotate"}
    /\ Acquire(t, "mirror", loc[t])

\* refresh_token_from_authority_impl up to the request: nothing to do without
\* ChatGPT credentials, and a recorded failure for them is returned at once.
Attempt(t) ==
    /\ pc[t] = "attempt"
    /\ IF IsChatgpt(Cached(t))
       THEN Move(t, "memo", [loc[t] EXCEPT !.auth = Cached(t)])
       ELSE Finish(t)
    /\ UNCHANGED <<disk, memory, authority>>

LookUpFailure(t) ==
    /\ pc[t] = "memo"
    /\ IF failure[ProcOf[t]] = loc[t].auth THEN Finish(t) ELSE Move(t, "request", loc[t])
    /\ UNCHANGED <<disk, memory, authority>>

----------------------------------------------------------------------------
(* The token authority: a refresh token is good for one refresh. *)

NewToken(acct) == [owner |-> acct, n |-> issued + 1]

Rotate(tok) ==
    /\ tok \in live /\ issued < MaxTokens
    /\ live' = (live \ {tok}) \cup {NewToken(tok.owner)}
    /\ issued' = issued + 1

AuthorityRotates(t) ==
    /\ pc[t] = "request"
    /\ Rotate(loc[t].auth.tok)
    /\ Move(t, "persist", [loc[t] EXCEPT !.resp = NewToken(loc[t].auth.tok.owner)])
    /\ UNCHANGED <<disk, memory, strayed>>

\* 401: record_permanent_refresh_failure_if_unchanged.
AuthorityRejects(t) ==
    /\ pc[t] = "request"
    /\ loc[t].auth.tok \notin live
    /\ failure' = IF Cached(t) = loc[t].auth
                  THEN [failure EXCEPT ![ProcOf[t]] = loc[t].auth] ELSE failure
    /\ Finish(t)
    /\ UNCHANGED <<disk, cache, outdated, authority>>

\* Mutant: the error path forgets the lock.
AuthorityFails_KeepsLock(t) ==
    /\ pc[t] = "request" /\ "unreachable" \in Faults
    /\ Move(t, "idle", Fresh)
    /\ UNCHANGED <<disk, memory, authority>>

\* A transient error, before or after the authority rotated the token.
AuthorityFails(t) ==
    /\ pc[t] = "request"
    /\ \/ "unreachable" \in Faults /\ UNCHANGED authority
       \/ /\ "lost" \in Faults /\ Rotate(loc[t].auth.tok)
          /\ strayed' = strayed \cup {loc[t].auth.tok.owner}
    /\ Finish(t)
    /\ UNCHANGED <<disk, memory>>

----------------------------------------------------------------------------
(* persist_tokens: load auth.json, put the answer into it, save it. *)

\* Mutant: the answer becomes the record, whether auth.json is there or not.
PersistLoad_Recreates(t) ==
    /\ pc[t] = "persist"
    /\ authFile' = [acct |-> loc[t].auth.acct, tok |-> loc[t].resp]
    /\ Move(t, "load", [loc[t] EXCEPT !.resp = NoToken, !.next = "mirror"])
    /\ UNCHANGED <<accounts, memory, authority>>

PersistLoad(t) ==
    /\ pc[t] = "persist"
    /\ IF authFile = NoAuth
       THEN Finish(t) /\ strayed' = strayed \cup {loc[t].resp.owner}
       ELSE Move(t, "persistSave", [loc[t] EXCEPT !.auth = authFile]) /\ UNCHANGED strayed
    /\ UNCHANGED <<disk, memory, live, issued>>

\* Mutant: an answer without a refresh token is stored as an empty one.
Merge_DropsToken(auth, tok) ==
    IF IsChatgpt(auth) THEN [acct |-> auth.acct, tok |-> NoToken] ELSE auth

\* tokens.account_id stays, the id token and its claims are replaced, so a
\* record without an account id changes identity.  An API-key record stays
\* one: the tokens put into it are not used.
Merge(auth, tok) ==
    IF IsChatgpt(auth)
    THEN [acct |-> IF auth.acct \in HasAccountId THEN auth.acct ELSE tok.owner,
          tok |-> tok]
    ELSE auth

\* The save; refresh_and_persist_chatgpt_token then reloads and mirrors.
PersistSave(t) ==
    /\ pc[t] = "persistSave"
    /\ authFile' = Merge(loc[t].auth, loc[t].resp)
    /\ Move(t, "load", [loc[t] EXCEPT !.resp = NoToken, !.next = "mirror"])
    /\ UNCHANGED <<accounts, memory, authority>>

----------------------------------------------------------------------------
(* mirror_active_auth_into_registry and what follows it. *)

AfterMirror(t) ==
    IF loc[t].op \in {"switch", "rotate"}
    THEN Move(t, "select", [loc[t] EXCEPT !.auth = NoAuth, !.rows = <<>>])
    ELSE Finish(t)

MirrorRead(t) ==
    /\ pc[t] = "mirror"
    /\ IF IsChatgpt(Cached(t))
       THEN Move(t, "mirrorLoad", [loc[t] EXCEPT !.auth = Cached(t)])
       ELSE AfterMirror(t)
    /\ UNCHANGED <<disk, memory, authority>>

MirrorLoad(t) ==
    /\ pc[t] = "mirrorLoad"
    /\ IF accounts # Corrupt /\ RegistryIdOf(loc[t].auth) \in Ids(accounts)
       THEN Move(t, "mirrorSave",
                 [loc[t] EXCEPT !.rows = UpdateIfExists(accounts, loc[t].auth)])
       ELSE AfterMirror(t)
    /\ UNCHANGED <<disk, memory, authority>>

MirrorSave(t) ==
    /\ pc[t] = "mirrorSave"
    /\ accounts' = loc[t].rows
    /\ AfterMirror(t)
    /\ UNCHANGED <<authFile, memory, authority>>

\* switch_active_chatgpt_account: the row is read, then saved as auth.json.
SwitchSelect(t) ==
    /\ pc[t] = "select" /\ loc[t].op = "switch"
    /\ IF accounts # Corrupt /\ loc[t].id \in Ids(accounts)
       THEN Move(t, "activate", [loc[t] EXCEPT !.auth = SavedAuth(accounts, loc[t].id)])
       ELSE Finish(t)
    /\ UNCHANGED <<disk, memory, authority>>

\* rotate_to_next_saved_chatgpt_account: the rows, then the current id.
RotateLoad(t) ==
    /\ pc[t] = "select" /\ loc[t].op = "rotate"
    /\ IF accounts # Corrupt /\ accounts # <<>>
       THEN Move(t, "pick", [loc[t] EXCEPT !.rows = accounts])
       ELSE Finish(t)
    /\ UNCHANGED <<disk, memory, authority>>

RotatePick(t, exhausted) ==
    LET rows == loc[t].rows  current == RegistryIdOf(authFile) IN
    /\ pc[t] = "pick"
    /\ IF Eligible(rows, exhausted, current) # {}
       THEN Move(t, "activate",
                 [loc[t] EXCEPT !.auth = rows[NextEligible(rows, exhausted, current)].auth,
                                !.rows = <<>>])
       ELSE Finish(t)
    /\ UNCHANGED <<disk, memory, authority>>

\* save_auth of the selected row; the caller then reloads.
Activate(t) ==
    /\ pc[t] = "activate"
    /\ authFile' = loc[t].auth
    /\ Move(t, "load", [loc[t] EXCEPT !.auth = NoAuth])
    /\ UNCHANGED <<accounts, memory, authority>>

----------------------------------------------------------------------------
(* UnauthorizedRecovery after a 401: a guarded reload without the lock,     *)
(* then, unless the retried request succeeds, a refresh with it.            *)

RecoverBegin(t) ==
    /\ Start(t, "recover")
    /\ IsChatgpt(Cached(t))
    /\ Move(t, "recover", [Fresh EXCEPT !.op = "recover", !.auth = Cached(t)])
    /\ UNCHANGED <<disk, memory, authority>>

RecoverNext(t, label, l) ==     \* has_next
    /\ IF IsChatgpt(Cached(t)) THEN Move(t, label, l) ELSE Finish(t)
    /\ UNCHANGED <<disk, memory, authority>>

RecoverReload(t) == pc[t] = "recover" /\ RecoverNext(t, "guard", loc[t])

RecoverRefresh(t) ==
    pc[t] = "retry" /\ RecoverNext(t, "wait", [Fresh EXCEPT !.op = "authority"])

RecoverSatisfied(t) ==
    /\ pc[t] = "retry"
    /\ Finish(t)
    /\ UNCHANGED <<disk, memory, authority>>

----------------------------------------------------------------------------
(* handle_remove_chatgpt_account: no lock until it switches. *)

RemoveBegin(t, id) ==
    /\ Start(t, "remove")
    /\ Move(t, "removeLoad",
            [Fresh EXCEPT !.op = IF RegistryIdOf(authFile) = id THEN "removeActive"
                                                               ELSE "removeOther",
                          !.id = id])
    /\ UNCHANGED <<disk, memory, authority>>

RemoveLoad(t) ==
    /\ pc[t] = "removeLoad"
    /\ IF accounts # Corrupt /\ loc[t].id \in Ids(accounts)
       THEN Move(t, "removeSave", [loc[t] EXCEPT !.rows = Retain(accounts, loc[t].id)])
       ELSE Finish(t)
    /\ UNCHANGED <<disk, memory, authority>>

RemoveSave(t) ==
    /\ pc[t] = "removeSave"
    /\ accounts' = loc[t].rows
    /\ IF loc[t].op = "removeActive" THEN Move(t, "removeNext", Fresh) ELSE Finish(t)
    /\ UNCHANGED <<authFile, memory, authority>>

\* The first remaining row becomes the target of a switch.
RemoveNext(t) ==
    /\ pc[t] = "removeNext"
    /\ IF accounts # Corrupt /\ accounts # <<>>
       THEN Move(t, "wait", [Fresh EXCEPT !.op = "switch", !.id = accounts[1].id])
       ELSE Finish(t)
    /\ UNCHANGED <<disk, memory, authority>>

----------------------------------------------------------------------------
(* start_add_account_login: upsert the active account, log in through the   *)
(* browser, upsert what auth.json then holds, ask the app for a reload.     *)

\* upsert_active_chatgpt_account: auth.json, then accounts.json.
LoginStart(t) ==
    /\ Start(t, "login")
    /\ IF IsChatgpt(authFile)
       THEN Move(t, "upsertLoad", [Fresh EXCEPT !.op = "login", !.auth = authFile])
       ELSE Move(t, "browser", Fresh)
    /\ UNCHANGED <<disk, memory, authority>>

UpsertLoad(t) ==
    /\ pc[t] = "upsertLoad"
    /\ \/ /\ accounts # Corrupt
          /\ Move(t, "upsertSave", [loc[t] EXCEPT !.rows = Upsert(accounts, loc[t].auth)])
       \/ /\ accounts = Corrupt /\ loc[t].op = "login"
          /\ Move(t, "browser", Fresh)
    /\ UNCHANGED <<disk, memory, authority>>

UpsertSave(t) ==
    /\ pc[t] = "upsertSave"
    /\ accounts' = loc[t].rows
    /\ Move(t, IF loc[t].op = "login" THEN "browser" ELSE "load", Fresh)
    /\ UNCHANGED <<authFile, memory, authority>>

\* The login server's callback writes auth.json without refresh_lock.
LoginCallback(t, acct) ==
    /\ pc[t] = "browser"
    /\ issued < MaxTokens
    /\ live' = live \cup {NewToken(acct)}
    /\ issued' = issued + 1
    /\ authFile' = [acct |-> acct, tok |-> NewToken(acct)]
    /\ Move(t, "loginUpsert", Fresh)
    /\ UNCHANGED <<accounts, memory, strayed>>

LoginCancelled(t) ==
    /\ pc[t] = "browser"
    /\ Finish(t)
    /\ UNCHANGED <<disk, memory, authority>>

LoginUpsert(t) ==
    /\ pc[t] = "loginUpsert" /\ IsChatgpt(authFile)
    /\ Move(t, "upsertLoad", [Fresh EXCEPT !.op = "added", !.auth = authFile])
    /\ UNCHANGED <<disk, memory, authority>>

\* Nothing was saved (no credentials any more, or a registry that does not
\* parse): an error is shown and no reload is asked for.
LoginUnsaved(t) ==
    /\ \/ pc[t] = "loginUpsert" /\ ~IsChatgpt(authFile)
       \/ pc[t] = "upsertLoad" /\ loc[t].op = "added" /\ accounts = Corrupt
    /\ outdated' = IF Cached(t) = authFile THEN outdated ELSE outdated \cup {ProcOf[t]}
    /\ Finish(t)
    /\ UNCHANGED <<disk, cache, failure, authority>>

----------------------------------------------------------------------------
(* The remaining operations take no lock. *)

Reload(t) ==
    /\ Start(t, "reload")
    /\ Move(t, "set", [Fresh EXCEPT !.auth = authFile])
    /\ UNCHANGED <<disk, memory, authority>>

LoginWithApiKey(t) ==
    /\ Start(t, "apikey")
    /\ authFile' = ApiKeyAuth
    /\ Move(t, "load", Fresh)
    /\ UNCHANGED <<accounts, memory, authority>>

\* logout_with_revoke reads the cache, then awaits the revoke request.
LogoutBegin(t) ==
    /\ Start(t, "logout")
    /\ Move(t, "revoke", [Fresh EXCEPT !.op = "logout", !.auth = Cached(t)])
    /\ UNCHANGED <<disk, memory, authority>>

\* The revoke request may fail; the logout goes on anyway.
LogoutRevoked(t) ==
    /\ pc[t] = "revoke"
    /\ \/ IsChatgpt(loc[t].auth) /\ live' = live \ {loc[t].auth.tok}
       \/ live' = live
    /\ Move(t, "delete", [Fresh EXCEPT !.op = "logout"])
    /\ UNCHANGED <<disk, memory, issued, strayed>>

\* Mutant: logout does not reload.
LogoutDelete_NoReload(t) ==
    /\ pc[t] = "delete"
    /\ authFile' = NoAuth
    /\ Finish(t)
    /\ UNCHANGED <<accounts, memory, authority>>

LogoutDelete(t) ==
    /\ pc[t] = "delete"
    /\ authFile' = NoAuth
    /\ Move(t, "load", loc[t])
    /\ UNCHANGED <<accounts, memory, authority>>

\* The process dies and is started again.  A crash in the middle of
\* save_accounts_file (truncate, then write) leaves a file that does not parse.
Crash(p) ==
    LET mine == {t \in Tasks : ProcOf[t] = p} IN
    /\ "crash" \in Faults
    /\ \/ UNCHANGED accounts
       \/ /\ \E t \in mine : pc[t] \in {"mirrorSave", "removeSave", "upsertSave"}
          /\ accounts' = Corrupt
    /\ cache' = [cache EXCEPT ![p] = authFile]
    /\ failure' = [failure EXCEPT ![p] = NoAuth]
    /\ lock' = [lock EXCEPT ![p] = NoTask]
    /\ pc' = [t \in Tasks |-> IF t \in mine THEN "idle" ELSE pc[t]]
    /\ loc' = [t \in Tasks |-> IF t \in mine THEN Fresh ELSE loc[t]]
    /\ strayed' = strayed \cup {loc[t].resp.owner :
                      t \in {u \in mine : pc[u] \in {"persist", "persistSave"}}}
    /\ UNCHANGED <<authFile, live, issued, outdated>>

----------------------------------------------------------------------------
KnownIds == {RegistryIdFor(acct) : acct \in Accounts}

Locked(t) == LockedRefresh(t) \/ LockedRecover(t) \/ LockedSelect(t)

Authority(t) == AuthorityRotates(t) \/ AuthorityRejects(t) \/ AuthorityFails(t)

\* The steps of an operation that wait for nobody but the file system.
Continue(t) ==
    \/ ReloadLoad(t) \/ ReloadSet(t) \/ GuardLoad(t) \/ GuardCompare(t)
    \/ Attempt(t) \/ LookUpFailure(t) \/ PersistLoad(t) \/ PersistSave(t)
    \/ MirrorRead(t) \/ MirrorLoad(t) \/ MirrorSave(t)
    \/ SwitchSelect(t) \/ RotateLoad(t) \/ Activate(t)
    \/ \E exhausted \in SUBSET KnownIds : RotatePick(t, exhausted)
    \/ RecoverReload(t) \/ RemoveLoad(t) \/ RemoveSave(t) \/ RemoveNext(t)
    \/ UpsertLoad(t) \/ UpsertSave(t) \/ LoginUpsert(t) \/ LoginUnsaved(t)
    \/ LogoutRevoked(t) \/ LogoutDelete(t)

Begin(t) ==
    \/ RequestRefresh(t) \/ RequestRotate(t)
    \/ \E id \in KnownIds : RequestSwitch(t, id) \/ RemoveBegin(t, id)
    \/ RecoverBegin(t) \/ LoginStart(t) \/ LogoutBegin(t)
    \/ Reload(t) \/ LoginWithApiKey(t)

\* What the user or the service does in the middle of an operation.
User(t) ==
    \/ \E acct \in Accounts : LoginCallback(t, acct)
    \/ LoginCancelled(t) \/ RecoverSatisfied(t) \/ RecoverRefresh(t)

Next ==
    \/ \E t \in Tasks : Begin(t) \/ User(t) \/ Locked(t) \/ Authority(t) \/ Continue(t)
    \/ \E p \in Procs : Crash(p)

Spec == Init /\ [][Next]_vars

\* tokio runs every ready task, its semaphore is first-in first-out, and an
\* HTTP request ends with an answer or an error.
Fairness ==
    \A t \in Tasks :
        WF_vars(Continue(t)) /\ WF_vars(Authority(t)) /\ SF_vars(Locked(t))

FairSpec == Spec /\ Fairness

----------------------------------------------------------------------------
(* Properties. *)

Holds(t) == pc[t] \notin {"idle", "wait"} /\ loc[t].op \in LockOps

\* refresh_lock serialises refresh, switch and rotate: of the tasks of one
\* process at most one is between taking the lock and dropping it.
RefreshExclusive ==
    \A t, u \in Tasks : Holds(t) /\ Holds(u) /\ ProcOf[t] = ProcOf[u] => t = u

\* A remembered permanent failure is always about the cached credential, so
\* new credentials are never refused a refresh because of the old ones.
FailureScoped ==
    \A p \in Procs : failure[p] # NoAuth => failure[p] = cache[p]

\* accounts.json never has two rows with one id, nor a row that restores
\* another account than the one it is filed under.
RegistryWellKeyed == accounts # Corrupt => WellKeyed(accounts)

\* The parts that make the four invariants above inductive.
CopiesWellKeyed == \A t \in Tasks : WellKeyed(loc[t].rows)

CarriesTokens(t) ==
    /\ pc[t] \in {"memo", "request", "mirrorLoad", "upsertLoad", "activate"} =>
           loc[t].auth \in ChatgptAuths
    /\ pc[t] \in {"persist", "persistSave"} => loc[t].resp \in Tokens

HoldersHoldLock == \A t \in Tasks : Holds(t) => lock[ProcOf[t]] = t

IndInv ==
    /\ TypeOK /\ FailureScoped /\ RegistryWellKeyed /\ CopiesWellKeyed
    /\ HoldersHoldLock /\ \A t \in Tasks : CarriesTokens(t)

\* No record anywhere pairs one account's identity with another account's
\* token, as long as no reload has published a credential that a later write
\* of auth.json had already replaced.
TokensMatchAccount ==
    outdated = {} =>
        /\ IsChatgpt(authFile) => authFile.tok.owner = authFile.acct
        /\ accounts # Corrupt =>
              \A i \in DOMAIN accounts : accounts[i].auth.tok.owner = accounts[i].auth.acct

\* The active account's row may lag behind auth.json; the rows of all other
\* accounts hold a token the authority still accepts, so switching to one of
\* them does not end in "Please sign in again" (while no reload was overtaken).
SavedTokensLive ==
    outdated = {} /\ accounts # Corrupt =>
        \A i \in DOMAIN accounts :
            \/ accounts[i].auth.tok \in live
            \/ accounts[i].auth.acct \in strayed
            \/ IsChatgpt(authFile) /\ authFile.acct = accounts[i].auth.acct

\* A refresh is refused for good only when a rotated token was lost on the
\* way (while no reload was overtaken).
NoSpuriousFailure ==
    outdated = {} => \A p \in Procs : failure[p] # NoAuth => failure[p].acct \in strayed

\* After a write of auth.json and before the set_cached_auth it leads to.
Reloading(t) ==
    \/ pc[t] \in {"load", "set", "loginUpsert"}
    \/ pc[t] \in {"upsertLoad", "upsertSave"} /\ loc[t].op = "added"

\* What one process has cached is what auth.json holds, unless the task that
\* changed auth.json is on its way to the reload, a reload was overtaken by a
\* later one, or a login could not save its account.
CacheCoherent ==
    outdated = {} =>
        \A p \in Procs : \/ cache[p] = authFile
                         \/ \E t \in Tasks : ProcOf[t] = p /\ Reloading(t)

DiskTokens(acct) ==
    {auth.tok.n : auth \in
        {a \in {authFile} \cup {accounts[i].auth : i \in DOMAIN accounts} :
            IsChatgpt(a) /\ a.acct = acct}}

\* The newest refresh token that reached the disk for an account stays on
\* disk: neither a crash nor a switch falls back to an already-rotated one
\* (while no reload was overtaken).
NewestTokenKept ==
    [][outdated = {} /\ accounts # Corrupt /\ accounts' # Corrupt =>
        \A acct \in Accounts : \A n \in DiskTokens(acct) :
            \E m \in DiskTokens(acct)' : m >= n]_vars

\* A switch never puts an already-rotated refresh token back into auth.json.
SwitchRestoresLiveToken ==
    [][\A t \in Tasks :
        pc[t] = "activate" /\ pc'[t] = "load" => authFile'.tok \in live]_vars

\* After a logout auth.json comes back through a login or a switch, or with
\* what a refresh in flight had read before the logout deleted it; a refresh
\* that finds it deleted does not write it.
SignsIn ==
    \/ authFile' = ApiKeyAuth
    \/ \E t \in Tasks : pc[t] \in {"browser", "activate", "persistSave"} /\ pc'[t] # pc[t]

LogoutSticks == [][authFile = NoAuth /\ authFile' # NoAuth => SignsIn]_vars

\* When a logout returns, the process has no credential.
LogoutObserved ==
    [][\A t \in Tasks : pc[t] = "set" /\ loc[t].op = "logout" /\ pc'[t] = "idle" =>
        cache'[ProcOf[t]] = NoAuth \/ \E p \in Procs : Crash(p)]_vars

\* A removed account returns to accounts.json only through /addaccount.
RemovedStaysRemoved ==
    [][accounts # Corrupt /\ accounts' # Corrupt /\ ~(Ids(accounts') \subseteq Ids(accounts)) =>
        \E t \in Tasks : pc[t] = "upsertSave" /\ pc'[t] # pc[t]]_vars

\* Every operation that asked for refresh_lock gets it and returns.
LockedOpsFinish ==
    \A t \in Tasks : pc[t] = "wait" ~> pc[t] = "idle"
----------------------------------------------------------------------------
(* What holds in addition for one process on its CODEX_HOME that runs        *)
(* nothing but the operations that write auth.json under refresh_lock.      *)

SoleProcess == \A p, q \in Procs : p = q
LockedOnly == \A t \in Tasks : Ops[t] \subseteq {"refresh", "recover", "switch", "rotate", "reload"}

HolderPCs == {"guard", "compare", "load", "set", "attempt", "memo", "request", "persist",
              "persistSave", "mirror", "mirrorLoad", "mirrorSave", "select", "pick", "activate"}

\* The row of the active account, if it has one, is level with auth.json.
Mirrored ==
    accounts # Corrupt =>
        \A i \in DOMAIN accounts :
            accounts[i].id = RegistryIdOf(authFile) => accounts[i].auth = authFile

\* A task that does not hold the lock is only on its way to it or in an unlocked
\* reload; what the holder took from auth.json, the cache or accounts.json is still there.
HolderCurrent(t) ==
    /\ ~Holds(t) =>
        /\ pc[t] \in {"idle", "wait", "recover", "guard", "set", "retry"}
        /\ pc[t] = "wait" => loc[t].next = "idle"
        /\ pc[t] = "set" => loc[t].next \in {"idle", "retry"}
    /\ Holds(t) =>
        /\ pc[t] \in HolderPCs
        /\ loc[t].next = "retry" => pc[t] = "compare"
        /\ pc[t] = "guard" => loc[t].op = "refresh"
        /\ pc[t] \in {"compare", "set", "memo", "request", "persist", "persistSave",
                      "mirrorLoad", "mirrorSave"} => loc[t].auth = authFile
        /\ pc[t] \in {"persist", "persistSave"} =>
              /\ IsChatgpt(authFile)
              /\ loc[t].resp \in live /\ loc[t].resp.owner = authFile.acct
              /\ loc[t].resp.n \in authFile.tok.n..issued
        /\ pc[t] = "mirrorSave" =>
              /\ IsChatgpt(authFile) /\ accounts # Corrupt
              /\ loc[t].rows = UpdateIfExists(accounts, authFile)
        /\ pc[t] \in {"select", "pick", "activate"} => Mirrored
        /\ pc[t] = "pick" => accounts # Corrupt /\ loc[t].rows = accounts
        /\ pc[t] = "activate" =>
              /\ accounts # Corrupt
              /\ \E i \in DOMAIN accounts : accounts[i].auth = loc[t].auth

\* auth.json has a token of its account, good unless it was lost or its successor is
\* about to be saved, and the account has a row.
ActiveInv ==
    IsChatgpt(authFile) =>
        /\ authFile.tok.owner = authFile.acct /\ authFile.tok.n <= issued
        /\ \/ authFile.tok \in live \/ authFile.acct \in strayed
           \/ \E t \in Tasks : pc[t] \in {"persist", "persistSave"}
        /\ accounts # Corrupt => RegistryIdOf(authFile) \in Ids(accounts)

\* A row has a token of its account, good unless lost or older than that of auth.json.
RowInv(row) ==
    /\ row.auth.tok.owner = row.auth.acct /\ row.auth.tok.n <= issued
    /\ IF IsChatgpt(authFile) /\ authFile.acct = row.auth.acct
       THEN row.auth.tok.n <= authFile.tok.n
       ELSE row.auth.tok \in live \/ row.auth.acct \in strayed

LockedInv ==
    outdated = {} =>
        /\ \A p \in Procs : \/ cache[p] = authFile
                            \/ \E t \in Tasks : Holds(t) /\ pc[t] \in {"load", "set"}
        /\ NoSpuriousFailure /\ ActiveInv
        /\ \A t \in Tasks : HolderCurrent(t)
        /\ accounts # Corrupt => \A i \in DOMAIN accounts : RowInv(accounts[i])
=============================================================================
