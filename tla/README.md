# TLA+ models of Super Codex

Super Codex is a fork of the Codex CLI: a Rust workspace (`codex-rs/`) with a
terminal UI, an app server, an agent core and a login crate. This directory
models the parts of it whose correctness depends on the order in which tasks,
processes, answers and crashes meet, and proves what can be proved of them.
Paths below are relative to `codex-rs/`.

## Inventory

| Component | State | Operations | Talks to | What is hard |
|---|---|---|---|---|
| Account registry (`login/src/auth/account_registry.rs`) | `accounts.json`: ordered rows, id and credential | upsert, update-only, remove, switch, rotate | auth manager, TUI | unlocked read-modify-write of a file shared by tasks and processes; truncate-then-write |
| Auth manager (`login/src/auth/manager.rs`, `storage.rs`, `revoke.rs`, `server.rs`) | cached credential, permanent-failure memo, `refresh_lock`, `auth.json` | guarded refresh, 401 recovery, mirror, switch, rotate, login, logout, API key, reload | token authority, registry, every request | single-use refresh tokens; writers that do not take the lock; crashes between rotation and save |
| Account commands (`tui/src/app/account_management.rs`, `tui/src/chatwidget.rs`) | none of their own | `/accounts`, `/addaccount`, `/removeaccount` | registry, auth manager | run beside a turn's refreshes |
| Sampling loop (`core/src/session/turn.rs`, `core/src/client.rs`) | retries, transport, exhausted accounts | send, retry, fall back, rotate | auth manager, service | two resets of the retry budget; user switches mid-loop |
| Turn lifecycle (`core/src/tasks/mod.rs`, `core/src/state/turn.rs`, `core/src/session/handlers.rs`) | the active turn, its tasks and `TurnState` | spawn, start, steer, interrupt, replace, finish, schedule | submission loop, guardian, model | lock released between the parts of one operation; a task that finishes while it is aborted |
| Input queues, mailbox (`core/src/session/mod.rs`, `core/src/agent/mailbox.rs`) | `pending_input`, `idle_pending_input`, mail, delivery phase | queue, drain, defer, wake | turn lifecycle, other agents | mail after the final answer; wake-ups |
| Agent registry and control (`core/src/agent/registry.rs`, `control.rs`, `thread_manager.rs`) | spawn slots, agent paths, the thread map | spawn, resume, close, send, unload | collaboration tools, app server | limit under concurrent spawns; a release that races a resume; cancelled calls |
| Network approval, guardian (`core/src/tools/network_approval.rs`, `core/src/guardian`) | registrations, shared prompts, session caches, outcomes | register, ask, answer, cache, blame | proxy, user, turn lifecycle | one lock per map; wake-ups; a prompt whose owner is dropped |
| Unified exec, tool runtime (`core/src/unified_exec`, `core/src/tools/orchestrator.rs`, `parallel.rs`) | process store, exit watchers | start, store, prune, poll, terminate, cancel | network approval, sandbox | cancellation at any await; the store at its limit |
| Rollout recorder (`rollout/src/recorder.rs`) | command channel, pending items, JSONL file | record, persist, flush, shutdown, resume | session | failed and torn writes, retries, crashes |
| Memories jobs (`state/src/runtime/memories.rs`, `core/src/memories`) | `jobs` and `stage1_outputs` tables | scan, claim, finish, consolidate, heartbeat, pollute, clear | every root session of every process | leases that lapse, takeover, watermarks |
| App server, TUI rendering, MCP, plugins, sandboxing, apply-patch, exec policy | — | — | — | I/O, external protocols, text algorithms |

What makes each of them correct:

* registry: ids stay distinct, a row restores the account it is filed under, a
  removed row stays removed;
* auth manager: one refresh at a time, no credential mixes two accounts, saved
  tokens stay usable, a failure is remembered only for the credential it
  belongs to, the cache follows the file, a logout is not undone by a later
  answer, whoever asks for the lock gets it;
* sampling loop: it ends, within its budget, and gives up only when it must;
* turns and queues: an active turn always has somebody working for it, no task
  escapes an abort, every turn ends with an event, mail wakes an idle session;
* agents: the counter is exactly the slots in use, a path has one holder, the
  limit holds for the threads that are loaded;
* network approval and exec: every request is answered, the caches do not
  contradict each other, a recorded refusal reaches its call, no process and no
  registration is left without somebody who will clean it up;
* rollout: every item once and in order, a confirmed item is in the file and
  survives a crash, a reader loses no more than a torn write explains, every
  barrier is answered;
* memories: nothing extracted is skipped by the consolidation, the baseline is
  what was consolidated, a worker that lost its lease changes nothing, the
  pipeline comes to rest.

## Modules

| Module | Models | Extends |
|---|---|---|
| `AccountRegistry` | credentials, rows, the pure operations on rows | |
| `AuthManager` | the auth manager, registry file, TUI commands, token authority, crashes | `AccountRegistry` |
| `UsageLimitRotation` | `run_sampling_request` | `AccountRegistry` |
| `TurnLifecycle` | turns, tasks, input queues, mailbox | |
| `MemoryJobs` | the memory pipeline: two kinds of leased job in SQLite, workers, crashes, time | |
| `Transcript` | what a rollout recorder promises (abstract) | |
| `RolloutWriter` | the rollout recorder; implements `Transcript` | |
| `AgentRegistry` | spawn slots, paths and the thread map under concurrent tool calls | |
| `NetworkApproval` | the network approval service | |
| `UnifiedExec` | commands, their process store and registrations, composed with the service | `NetworkApproval` |
| `AccountRegistryProofs`, `AuthManagerProofs`, `UsageLimitRotationProofs`, `TurnLifecycleProofs`, `MemoryJobsProofs`, `RolloutWriterProofs`, `AgentRegistryProofs`, `UnifiedExecProofs` | theorems | the module they are about |
| `MC*` | model values and small instances for TLC | the module they are about |

### AuthManager

A credential is `[acct, tok]`: the identity the record states and the refresh
token it carries; a token records its true owner, so mixing up two accounts is
a visible state. `authFile` and `accounts` are the two files, `cache` and
`failure` the two halves of `CachedAuth`, `lock` is `refresh_lock`. A task runs
one operation at a time; `pc` is where it stands, `loc` its locals.
The runtime has several worker threads, so an operation is cut where the code
awaits (lock, HTTP request, browser, revoke) and also at each access to what
tasks share: every load and every save of `auth.json` and `accounts.json`, every
read and every write of the cache is a step of its own. `persist_tokens` is
`PersistLoad`, then `PersistSave`; `reload` is `ReloadLoad`, then `ReloadSet`;
`reload_if_account_id_matches` is `GuardLoad`, `GuardCompare`, `ReloadSet` (without
`GuardCompare` in a 401 recovery, which goes on alike after both outcomes); a
switch is `MirrorRead`, `MirrorLoad`, `MirrorSave`, `SwitchSelect`, `Activate`
and a reload. Only the first read after taking the lock is part of the step that
takes it. One save of `auth.json` is atomic, so a truncated `auth.json` is not
represented; a truncated `accounts.json` is (`Corrupt`).

`refresh_lock` does not cover everything: the reload of a 401 recovery,
`ReloadAuthRequested`, logins and logouts take no lock. A reload may therefore
publish a credential that a later write has already replaced, and nothing
corrects the cache afterwards. The history variable `outdated` records the
processes to which that happened, and those whose login could not be saved
(`LoginUnsaved`). `CacheCoherent` and the four properties about tokens hold as
long as it is empty, that is, until the first overtaken reload. The premise is
needed: TLC refutes each of them without it ("Races outside the run list").
`LockedOpsFinish`, `RefreshExclusive`, `FailureScoped`, `RegistryWellKeyed` and
`LogoutSticks` do not have it.

The token authority is external: a refresh token is good for one refresh and
the answer carries a new one. `Faults` says what may go wrong: `unreachable`
(error before the authority acts), `lost` (error after it rotated the token),
`crash`. The history variable `strayed` records the accounts whose newest token
never reached the disk: nothing in the client can help those, and the
properties about tokens exempt them. SUPERCODEX.md makes the same exemption.

`RequestSwitch` takes any id, as the popup may be older than the registry.
`RotatePick` takes any set of exhausted accounts, so it over-approximates its
one caller; the caller is `UsageLimitRotation`.

### UsageLimitRotation

One loop with its retry counter, transport flag and exhausted set, against a
service that may answer anything: success, a fatal error, a retryable error
and, for an account at its limit, `UsageLimitReached`. The locked rotation is
one step and cache and file are one variable; `CacheCoherent` of `AuthManager`
is what justifies this for one process outside a login, as long as none of its
reloads was overtaken. A rotation that fails only logs: the loop returns
`UsageLimitReached`, as it does with no account left. The history variable
`rotateFailed` tells the two apart for `SurfacedWhenSpent`.

### TurnLifecycle

`turn` is `Session.active_turn`. A `TurnState` is an object of its own
(`pending` is indexed by `Objs`) because code keeps references to one that is
no longer the active turn's. Actors are the submission loop, the guardian's
abort task and the scheduler every finished turn leaves behind; tasks run
beside them. A step is one acquisition of a lock; `Collect` joins the idle
queue and `get_pending_input`, which no other actor can tell apart, and
`FinishRemove` joins the cancellation check with the removal: a cancellation
always follows the `Take` that empties the active turn, so the step can be
moved before it. Turn ids are used again once nothing refers to them
(`Unused`), which makes `MaxTurns` a bound on turns at a time and not on
history.

`remove_task` drops the finishing task's own `AbortOnDropHandle`, so the task is
cancelled at the first await that is not ready. Whether one is ready the model
leaves open: `Die` may end such a task at every step from there on, before
`TurnComplete` (`FinishComplete`) or between it and the scheduler
(`FinishSchedule`). What the code loses then is recorded: the turn gets the end
`"cut"` in `outcome`, and mail in the mailbox at that moment is `stranded`.
`TurnsEnd` and `MailWakes` exempt exactly those: a turn lost in another way, or
mail that comes after a cut, would violate them.

Review, undo and user-shell tasks have no action of their own (like
compaction they refuse or ignore steering). Approval channels, input blocked
by a hook (and `prepend_pending_input`) and the order of items are left out.

### MemoryJobs

A worker is a root session that starts: it prunes (`Begin`), scans, claims
phase-1 jobs one transaction at a time, ends each extraction in one of three
ways, claims the global job, selects, and ends the consolidation. One step is
one transaction. A lease is a flag: `LeaseExpires` clears it when the holder is
gone, `LeaseLapses` while the holder still works, which is what a suspended
machine or a slow extraction does. The clock counts in units of
`min_rollout_idle_hours`, so that "idle" and "too old" are both reachable.
`seen` and `base` are history variables: the rows the last successful
consolidation could choose from and those it chose. Ranking is any choice of
the right size. The batch size of the prune (200) and the scan limit are above
every instance.

### Transcript and RolloutWriter

`Transcript` has the items submitted, those stored, the places of the stored
ones that a reader skips (`unread`), the header, whether the last write was torn,
how many items a barrier confirmed and what the last reader got back. It promises
order, no loss and no repetition of what is stored, that a confirmed item is
stored, and that a reader skips a line only if its write followed a torn one. It
does not promise that a confirmed item can be read: `write_line` does not repair
a torn line, and the code confirms the one glued to it.

`RolloutWriter` has the channel, the callers that wait, the writer's place in
`write_pending_with_recovery` and the file as lines plus an unfinished fragment.
A line glued to a fragment is in the file but not `readable`, and
`load_rollout_items` skips it (`LoadRolloutItems`). The refinement mapping reads
`stored`, `unread` and `header` off the file, maps `torn` to the fragment and keeps
the three history variables; every step of the writer is a `Tear`, `WriteHeader`, `Store`,
`Confirm` or a stutter, a crash stutters or tears and `Resume` is `Reload`: the
session starts from the readable items, the file keeps the others. A
`record_items` call carries one item. SessionMeta items that a session records
later (`handlers.rs:897`) are items like the others; `Meta` is the writer's own.

### AgentRegistry

A task is one tool call of any agent; its steps are the atomic operations of
`registry.rs` and of the thread map, in the order of `control.rs`. It may be
cancelled wherever it awaits (`Abandon`, `CancelClose`). Creating a thread and
committing the reservation have no await between them, so no cancellation
separates them. Two history variables name what the code does lose: `leaked`
counts slots lost when an agent is registered over its own entry (two resumes
of one unloaded agent), `orphaned` the agents whose entry was released while
they were loaded again (a release that was under way when they were resumed).
`SlotsCounted` and `LiveBounded` are exact up to those. An agent is resumed by
the root or by its old parent; a close looks two levels down.

### NetworkApproval and UnifiedExec

`NetworkApproval` is the service: each of its maps has a mutex of its own, so
each access is a step. What an answer makes the owner of a prompt do is a plan,
a sequence of such steps in the order of the code (`Plan`). `unregister_call`
touches two maps and is one step: nothing reads both.
`UnifiedExec` composes it with the calls that register with it: `exec_command`
calls with the process store, and one-shot calls that finish with their
command. A call stands for its process id; the draw of an unused id from 99,000
is left out. `leaked` is a history variable: processes and registrations whose
clean-up a cancelled call left undone. `terminate` is reached through the last
reference, so a process of a call cancelled before `store_process` ends too.
`made` fixes at the start which requests and calls a behaviour may make, to
keep instances small.

## Runs

| Run | States | Shows |
|---|---|---|
| `auth_locked` | 84,696 | with the operations that write `auth.json` under the lock, beside unlocked reloads, until one of those is overtaken: records never mix accounts (`TokensMatchAccount`), inactive accounts keep a live token (`SavedTokensLive`), "sign in again" appears only after a real loss (`NoSpuriousFailure`), the newest token on disk is never dropped (`NewestTokenKept`); in any case every operation ends (`LockedOpsFinish`) |
| `auth_all` | 2,177,225 | with the unlocked operations beside the locked ones and every fault: lock exclusion, scope of failures, keys of the registry, cache against file until a reload is overtaken or a login is not saved (`CacheCoherent`), and that a deleted `auth.json` comes back only through a login, a switch or a refresh that had loaded it before (`LogoutSticks`) |
| `rotation` | 5,298 | retry budget, termination, and that the limit is shown to the user only when no other account is left or the rotation failed |
| `turns` | 53,489 | reservations are served, running tasks can be aborted, turns end and mail wakes the session unless a finishing task is cancelled by the drop of its own handle |
| `memories` | 822,430 | nothing extracted is missed (`NothingMissed`), marks on rows are those of the last consolidation (`BaselineConsolidated`), a late worker cannot store an older memory (`OutputAtWatermark`) |
| `memories_settle` | 183,713 | after the last event the pipeline comes to rest (`Settles`) |
| `rollout` | 1,004,995 | every item in one place and in order (`NothingLost`), the writer's metadata line first and once (`MetaFirst`), the refinement (`ImplementsTranscript`), every barrier answered (`BarrierAnswered`) |
| `agents` | 1,196,488 | the slot counter (`SlotsCounted`), the limit on loaded agents (`LiveBounded`), path reservations (`PathsReserved`) |
| `exec_network` | 162,673 | consistent caches (`DecisionsExclusive`), every request answered (`RequestsAnswered`), a user's refusal recorded for a one-shot call reaches it (`RefusalKept`), no lost registration or process (`RegistrationsOwned`, `NoOrphans`) |

Three runs are expected to fail; each shows the code departing from a sentence of
its own documentation (see `findings` in `PROJECT.json`):

* `rotation_bounce` — the set of exhausted accounts is filled with raw ids and
  searched with `account:<id>`; two exhausted accounts are tried in turns.
* `auth_login_during_refresh` — a refresh answer is merged into the record a
  browser login has just written.
* `memories_polluted` — a thread polluted while the consolidation that selected
  it runs joins the baseline, and nothing is enqueued to forget it.

### Races outside the run list

The modules state seven more properties that the code does not keep, and some of
the checked ones have an exemption for what it does lose. These have no cfg of
their own; TLC refutes each on the instance given here.

| Property | Instance | What happens |
|---|---|---|
| `AuthManager.SwitchRestoresLiveToken` | `AuthLoginDuringRefresh.cfg` with `Procs = {p1, p2}`, `TwoProcesses`, `RefreshAndSwitch` | a stale cache is mirrored over a row the other process refreshed (`manager.rs:1785`) |
| the same | `AuthLocked.cfg` with `Spec` and `Faults = {"unreachable"}` | the same within one process: a 401 recovery reads `auth.json` (1381) before a refresh saves and reloads, and caches what it read (1396) after |
| `TokensMatchAccount`, `SavedTokensLive`, `NoSpuriousFailure`, `NewestTokenKept` without `outdated = {}` | `AuthLocked.cfg` with `Spec` | the overtaken reload leaves a replaced credential in the cache; it is then refreshed or mirrored: one account's token in the other's record, a dead token in an inactive row, a permanent failure with nothing lost, the newest token overwritten |
| `CacheCoherent` without `outdated = {}` | `AuthAll.cfg` | of two reloads the one that loaded first sets last (`manager.rs:1368`, `1369`); or a login is not saved and asks for no reload (`chatwidget.rs:9278`) |
| `AuthManager.LogoutObserved` | `AuthLoginDuringRefresh.cfg` with `RefreshAndLogout` | a logout deletes `auth.json` (1692) between the load (730) and the save (745) of `persist_tokens`, which writes it again |
| `AuthManager.RemovedStaysRemoved` | `AuthLoginDuringRefresh.cfg` with `RefreshAndRemove` | a lost update brings a removed row back (`account_registry.rs:198`) |
| `SurfacedWhenSpent` without `~rotateFailed` | `Rotation.cfg` | the rotation fails, is logged (`turn.rs:1157`), and the user is shown the limit with accounts left |
| `TurnLifecycle.OneTask` | `Turns.cfg` with `UserOps = {i1, i2}`, `MaxInterrupts = 0` | a reservation taken over by a user turn leads to two tasks in one turn, against the `debug_assert!`s at `tasks/mod.rs:283` and `299` |
| `TurnsEnd` without the end `"cut"`, `MailWakes` without `stranded` | `Turns.cfg` | a finishing task drops its own abort handle (`tasks/mod.rs:470`) and is cancelled before `TurnComplete` (610) or the scheduler (617) |
| `RolloutWriter.ConfirmedLoadable` | `Rollout.cfg` | the first write is torn, the retry glues the metadata line to the fragment: `flush` reports success and the session cannot be loaded |
| `RolloutWriter.ConfirmedReadable` | `Rollout.cfg` | the same for an item: `flush` confirms it and the loader skips its line (`recorder.rs:854`) |
| `MemoryJobs.OneConsolidation` | `Memories.cfg` | a lease lapses, another worker takes the job over, and until its next heartbeat the first goes on (`core/src/memories/README.md:73`: "so only one consolidation runs at a time") |

### Bounds

Two accounts and two tasks: every hazard found involves an active and another
account, and a reader and a writer. `MaxTokens` 3 leaves one rotation (or login)
after the two initial tokens, enough for an account to be refreshed, left and
returned to, for a token to be lost, and for each of the races above; the
theorems have no such bound. `auth_all` makes one of the two accounts
one without an account id, which takes the other branch of
`account_registry_id_for_auth` and of the guarded reload; it has every
operation but the rotation, which differs from a switch only in how it picks its
row (with rotations and a second refreshing task: 4,674,119 states, no error). `rotation`
starts from four registries (empty, one, two, three accounts, one of them
without an account id), `MaxRetries` 2 (below, at and above the boundary), one
user switch. `MaxLimited` is 1 there: with two accounts at their limit the loop
need not return, which is `rotation_bounce`. `turns` has three turns at a time
(one being aborted, one finishing, one starting), one user operation, one
triggering mail and one interrupt; its three invariants were also checked with
two user operations (3,019,129 states).

`memories` has two threads and two workers, one job at a time each
(`MaxRunning`, `MaxSelected`, `Retries` 1), a clock of three units and two
events, where an event is a turn, a mode change, a citation, an ageing, a
reset, a crash or a lapse; `memories_settle` has one thread and three events.
Threads and workers are symmetric in the invariant run only. `rollout` has two
items, two callers, a channel of two, three submissions, two faults (both
attempts of one command, or one each of two) and one crash. `agents` has three
agents and two calls at a limit of two, so that the limit is reached while an
agent is being replaced, and one path. `exec_network` has a store of one entry
with none protected, so that every second process prunes, and either two
`exec_command` calls or two requests for one host beside two one-shot calls.
Requests beside long-lived commands are not run together: what they share is
the registrations, which both scenarios have.

Deadlock checking is off where the system may come to rest: after the loop
returned, when every input has been handled, after a crash with nothing to
resume, when every call and request was made.

### Fairness

`AuthManager`: weak fairness of a task's own steps (tokio polls ready tasks) and
of the authority's answer (HTTP requests end with an answer or an error),
strong fairness of taking `refresh_lock` (tokio's semaphore is first-in
first-out). Nothing is assumed of the user or of faults. `UsageLimitRotation`:
weak fairness of sending and of an answer. `TurnLifecycle`: weak fairness of
actors and tasks, and strong fairness of the end of sampling — a model that
calls tools for ever keeps its turn for ever, which the code allows and the
liveness properties must exclude. `MemoryJobs`: weak fairness of each worker's
progress (sessions keep being started, and extractions and agents end: both
have timeouts or are ended by the process), of expiring leases and of backoffs.
`RolloutWriter`: weak fairness of the writer task. `UnifiedExec`: weak fairness
of each request's handler, the answer to its prompt included: the user answers,
or the interruption of the turn answers "denied". Nothing is assumed of calls,
processes or the proxy's connections.

## Proofs

Checked by TLAPS for every value of the constants that satisfies the assumptions
named in the modules. Each component has one inductive invariant, a
conjunction of named parts at the end of its module (`IndInv`), for which its
proof module shows `Init => IndInv`, `IndInv /\ [Next]_vars => IndInv'` (one
lemma per action or group of actions) and `Spec => []IndInv` (`Inductive`). The
properties follow from it. Every safety property that a passing run checks, invariant
or action property, is a theorem; TLC checked every inductive invariant on the
instances of the runs before it was proved.

| Module | Theorems about properties of the runs |
|---|---|
| `AccountRegistryProofs` | `Upsert`, `UpdateIfExists`, `Retain` keep a registry well keyed (lemmas for the next) |
| `AuthManagerProofs` | types, `FailureScoped`, `RegistryWellKeyed`, `RefreshExclusive`, `LogoutSticks`; for one process `CacheCoherent`; for one process and the operations of `auth_locked` `TokensMatchAccount`, `SavedTokensLive`, `NoSpuriousFailure`, `NewestTokenKept` |
| `UsageLimitRotationProofs` | types, `RetryBudget`, `SurfacedWhenSpent` |
| `TurnLifecycleProofs` | types, `ActiveTurnServed`, `RunningTasksAbortable` |
| `MemoryJobsProofs` | types, `NothingMissed`, `BaselineConsolidated`, `OutputAtWatermark` |
| `RolloutWriterProofs` | types, `NothingLost`, `MetaFirst`, and the refinement `ImplementsTranscript` |
| `AgentRegistryProofs` | types, `SlotsCounted`, `PathsReserved`, `LiveBounded` |
| `UnifiedExecProofs` | types, `DecisionsExclusive`, `RegistrationsOwned`, `NoOrphans`, `RefusalKept` |

The assumptions say that the special values (no credential, no id, no turn, no
worker...) are different from the ordinary ones, that bounds are natural
numbers and that the sets that are counted are finite. Those that say more:
`AuthAssumption` wants the initial accounts distinct; `RotationAssumption` that no raw
account id is a registry id, which carries a prefix; `MemoryAssumption` at least
one retry (the code's default is three) and room for a clock
that moves; `ExecAssumption` that the protected recent entries are fewer than
the store holds (8 of 64 in the code).

### Why the invariants are what they are

**AuthManager.** `RegistryWellKeyed` alone is not inductive: what `MirrorSave`,
`RemoveSave` and `UpsertSave` write was computed at an earlier step, so the copies
that tasks hold must be well keyed too (`CopiesWellKeyed`). `RefreshExclusive`
needs that a task inside the section is the recorded holder (`HoldersHoldLock`).
The types of the answer a task carries depend on where it is
(`CarriesTokens`). `LogoutSticks` rests on `AuthFileWriters`, the list of
actions that may write `auth.json`. These hold for several processes, which
`auth_all` does not run.

Two further results have hypotheses, stated in the theorems as constants:
`SoleProcess` (one process on a CODEX_HOME) and, for the token properties,
`LockedOnly` (tasks start only refreshes, recoveries, switches, rotations and
reloads). Neither can be dropped: "Races outside the run list" and
`auth_login_during_refresh` show what happens with a second process and with a
login. `CacheCoherent` is inductive with `IndInv`: every action that writes
`auth.json` leaves its task on the way to a reload, and the end of a reload
either publishes what the file holds or sets `outdated`.

`LockedInv` says, until `outdated` is set, that the cache equals `auth.json` or
the holder of the lock is reloading, that whatever the holder took from the
files or the cache is unchanged until it uses it (`HolderCurrent`), that the
active account has a row, and for each row which of its token and that of
`auth.json` is the newer. The unlocked reloads run beside the holder in this
proof; the only thing they can do to it is to publish an old credential, which
is the step that sets `outdated`. A switch keeps `SavedTokensLive` because the
mirror before it made the row of the account it leaves equal to `auth.json`;
`NewestTokenKept` because that row exists.

**UsageLimitRotation.** `RetryBudget` needs the retry counter to bound the
requests at each `pc` (`BudgetFollowsRetries`). `SurfacedWhenSpent` needs that an
API key in the cache means the request was sent with it (`SwitchesKeepChatgpt`), so
the `UsageLimitReached` arm of a ChatGPT request never meets one, and
`NoCandidate`: the exhausted set holds raw ids and is compared with registry
ids, so it excludes nobody and the last account left is the active one. That is
the same mismatch that makes the rotation bounce (`rotation_bounce`): it also
keeps the error from being shown too early when the account that hit its limit
is not the one cached.

**TurnLifecycle.** `ActiveTurnServed` follows from two halves: a turn without
tasks has an actor on its way to register one (`Awaited`), and the tasks in a turn
are alive (`TasksLive`). Both need that the id an actor holds is used by nothing else
(`IdsReserved`), that a task being aborted has left the active turn
(`VictimsApart`), and where actors have victims at all (`ActorsInPlace`). The scheduler of a
turn has the turn's id, so it must be over before the id is used again
(`SchedulersIdle`). Finishing tasks may die at any await in this proof.

**MemoryJobs.** What a worker is about to write is guarded by ownership of the
job alone, so the invariant says what ownership implies: the claim a worker still owns
is for the state of the thread the job is about and is ahead of its success watermark
(`ClaimsCurrent`, for `OutputAtWatermark`), and the owner of the global job has
a view with every row if its watermark is level with the job's
(`ConsolidationCurrent`, for `NothingMissed`). `InputAhead` makes "not level" mean "still
dirty after success". `BaselineConsolidated` needs that a selection is part of
the view (`WorkShape`).

**RolloutWriter.** `NothingLost` says that the file, the pending items and the
commands in the channel are, one behind the other, the items submitted; a
command carries the number of items submitted when it was sent (`upto`), so that
a barrier's place in that sequence can be stated. `MetaFirst` needs that the metadata
is owed exactly as long as the file is empty (`MetaOwed`), the refinement that what a
barrier covers has left the channel and that nothing is pending when it
reports success (`BarrierCovered`, `ConfirmedStored`). `RefinesTranscript`
maps each step to a step or a stutter of `Transcript`; the lemmas `ReaderView`,
`MetaView` and `ItemView` say how a step changes what a reader of the file sees.

**AgentRegistry.** `SlotsCounted` is an equation between a counter and two
cardinalities; the lemmas under "Counting" say how each changes. It needs the shape of
the tree (an entry is filed under its own path or thread id, `TreeShape`) and of the
calls (`CallShape`), and `PathsReserved`, so that registering an agent under a reserved
path replaces that reservation and no other entry. `LiveBounded` follows because
every loaded agent that was not orphaned is registered or about to be (`Backed`).

**UnifiedExec with NetworkApproval.** The two caches have separate locks:
`DecisionsExclusive` needs that a request with an owner's step ahead of it owns the prompt
of its host, so there is one such request for a host, and that in each plan a host
leaves one cache just before it enters the other (`RequestInv`, `InSequence`).
`RegistrationsOwned` and `NoOrphans` need that an entry is in the store
once (`Distinct`), that what is being cleaned up is out of the store (`CleanedApart`),
that nothing happened to a process before it was stored (`Fresh`) and that a command that
runs is registered (`Registered`).

### Only model-checked

Liveness (`LockedOpsFinish`, `LoopReturns`, `TurnsEnd`, `MailWakes`, `Settles`,
`BarrierAnswered`, `RequestsAnswered`) depends on fairness, which is out of
this prover's reach. The properties that the code does not keep (the three
`violation` runs and "Races outside the run list") are refuted by TLC.

## Not modelled

The share of the repository that these modules map is small: most of it is
terminal rendering, protocol types and their conversions, JSON-RPC routing,
clients of external processes and platform code, where there is little state
and no interleaving to get wrong. Inside the modelled components the following
is left out: external ChatGPT tokens, agent identity and keyring stores of the
auth manager; input blocked by hooks and the order of queued input; the oneshot
channels of exec and patch approvals and the guardian's own session; nicknames,
roles and persisted spawn edges of agents; the lock that keeps serial tools
apart; the copy of approved hosts into another session's cache
(`sync_session_approved_hosts_to`); output buffers and stdin of processes; listing of rollouts and the copy
of their metadata in the state database; ranking and the files of the memory
pipeline.

## Plan

1. Done: registry, auth manager, sampling loop, turn lifecycle, agents, network
   approval with unified exec, rollout recorder with its abstract specification,
   memory jobs; theorems for every safety property of the passing runs and for
   the refinement.
2. Proofs still worth having: `OneTask` of `TurnLifecycle` and
   `SwitchRestoresLiveToken` of `AuthManager` under the hypotheses that make them
   true (no user turn takes over a reservation; one process, the locked
   operations, no lost token and no overtaken reload), and shorter arguments where a lemma per action
   repeats its neighbour.
3. Candidates for further modules: approval channels and their clearing, the
   order of queued input, an abstract session that `TurnLifecycle` implements.
