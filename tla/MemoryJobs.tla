----------------------------- MODULE MemoryJobs -----------------------------
(***************************************************************************)
(* The memory pipeline and its job leases (codex-rs/state/src/runtime/     *)
(* memories.rs, driven by codex-rs/core/src/memories/phase1.rs, phase2.rs  *)
(* and start.rs).                                                          *)
(*                                                                         *)
(* Every root session that starts is a worker.  It extracts a memory from  *)
(* each idle thread (phase 1, one leased job per thread) and then          *)
(* consolidates the extracted memories into files (phase 2, one global     *)
(* job).  All workers share one SQLite database and come from any number   *)
(* of processes: a step here is one transaction, or one statement outside  *)
(* a transaction.                                                          *)
(*                                                                         *)
(* An ownership token names its worker: a worker claims a job at most once *)
(* and a new session of it starts only after the old one is gone.  `leased'*)
(* stands for lease_until > now and `backoff' for retry_at > now.  Ranking *)
(* of memories is any choice of at most MaxSelected of them, and `fresh'   *)
(* stands for the max_unused_days window.  The memory files are left out.  *)
(***************************************************************************)
EXTENDS Naturals, FiniteSets, FiniteSetsExt

CONSTANTS
    Threads,      \* recorded conversations, none of them a worker's own
    Workers,
    MaxRunning,   \* max_rollouts_per_startup: claims of a worker, and the cap
                  \* on running phase-1 jobs
    MaxSelected,  \* max_raw_memories_for_consolidation
    Retries,      \* DEFAULT_RETRY_REMAINING
    MaxAge,       \* max_rollout_age_days, in units of min_rollout_idle_hours
    MaxClock,     \* bound on the clock, whose unit is min_rollout_idle_hours
    MaxEvents,    \* bound on new turns, mode changes, citations, memories that grow
                  \* old, clears, crashes and lapsed leases
    NoWorker, NoRow, NoJob

Clocks == 1..MaxClock
Watermarks == Nat
Snapshots == Threads \X Clocks

\* snap is selected_for_phase2_source_updated_at, 0 when selected_for_phase2 is 0.
Rows == [src : Clocks, fresh : BOOLEAN, snap : 0..MaxClock]
Jobs == [status : {"pending", "running", "done", "error"},
         owner : Workers \cup {NoWorker}, leased : BOOLEAN, backoff : BOOLEAN,
         remaining : 0..Retries, input : Watermarks, success : Watermarks]

ASSUME MemoryAssumption ==
    /\ IsFiniteSet(Threads)
    /\ MaxRunning \in Nat \ {0} /\ MaxSelected \in Nat /\ Retries \in Nat \ {0}
    /\ MaxAge \in Nat /\ MaxClock \in Nat \ {0, 1} /\ MaxEvents \in Nat
    /\ NoWorker \notin Workers /\ NoRow \notin Rows /\ NoJob \notin Jobs

VARIABLES
    clock,
    updated,     \* threads.updated_at
    mode,        \* threads.memory_mode
    outputs,     \* stage1_outputs, by thread
    jobs,        \* the memory_stage1 rows of jobs, by thread
    global,      \* the memory_consolidate_global row of jobs
    pc, work,    \* per worker: where it is, and its local variables
    events,
    seen, base   \* history: the rows the last successful consolidation could
                 \* choose from, and those it chose

vars == <<clock, updated, mode, outputs, jobs, global, pc, work, events,
          seen, base>>
history == <<seen, base>>
threadVars == <<clock, updated, mode>>
workerVars == <<pc, work>>

Idle == [cand |-> {}, mine |-> {}, mark |-> 0, sel |-> {}, view |-> {}]
Works == [cand : SUBSET Snapshots, mine : SUBSET Snapshots, mark : Watermarks,
          sel : SUBSET Snapshots, view : SUBSET Snapshots]

Init ==
    /\ clock = 2
    /\ updated = [t \in Threads |-> 1]
    /\ mode = [t \in Threads |-> "enabled"]
    /\ outputs = [t \in Threads |-> NoRow]
    /\ jobs = [t \in Threads |-> NoJob]
    /\ global = NoJob
    /\ pc = [w \in Workers |-> "off"]
    /\ work = [w \in Workers |-> Idle]
    /\ events = 0
    /\ seen = {} /\ base = {}

Present == {t \in Threads : outputs[t] # NoRow}
Snapshot(t) == <<t, outputs[t].src>>

\* Mutant: the ownership token is not compared.
Owns_AnyToken(job, w) == job # NoJob /\ job.status = "running"

Owns(job, w) == job # NoJob /\ job.status = "running" /\ job.owner = w

Dirty == global # NoJob /\ global.input > global.success

-----------------------------------------------------------------------------
\* Transitions of a job row, shared by the two kinds of job.

Claimed(job, w) ==
    [job EXCEPT !.status = "running", !.owner = w, !.leased = TRUE, !.backoff = FALSE]

Failed(job) ==
    [job EXCEPT !.status = "error", !.leased = FALSE, !.backoff = TRUE,
                !.remaining = @ - 1]

\* Mutant: the watermark is only the newest source_updated_at.
Enqueued_Max(s) ==
    IF global = NoJob
    THEN [status |-> "pending", owner |-> NoWorker, leased |-> FALSE,
          backoff |-> FALSE, remaining |-> Retries, input |-> s, success |-> 0]
    ELSE [global EXCEPT
            !.status = IF @ = "running" THEN @ ELSE "pending",
            !.backoff = @ /\ global.status = "running",
            !.remaining = Retries,
            !.input = IF s > @ THEN s ELSE @]

\* Every call advances the watermark, an old source_updated_at too.
Enqueued(s) ==
    IF global = NoJob
    THEN [status |-> "pending", owner |-> NoWorker, leased |-> FALSE,
          backoff |-> FALSE, remaining |-> Retries, input |-> s, success |-> 0]
    ELSE [global EXCEPT
            !.status = IF @ = "running" THEN @ ELSE "pending",
            !.backoff = @ /\ global.status = "running",
            !.remaining = Retries,
            !.input = IF s > @ THEN s ELSE @ + 1]

-----------------------------------------------------------------------------
\* Threads.

Tick == /\ clock < MaxClock
        /\ clock' = clock + 1
        /\ UNCHANGED <<updated, mode, outputs, jobs, global, workerVars,
                       events, history>>

\* What happens to the threads, and what goes wrong, is bounded in number.
Event == events < MaxEvents /\ events' = events + 1

\* A turn is recorded in thread t.
Converse(t) ==
    /\ Event /\ updated[t] # clock
    /\ updated' = [updated EXCEPT ![t] = clock]
    /\ UNCHANGED <<clock, mode, outputs, jobs, global, workerVars, history>>

SetMode(t, m) ==
    /\ Event /\ mode[t] # m
    /\ mode' = [mode EXCEPT ![t] = m]
    /\ UNCHANGED <<clock, updated, outputs, jobs, global, workerVars, history>>

Pollute(t) ==
    /\ Event /\ mode[t] # "polluted"
    /\ mode' = [mode EXCEPT ![t] = "polluted"]
    /\ global' = IF t \in Present /\ outputs[t].snap # 0 THEN Enqueued(clock) ELSE global
    /\ UNCHANGED <<clock, updated, outputs, jobs, workerVars, history>>

\* A memory is cited; a memory leaves the max_unused_days window.
Cite(t) ==
    /\ Event /\ t \in Present
    /\ outputs' = [outputs EXCEPT ![t].fresh = TRUE]
    /\ UNCHANGED <<threadVars, jobs, global, workerVars, history>>

Age(t) ==
    /\ Event /\ t \in Present
    /\ outputs' = [outputs EXCEPT ![t].fresh = FALSE]
    /\ UNCHANGED <<threadVars, jobs, global, workerVars, history>>

Clear ==
    /\ Event
    /\ outputs' = [t \in Threads |-> NoRow]
    /\ jobs' = [t \in Threads |-> NoJob]
    /\ global' = NoJob
    /\ seen' = {} /\ base' = {}
    /\ UNCHANGED <<threadVars, workerVars>>

-----------------------------------------------------------------------------
\* Phase 1.

\* start_memories_startup_task, up to the prune.
Begin(w) ==
    /\ pc[w] = "off"
    /\ pc' = [pc EXCEPT ![w] = "scan"]
    /\ outputs' = [t \in Threads |->
                     IF t \in Present /\ outputs[t].snap = 0 /\ ~outputs[t].fresh
                     THEN NoRow ELSE outputs[t]]
    /\ UNCHANGED <<threadVars, jobs, global, work, events, history>>

UpToDate(t, s) ==
    \/ t \in Present /\ outputs[t].src >= s
    \/ jobs[t] # NoJob /\ jobs[t].success >= s

Candidates ==
    {<<t, updated[t]>> : t \in {u \in Threads :
        /\ mode[u] = "enabled"
        /\ updated[u] < clock /\ clock <= updated[u] + MaxAge
        /\ ~UpToDate(u, updated[u])}}

\* The scan is a query of its own: what it returns may be old when a claim uses it.
Scan(w) ==
    /\ pc[w] = "scan"
    /\ pc' = [pc EXCEPT ![w] = IF Candidates = {} THEN "extract" ELSE "claim"]
    /\ work' = [work EXCEPT ![w].cand = Candidates]
    /\ UNCHANGED <<threadVars, outputs, jobs, global, events, history>>

RunningJobs == {t \in Threads : jobs[t] # NoJob /\ jobs[t].status = "running"
                                               /\ jobs[t].leased}

\* Mutant: a job is retried whenever its backoff is over.
Claimable_Forever(t, s) ==
    /\ ~UpToDate(t, s)
    /\ Cardinality(RunningJobs \ {t}) < MaxRunning
    /\ jobs[t] = NoJob \/ /\ t \notin RunningJobs
                          /\ s > jobs[t].input \/ ~jobs[t].backoff

Claimable(t, s) ==
    /\ ~UpToDate(t, s)
    /\ Cardinality(RunningJobs \ {t}) < MaxRunning
    /\ jobs[t] = NoJob \/ /\ t \notin RunningJobs
                          /\ \/ s > jobs[t].input
                             \/ ~jobs[t].backoff /\ jobs[t].remaining > 0

ClaimedAt(t, s, w) ==
    IF jobs[t] = NoJob
    THEN [status |-> "running", owner |-> w, leased |-> TRUE, backoff |-> FALSE,
          remaining |-> Retries, input |-> s, success |-> 0]
    ELSE [Claimed(jobs[t], w) EXCEPT
            !.remaining = IF s > jobs[t].input THEN Retries ELSE @,
            !.input = s]

TryClaim(w, c) ==
    LET t == c[1]  s == c[2]
        won == Claimable(t, s)
        mine == work[w].mine \cup (IF won THEN {c} ELSE {})
        cand == work[w].cand \ {c}
        over == cand = {} \/ Cardinality(mine) >= MaxRunning
    IN  /\ pc[w] = "claim" /\ c \in work[w].cand
        /\ jobs' = IF won THEN [jobs EXCEPT ![t] = ClaimedAt(t, s, w)] ELSE jobs
        /\ work' = [work EXCEPT ![w].mine = mine,
                                ![w].cand = IF over THEN {} ELSE cand]
        /\ pc' = [pc EXCEPT ![w] = IF over THEN "extract" ELSE @]
        /\ UNCHANGED <<threadVars, outputs, global, events, history>>

\* The end of one extraction.  A worker whose job was claimed again in the
\* meantime changes nothing.
EndJob(w, c) ==
    /\ pc[w] = "extract" /\ c \in work[w].mine
    /\ work' = [work EXCEPT ![w].mine = @ \ {c}]
    /\ UNCHANGED <<threadVars, pc, events, history>>

Succeeded(job) == [job EXCEPT !.status = "done", !.leased = FALSE, !.success = job.input]

\* An old last_usage keeps an extracted row out of the window, hence the choice.
StoreOutput(t, s) ==
    \E fresh \in IF t \in Present THEN {TRUE, outputs[t].fresh} ELSE {TRUE} :
        outputs' = [outputs EXCEPT ![t] =
            IF t \notin Present THEN [src |-> s, fresh |-> fresh, snap |-> 0]
            ELSE IF s >= @.src THEN [@ EXCEPT !.src = s, !.fresh = fresh]
            ELSE @]

JobSucceeds(w, c) ==
    /\ EndJob(w, c)
    /\ LET t == c[1]
       IN  IF Owns(jobs[t], w)
           THEN /\ jobs' = [jobs EXCEPT ![t] = Succeeded(@)]
                /\ StoreOutput(t, c[2])
                /\ global' = Enqueued(c[2])
           ELSE UNCHANGED <<jobs, outputs, global>>

JobHasNoOutput(w, c) ==
    /\ EndJob(w, c)
    /\ LET t == c[1]
       IN  IF Owns(jobs[t], w)
           THEN /\ jobs' = [jobs EXCEPT ![t] = Succeeded(@)]
                /\ outputs' = [outputs EXCEPT ![t] = NoRow]
                /\ global' = IF t \in Present THEN Enqueued(jobs[t].input) ELSE global
           ELSE UNCHANGED <<jobs, outputs, global>>

JobFails(w, c) ==
    /\ EndJob(w, c)
    /\ jobs' = [jobs EXCEPT ![c[1]] = IF Owns(@, w) THEN Failed(@) ELSE @]
    /\ UNCHANGED <<outputs, global>>

-----------------------------------------------------------------------------
\* Phase 2.

\* Mutant: a running job is left to its owner, lease or not.
GlobalClaimable_NoTakeover ==
    /\ Dirty
    /\ global.remaining > 0 /\ ~global.backoff
    /\ global.status # "running"

GlobalClaimable ==
    /\ Dirty
    /\ global.remaining > 0 /\ ~global.backoff
    /\ ~(global.status = "running" /\ global.leased)

ClaimGlobal(w) ==
    /\ pc[w] = "extract" /\ work[w].mine = {}
    /\ IF GlobalClaimable
       THEN /\ global' = Claimed(global, w)
            /\ work' = [work EXCEPT ![w].mark = global.input]
            /\ pc' = [pc EXCEPT ![w] = "select"]
       ELSE /\ pc' = [pc EXCEPT ![w] = "off"]
            /\ UNCHANGED <<global, work>>
    /\ UNCHANGED <<threadVars, outputs, jobs, events, history>>

Selectable == {t \in Present : mode[t] = "enabled" /\ outputs[t].fresh}

Smaller(m, n) == IF m < n THEN m ELSE n

Select(w) ==
    /\ pc[w] = "select"
    /\ \E chosen \in kSubset(Smaller(MaxSelected, Cardinality(Selectable)), Selectable) :
           work' = [work EXCEPT
                      ![w].sel = {Snapshot(t) : t \in chosen},
                      ![w].mark = Max({@} \cup {outputs[t].src : t \in chosen}),
                      ![w].view = {Snapshot(t) : t \in Present}]
    /\ pc' = [pc EXCEPT ![w] = "agent"]
    /\ UNCHANGED <<threadVars, outputs, jobs, global, events, history>>

Leave(w) == /\ pc' = [pc EXCEPT ![w] = "off"]
            /\ work' = [work EXCEPT ![w] = Idle]

\* The agent's heartbeat.  A worker that lost the job gives up: job::failed finds
\* no row of its own to change.
Heartbeat(w) ==
    /\ pc[w] = "agent"
    /\ IF Owns(global, w)
       THEN global' = [global EXCEPT !.leased = TRUE] /\ UNCHANGED workerVars
       ELSE Leave(w) /\ UNCHANGED global
    /\ UNCHANGED <<threadVars, outputs, jobs, events, history>>

\* Mutant: the row is found by its thread alone.
Rebaselined_ByThread(sel) ==
    [t \in Threads |-> IF t \in Present
                       THEN [outputs[t] EXCEPT
                               !.snap = IF \E c \in sel : c[1] = t THEN outputs[t].src ELSE 0]
                       ELSE NoRow]

Rebaselined(sel) ==
    [t \in Threads |-> IF t \in Present
                       THEN [outputs[t] EXCEPT !.snap = IF Snapshot(t) \in sel THEN outputs[t].src ELSE 0]
                       ELSE NoRow]

ConsolidationSucceeds(w) ==
    /\ pc[w] = "agent"
    /\ IF Owns(global, w)
       THEN /\ global' = [global EXCEPT !.status = "done", !.leased = FALSE,
                                        !.success = Max({@, work[w].mark})]
            /\ outputs' = Rebaselined(work[w].sel)
            /\ seen' = work[w].view /\ base' = work[w].sel
       ELSE UNCHANGED <<global, outputs, history>>
    /\ Leave(w)
    /\ UNCHANGED <<threadVars, jobs, events>>

ConsolidationFails(w) ==
    /\ pc[w] \in {"select", "agent"}
    /\ global' = IF Owns(global, w) THEN Failed(global) ELSE global
    /\ Leave(w)
    /\ UNCHANGED <<threadVars, outputs, jobs, events, history>>

-----------------------------------------------------------------------------
\* Time and failures.

Holds(w, t) == \E s \in Clocks : <<t, s>> \in work[w].mine
Consolidates(w) == pc[w] \in {"select", "agent"}

\* The holder of a lease is gone and nobody renews it.
LeaseExpires(t) ==
    /\ t \in RunningJobs /\ ~Holds(jobs[t].owner, t)
    /\ jobs' = [jobs EXCEPT ![t].leased = FALSE]
    /\ UNCHANGED <<threadVars, outputs, global, workerVars, events, history>>

GlobalLeaseExpires ==
    /\ global # NoJob /\ global.leased /\ ~Consolidates(global.owner)
    /\ global' = [global EXCEPT !.leased = FALSE]
    /\ UNCHANGED <<threadVars, outputs, jobs, workerVars, events, history>>

\* A live holder is too slow: an extraction longer than its lease, a suspended
\* machine that misses its heartbeats.
LeaseLapses(t) ==
    /\ Event
    /\ t \in RunningJobs /\ Holds(jobs[t].owner, t)
    /\ jobs' = [jobs EXCEPT ![t].leased = FALSE]
    /\ UNCHANGED <<threadVars, outputs, global, workerVars, history>>

GlobalLeaseLapses ==
    /\ Event
    /\ global # NoJob /\ global.leased /\ Consolidates(global.owner)
    /\ global' = [global EXCEPT !.leased = FALSE]
    /\ UNCHANGED <<threadVars, outputs, jobs, workerVars, history>>

BackoffEnds(t) ==
    /\ jobs[t] # NoJob /\ jobs[t].backoff
    /\ jobs' = [jobs EXCEPT ![t].backoff = FALSE]
    /\ UNCHANGED <<threadVars, outputs, global, workerVars, events, history>>

GlobalBackoffEnds ==
    /\ global # NoJob /\ global.backoff
    /\ global' = [global EXCEPT !.backoff = FALSE]
    /\ UNCHANGED <<threadVars, outputs, jobs, workerVars, events, history>>

\* The session's process ends: its tasks are gone, its rows stay.
Crash(w) ==
    /\ Event /\ pc[w] # "off"
    /\ Leave(w)
    /\ UNCHANGED <<threadVars, outputs, jobs, global, history>>

-----------------------------------------------------------------------------
Extraction(w, c) == JobSucceeds(w, c) \/ JobHasNoOutput(w, c) \/ JobFails(w, c)

Progress(w) ==
    \/ Begin(w) \/ Scan(w) \/ ClaimGlobal(w) \/ Select(w)
    \/ \E c \in work[w].cand : TryClaim(w, c)
    \/ \E c \in work[w].mine : Extraction(w, c)
    \/ ConsolidationSucceeds(w) \/ ConsolidationFails(w)

Next ==
    \/ Tick \/ Clear \/ GlobalLeaseExpires \/ GlobalLeaseLapses \/ GlobalBackoffEnds
    \/ \E t \in Threads :
          \/ Converse(t) \/ Pollute(t) \/ Cite(t) \/ Age(t)
          \/ \E m \in {"enabled", "disabled"} : SetMode(t, m)
          \/ LeaseExpires(t) \/ LeaseLapses(t) \/ BackoffEnds(t)
    \/ \E w \in Workers : Progress(w) \/ Heartbeat(w) \/ Crash(w)

\* Users keep starting sessions, a started task runs on, every extraction and
\* every agent ends, and time passes.
Fairness ==
    /\ \A w \in Workers : WF_vars(Progress(w))
    /\ \A t \in Threads : WF_vars(LeaseExpires(t)) /\ WF_vars(BackoffEnds(t))
    /\ WF_vars(GlobalLeaseExpires) /\ WF_vars(GlobalBackoffEnds)

Spec == Init /\ [][Next]_vars
FairSpec == Spec /\ Fairness

-----------------------------------------------------------------------------
\* Types; the retries of a job are never overdrawn, whatever fails, lapses and is claimed
\* again (retry_remaining in the claim's WHERE clause).
TypeOK ==
    /\ clock \in Clocks
    /\ updated \in [Threads -> Clocks]
    /\ mode \in [Threads -> {"enabled", "disabled", "polluted"}]
    /\ outputs \in [Threads -> Rows \cup {NoRow}]
    /\ jobs \in [Threads -> Jobs \cup {NoJob}]
    /\ global \in Jobs \cup {NoJob}
    /\ pc \in [Workers -> {"off", "scan", "claim", "extract", "select", "agent"}]
    /\ work \in [Workers -> Works]
    /\ events \in 0..MaxEvents
    /\ seen \subseteq Snapshots /\ base \subseteq seen

\* While the global job is not dirty, every stored memory was there to be chosen
\* by the last successful consolidation: no extraction that ends while a
\* consolidation runs, or between its claim and its selection, is skipped because
\* the completion watermark (get_watermark) already covers it.
NothingMissed ==
    ~Dirty => \A t \in Present : Snapshot(t) \in seen

\* The marks on the rows are those of the last successful consolidation.  A row
\* that was extracted again while the consolidation ran is not taken for the
\* snapshot it consumed, and a worker that lost its lease, or was overtaken by a
\* reset of the memories, leaves the marks alone.
BaselineConsolidated ==
    \A t \in Present : outputs[t].snap # 0 => <<t, outputs[t].snap>> \in base

\* A stored memory is as new as its job says.  A worker whose lease lapsed and whose
\* job was claimed for a newer state of the thread cannot store its older memory
\* under the newer watermark, which would keep the thread from being extracted.
OutputAtWatermark ==
    \A t \in Present : jobs[t] # NoJob /\ outputs[t].src = jobs[t].success

Settled ==
    /\ Dirty => global.remaining = 0
    /\ \A t \in Threads : <<t, updated[t]>> \in Candidates
                            => jobs[t] # NoJob /\ jobs[t].remaining = 0

\* When users stop writing, the pipeline comes to rest: every idle thread is
\* extracted and the memories are consolidated, unless retries are used up.
Settles == <>[]Settled

\* What the comment on mark_thread_memory_mode_polluted promises: a polluted
\* thread of the last baseline is waiting to be forgotten.
PollutedForgotten ==
    \A t \in Present : mode[t] = "polluted" /\ outputs[t].snap # 0 => Dirty

\* What the memories README says of the claim of the global job.
OneConsolidation ==
    \A v, w \in Workers : Consolidates(v) /\ Consolidates(w) => v = w

-----------------------------------------------------------------------------
\* The inductive invariant behind the safety properties.

\* A job that runs has a retry left.
RunningFunded(job) == job # NoJob /\ job.status = "running" => job.remaining > 0
RetriesLeft == RunningFunded(global) /\ \A t \in Threads : RunningFunded(jobs[t])

\* The watermark of the global job is ahead of every row and of what was consolidated.
InputAhead ==
    /\ global # NoJob => global.success <= global.input
    /\ \A t \in Present : global # NoJob /\ outputs[t].src <= global.input

\* What a worker holds in its local variables, by where it is: at most one claim of a
\* thread, and a selection out of what was there to select.
WorkShape ==
    \A w \in Workers :
        /\ pc[w] # "claim" => work[w].cand = {}
        /\ pc[w] \notin {"claim", "extract"} => work[w].mine = {}
        /\ \A c, d \in work[w].cand \cup work[w].mine : c[1] = d[1] => c = d
        /\ work[w].sel \subseteq work[w].view

\* A worker that still owns a job works on the state of the thread the job is about,
\* which nobody has extracted yet.
ClaimsCurrent ==
    \A w \in Workers : \A c \in work[w].mine :
        Owns(jobs[c[1]], w) => jobs[c[1]].input = c[2] /\ jobs[c[1]].success < c[2]

\* A worker that still owns the global job has not consolidated past the watermark, and
\* is level with it only if its view has every row.
ConsolidationCurrent ==
    \A w \in Workers : Consolidates(w) /\ Owns(global, w) =>
        /\ Dirty /\ work[w].mark <= global.input
        /\ pc[w] = "agent" /\ work[w].mark = global.input =>
              \A t \in Present : Snapshot(t) \in work[w].view

IndInv ==
    /\ TypeOK /\ NothingMissed /\ BaselineConsolidated /\ OutputAtWatermark
    /\ RetriesLeft /\ InputAhead /\ WorkShape /\ ClaimsCurrent /\ ConsolidationCurrent
=============================================================================
