-------------------------- MODULE MemoryJobsProofs --------------------------
(***************************************************************************)
(* The memory pipeline for any number of threads and workers, any limits   *)
(* and any number of events: retries, watermarks and baseline marks, by    *)
(* one inductive invariant.                                                *)
(***************************************************************************)
EXTENDS MemoryJobs, WellFoundedInduction, TLAPS

----------------------------------------------------------------------------
(* Maxima. *)

\* A non-empty set of naturals has a least element.
LEMMA LeastNatural ==
    ASSUME NEW S, S \subseteq Nat, S # {}
    PROVE  \E x \in S : \A y \in S : x <= y
<1>1. PICK x \in S : \A y \in S : ~ (<<y, x>> \in OpToRel(<, Nat))
  BY NatLessThanWellFounded, WFMin
<1>2. ASSUME NEW y \in S PROVE x <= y
  <2>1. x \in Nat /\ y \in Nat /\ ~ (y < x)
    BY <1>1 DEF OpToRel
  <2> QED
    BY <2>1
<1> QED
  BY <1>2

\* A bounded one has a greatest element: the least upper bound.
LEMMA MaxOfBounded ==
    ASSUME NEW S, S \subseteq Nat, S # {}, NEW n \in Nat, \A y \in S : y <= n
    PROVE  Max(S) \in S /\ \A y \in S : y <= Max(S)
<1> DEFINE U == {u \in Nat : \A y \in S : y <= u}
<1>1. n \in U /\ U \subseteq Nat
  OBVIOUS
<1>2. PICK u \in U : \A v \in U : u <= v
  BY <1>1, LeastNatural
<1>3. u \in S
  <2> SUFFICES ASSUME u \notin S PROVE FALSE
    OBVIOUS
  <2>1. PICK y \in S : TRUE
    OBVIOUS
  <2>2. y \in Nat /\ y <= u /\ y # u /\ u \in Nat
    BY <1>2, <2>1
  <2>3. u - 1 \in Nat
    BY <2>2
  <2>4. \A z \in S : z <= u - 1
    <3> TAKE z \in S
    <3>1. z \in Nat /\ z <= u /\ z # u
      BY <1>2
    <3> QED
      BY <2>2, <3>1
  <2>5. u <= u - 1
    BY <1>2, <2>3, <2>4
  <2> QED
    BY <2>2, <2>5
<1>4. \A y \in S : u >= y
  BY <1>2
<1>5. Max(S) \in S /\ \A y \in S : Max(S) >= y
  BY <1>3, <1>4 DEF Max
<1>6. \A y \in S : Max(S) >= y => y <= Max(S)
  BY <1>5
<1> QED
  BY <1>5, <1>6

----------------------------------------------------------------------------
(* The transitions of a job row. *)

\* A claim takes the row over with its watermarks and retries.
LEMMA ClaimedJob ==
    ASSUME NEW job \in Jobs, NEW w \in Workers
    PROVE  LET new == Claimed(job, w)
           IN  /\ new \in Jobs /\ new.status = "running" /\ new.owner = w
               /\ new.input = job.input /\ new.success = job.success
               /\ new.remaining = job.remaining
BY DEF Claimed, Jobs

\* A failure costs one retry and keeps the watermarks.
LEMMA FailedJob ==
    ASSUME NEW job \in Jobs, job.remaining > 0
    PROVE  LET new == Failed(job)
           IN  /\ new \in Jobs /\ new.status = "error"
               /\ new.input = job.input /\ new.success = job.success
<1>1. job.remaining - 1 \in 0..Retries
  BY MemoryAssumption DEF Jobs
<1> QED
  BY <1>1 DEF Failed, Jobs

\* A success moves the success watermark up to the input.
LEMMA SucceededJob ==
    ASSUME NEW job \in Jobs
    PROVE  LET new == Succeeded(job)
           IN  /\ new \in Jobs /\ new.status = "done"
               /\ new.input = job.input /\ new.success = job.input
BY DEF Succeeded, Jobs

\* Every enqueue advances the watermark, past the row it is for, and makes the job
\* dirty; a running job stays with its owner.
LEMMA EnqueuedJob ==
    ASSUME global \in Jobs \cup {NoJob}, InputAhead, NEW s \in Nat \ {0}
    PROVE  LET new == Enqueued(s)
           IN  /\ new \in Jobs /\ new # NoJob /\ s <= new.input
               /\ new.success < new.input /\ new.remaining = Retries
               /\ global # NoJob => /\ global.input < new.input
                                    /\ new.owner = global.owner
                                    /\ new.status = "running" => global.status = "running"
               /\ global = NoJob => new.status = "pending"
<1>1. Retries \in 0..Retries /\ NoJob \notin Jobs
  BY MemoryAssumption
<1>2. CASE global = NoJob
  <2>1. /\ Enqueued(s) \in Jobs /\ Enqueued(s).status = "pending"
        /\ Enqueued(s).input = s /\ Enqueued(s).success = 0
        /\ Enqueued(s).remaining = Retries
    BY <1>1, <1>2 DEF Enqueued, Jobs, Watermarks
  <2> QED
    BY <1>1, <1>2, <2>1
<1>3. CASE global # NoJob
  <2>1. global \in Jobs /\ global.success <= global.input
    BY <1>3 DEF InputAhead
  <2>2. global.input \in Nat /\ global.success \in Nat
    BY <2>1 DEF Jobs, Watermarks
  <2> DEFINE i == IF s > global.input THEN s ELSE global.input + 1
  <2>3. i \in Nat /\ i > global.input /\ s <= i
    BY <2>2
  <2> HIDE DEF i
  <2>4. Enqueued(s) = [global EXCEPT
            !.status = IF @ = "running" THEN @ ELSE "pending",
            !.backoff = @ /\ global.status = "running",
            !.remaining = Retries,
            !.input = i]
    BY <1>3 DEF Enqueued, i
  <2>5. /\ Enqueued(s) \in Jobs /\ Enqueued(s).input = i
        /\ Enqueued(s).success = global.success /\ Enqueued(s).remaining = Retries
        /\ Enqueued(s).owner = global.owner
        /\ Enqueued(s).status = "running" => global.status = "running"
    BY <1>1, <2>1, <2>3, <2>4 DEF Jobs, Watermarks
  <2> QED
    BY <1>1, <1>3, <2>1, <2>2, <2>3, <2>5
<1> QED
  BY <1>2, <1>3

\* A claim for the state s of a thread that is not up to date.
LEMMA ClaimedAtJob ==
    ASSUME TypeOK, NEW t \in Threads, NEW s \in Clocks, NEW w \in Workers,
           Claimable(t, s)
    PROVE  LET new == ClaimedAt(t, s, w)
           IN  /\ new \in Jobs /\ new # NoJob /\ new.status = "running" /\ new.owner = w
               /\ new.input = s /\ new.success < s /\ new.remaining > 0
               /\ jobs[t] # NoJob => new.success = jobs[t].success
<1>1. /\ Retries \in 1..Retries /\ Retries \in 0..Retries /\ Retries > 0
      /\ NoJob \notin Jobs /\ s \in Nat \ {0} /\ Retries \in Nat
  BY MemoryAssumption DEF Clocks
<1>2. CASE jobs[t] = NoJob
  <2>1. /\ ClaimedAt(t, s, w) \in Jobs /\ ClaimedAt(t, s, w).status = "running"
        /\ ClaimedAt(t, s, w).owner = w /\ ClaimedAt(t, s, w).input = s
        /\ ClaimedAt(t, s, w).success = 0 /\ ClaimedAt(t, s, w).remaining = Retries
    BY <1>1, <1>2 DEF ClaimedAt, Jobs, Watermarks
  <2> QED
    BY <1>1, <1>2, <2>1
<1>3. CASE jobs[t] # NoJob
  <2> DEFINE job == jobs[t]
             r == IF s > job.input THEN Retries ELSE job.remaining
             c == Claimed(job, w)
  <2>1. job \in Jobs /\ job.remaining \in 0..Retries
    BY <1>3 DEF TypeOK, Jobs
  <2>2. job.success \in Nat /\ job.success < s
    <3>1. ~(job.success >= s)
      BY <1>3 DEF Claimable, UpToDate
    <3> QED
      BY <1>1, <2>1, <3>1 DEF Jobs, Watermarks
  <2>3. r \in 0..Retries /\ r > 0
    <3>1. s > job.input \/ job.remaining > 0
      BY <1>3 DEF Claimable
    <3> QED
      BY <1>1, <2>1, <3>1
  <2>4. /\ c \in Jobs /\ c.status = "running" /\ c.owner = w
        /\ c.input = job.input /\ c.success = job.success
        /\ c.remaining = job.remaining
    BY <2>1, ClaimedJob
  <2> HIDE DEF c
  <2>5. ClaimedAt(t, s, w) = [c EXCEPT !.remaining = r, !.input = s]
    BY <1>3, <2>4 DEF ClaimedAt, c
  <2> HIDE DEF r
  <2>6. /\ ClaimedAt(t, s, w) \in Jobs /\ ClaimedAt(t, s, w).status = "running"
        /\ ClaimedAt(t, s, w).owner = w /\ ClaimedAt(t, s, w).input = s
        /\ ClaimedAt(t, s, w).success = job.success
        /\ ClaimedAt(t, s, w).remaining = r
    BY <1>1, <2>3, <2>4, <2>5 DEF Jobs, Watermarks
  <2> QED
    BY <1>1, <1>3, <2>2, <2>3, <2>6
<1> QED
  BY <1>2, <1>3

----------------------------------------------------------------------------
(* Steps that keep the watermarks. *)

\* Nothing is stored at the start.
LEMMA InitIsInductive == Init => IndInv
<1> SUFFICES ASSUME Init PROVE IndInv
  OBVIOUS
<1>1. Present = {} /\ 1 \in Clocks /\ 2 \in Clocks /\ Idle \in Works
  BY MemoryAssumption DEF Init, Present, Clocks, Idle, Works, Watermarks
<1>2. TypeOK
  BY <1>1, MemoryAssumption DEF Init, TypeOK
<1>3. RetriesLeft /\ InputAhead
  BY <1>1 DEF Init, RetriesLeft, RunningFunded, InputAhead
<1>4. WorkShape /\ ClaimsCurrent /\ ConsolidationCurrent
  BY DEF Init, WorkShape, ClaimsCurrent, ConsolidationCurrent, Consolidates, Idle
<1>5. NothingMissed /\ BaselineConsolidated /\ OutputAtWatermark
  BY <1>1 DEF NothingMissed, BaselineConsolidated, OutputAtWatermark
<1> QED
  BY <1>2, <1>3, <1>4, <1>5 DEF IndInv

\* No row is added, and those that stay keep their source time and mark.
RowsKept ==
    \A t \in Threads : outputs'[t] # NoRow =>
        /\ outputs[t] # NoRow
        /\ outputs'[t].src = outputs[t].src /\ outputs'[t].snap = outputs[t].snap

\* Steps that change no job: Tick, Converse, SetMode, Cite, Age and Begin.
LEMMA QuietPreserves ==
    ASSUME IndInv, TypeOK', RowsKept, UNCHANGED <<jobs, global, work, seen, base>>,
           \A w \in Workers : pc'[w] = pc[w] \/ (pc[w] = "off" /\ pc'[w] = "scan")
    PROVE  IndInv'
<1> USE DEF IndInv
<1>1. Present' \subseteq Present
  BY DEF Present, RowsKept
<1>2. \A t \in Present' : /\ outputs'[t].src = outputs[t].src
                          /\ outputs'[t].snap = outputs[t].snap
                          /\ Snapshot(t)' = Snapshot(t)
  BY DEF Present, RowsKept, Snapshot
<1>3. NothingMissed' /\ BaselineConsolidated' /\ OutputAtWatermark'
  BY <1>1, <1>2 DEF NothingMissed, BaselineConsolidated, OutputAtWatermark, Dirty
<1>4. RetriesLeft' /\ InputAhead'
  BY <1>1, <1>2 DEF RetriesLeft, RunningFunded, InputAhead
<1>5. WorkShape'
  <2> SUFFICES ASSUME NEW w \in Workers
               PROVE  /\ pc'[w] # "claim" => work[w].cand = {}
                      /\ pc'[w] \notin {"claim", "extract"} => work[w].mine = {}
                      /\ \A c, d \in work[w].cand \cup work[w].mine : c[1] = d[1] => c = d
                      /\ work[w].sel \subseteq work[w].view
    BY DEF WorkShape
  <2>1. pc'[w] = pc[w] \/ (pc[w] = "off" /\ pc'[w] = "scan")
    OBVIOUS
  <2> QED
    BY <2>1 DEF WorkShape
<1>6. ClaimsCurrent'
  BY DEF ClaimsCurrent, Owns
<1>7. ConsolidationCurrent'
  <2> SUFFICES ASSUME NEW w \in Workers, Consolidates(w)', Owns(global, w)
               PROVE  /\ Dirty /\ work[w].mark <= global.input
                      /\ pc'[w] = "agent" /\ work[w].mark = global.input =>
                            \A t \in Present' : Snapshot(t)' \in work[w].view
    BY DEF ConsolidationCurrent, Dirty, Owns
  <2>1. pc'[w] = pc[w] /\ Consolidates(w)
    BY DEF Consolidates
  <2> QED
    BY <1>1, <1>2, <2>1 DEF ConsolidationCurrent
<1> QED
  BY <1>3, <1>4, <1>5, <1>6, <1>7

\* A row that loses its lease or backoff, or whose attempt fails.
SameWatermarks(old, new) ==
    /\ old # NoJob /\ new \in Jobs
    /\ new.input = old.input /\ new.success = old.success
    /\ new.status = "running" =>
          old.status = "running" /\ new.owner = old.owner /\ new.remaining = old.remaining

\* Steps that change job rows but no watermark of them: leases, backoffs, failures and
\* results that come too late.
LEMMA JobRowPreserves ==
    ASSUME IndInv, TypeOK', UNCHANGED <<outputs, global, pc, seen, base>>,
           \A t \in Threads : jobs'[t] = jobs[t] \/ SameWatermarks(jobs[t], jobs'[t]),
           \A w \in Workers : /\ work'[w].mine \subseteq work[w].mine
                              /\ work'[w].cand = work[w].cand /\ work'[w].mark = work[w].mark
                              /\ work'[w].sel = work[w].sel /\ work'[w].view = work[w].view
    PROVE  IndInv'
<1> USE DEF IndInv
<1>1. NoJob \notin Jobs
  BY MemoryAssumption
<1>2. \A t \in Threads : /\ jobs[t] # NoJob => jobs'[t] # NoJob
                         /\ jobs'[t] # NoJob =>
                              /\ jobs[t] # NoJob /\ jobs'[t].input = jobs[t].input
                              /\ jobs'[t].success = jobs[t].success
                              /\ jobs'[t].status = "running" =>
                                   /\ jobs[t].status = "running"
                                   /\ jobs'[t].owner = jobs[t].owner
                                   /\ jobs'[t].remaining = jobs[t].remaining
  BY <1>1 DEF SameWatermarks
<1>3. NothingMissed' /\ BaselineConsolidated'
  BY DEF NothingMissed, BaselineConsolidated, Dirty, Present, Snapshot
<1>4. OutputAtWatermark'
  BY <1>2 DEF OutputAtWatermark, Present
<1>5. RetriesLeft' /\ InputAhead'
  BY <1>2 DEF RetriesLeft, RunningFunded, InputAhead, Present
<1>6. WorkShape'
  BY DEF WorkShape
<1>7. ClaimsCurrent'
  <2> SUFFICES ASSUME NEW w \in Workers, NEW c \in work'[w].mine, Owns(jobs'[c[1]], w)
               PROVE  jobs'[c[1]].input = c[2] /\ jobs'[c[1]].success < c[2]
    BY DEF ClaimsCurrent, Owns
  <2>1. c \in work[w].mine /\ c[1] \in Threads
    BY DEF TypeOK, Works, Snapshots
  <2>2. Owns(jobs[c[1]], w)
    BY <1>2, <2>1 DEF Owns
  <2> QED
    BY <1>2, <2>1, <2>2 DEF ClaimsCurrent, Owns
<1>8. ConsolidationCurrent'
  BY DEF ConsolidationCurrent, Consolidates, Owns, Dirty, Present, Snapshot
<1> QED
  BY <1>3, <1>4, <1>5, <1>6, <1>7, <1>8

\* A worker that stops where it is, or goes on unchanged.
Stops(w) == /\ pc'[w] = "off"
            /\ work'[w].cand = {} /\ work'[w].mine = {}
            /\ work'[w].sel \subseteq work'[w].view
Stays(w) == pc'[w] = pc[w] /\ work'[w] = work[w]

\* Steps that change the global row but no watermark of it: leases, backoff,
\* heartbeats, failures, crashes.
LEMMA GlobalRowPreserves ==
    ASSUME IndInv, TypeOK', UNCHANGED <<outputs, jobs, seen, base>>,
           UNCHANGED global \/ SameWatermarks(global, global'),
           \A w \in Workers : Stops(w) \/ Stays(w)
    PROVE  IndInv'
<1> USE DEF IndInv
<1>1. NoJob \notin Jobs
  BY MemoryAssumption
<1>2. /\ global # NoJob => global' # NoJob
      /\ global' # NoJob =>
            /\ global # NoJob /\ global'.input = global.input
            /\ global'.success = global.success
            /\ global'.status = "running" =>
                 /\ global.status = "running" /\ global'.owner = global.owner
                 /\ global'.remaining = global.remaining
  BY <1>1 DEF SameWatermarks
<1>3. Dirty' <=> Dirty
  BY <1>2 DEF Dirty
<1>4. NothingMissed' /\ BaselineConsolidated' /\ OutputAtWatermark'
  BY <1>3 DEF NothingMissed, BaselineConsolidated, OutputAtWatermark, Present, Snapshot
<1>5. RetriesLeft' /\ InputAhead'
  BY <1>2 DEF RetriesLeft, RunningFunded, InputAhead, Present
<1>6. WorkShape'
  <2> SUFFICES ASSUME NEW w \in Workers
               PROVE  /\ pc'[w] # "claim" => work'[w].cand = {}
                      /\ pc'[w] \notin {"claim", "extract"} => work'[w].mine = {}
                      /\ \A c, d \in work'[w].cand \cup work'[w].mine : c[1] = d[1] => c = d
                      /\ work'[w].sel \subseteq work'[w].view
    BY DEF WorkShape
  <2>1. CASE Stops(w)
    BY <2>1 DEF Stops
  <2>2. CASE Stays(w)
    BY <2>2 DEF Stays, WorkShape
  <2> QED
    BY <2>1, <2>2
<1>7. ClaimsCurrent'
  <2> SUFFICES ASSUME NEW w \in Workers, NEW c \in work'[w].mine, Owns(jobs[c[1]], w)
               PROVE  jobs[c[1]].input = c[2] /\ jobs[c[1]].success < c[2]
    BY DEF ClaimsCurrent, Owns
  <2>1. c \in work[w].mine
    BY DEF Stops, Stays
  <2> QED
    BY <2>1 DEF ClaimsCurrent
<1>8. ConsolidationCurrent'
  <2> SUFFICES ASSUME NEW w \in Workers, Consolidates(w)', Owns(global', w)
               PROVE  /\ Dirty' /\ work'[w].mark <= global'.input
                      /\ pc'[w] = "agent" /\ work'[w].mark = global'.input =>
                            \A t \in Present : Snapshot(t) \in work'[w].view
    BY DEF ConsolidationCurrent, Owns, Present, Snapshot
  <2>1. Stays(w) /\ Consolidates(w)
    BY DEF Stops, Stays, Consolidates
  <2>2. Owns(global, w) /\ global'.input = global.input
    BY <1>2 DEF Owns
  <2> QED
    BY <1>3, <2>1, <2>2 DEF ConsolidationCurrent, Stays
<1> QED
  BY <1>4, <1>5, <1>6, <1>7, <1>8

\* Time, turns, modes, citations, ageing and the prune at the start of a worker.
LEMMA QuietActions ==
    ASSUME IndInv,
           \/ Tick \/ \E w \in Workers : Begin(w)
           \/ \E t \in Threads : \/ Converse(t) \/ Cite(t) \/ Age(t)
                                 \/ \E m \in {"enabled", "disabled"} : SetMode(t, m)
    PROVE  IndInv'
<1> USE MemoryAssumption DEF IndInv, history, threadVars, workerVars
<1>1. TypeOK /\ clock \in Nat
  BY DEF TypeOK, Clocks
<1>2. CASE Tick
  <2>1. TypeOK' /\ RowsKept
    BY <1>1, <1>2 DEF Tick, TypeOK, Clocks, RowsKept
  <2> QED
    BY <1>2, <2>1, QuietPreserves DEF Tick
<1>3. ASSUME NEW w \in Workers, Begin(w) PROVE IndInv'
  <2>1. RowsKept
    BY <1>3 DEF Begin, RowsKept
  <2>2. outputs' \in [Threads -> Rows \cup {NoRow}]
    BY <1>1, <1>3 DEF Begin, TypeOK
  <2>3. TypeOK'
    BY <1>1, <1>3, <2>2 DEF Begin, TypeOK
  <2> QED
    BY <1>1, <1>3, <2>1, <2>3, QuietPreserves DEF Begin, TypeOK
<1>4. ASSUME NEW t \in Threads, Converse(t) PROVE IndInv'
  <2>1. TypeOK' /\ RowsKept
    BY <1>1, <1>4 DEF Converse, Event, TypeOK, RowsKept
  <2> QED
    BY <1>4, <2>1, QuietPreserves DEF Converse
<1>5. ASSUME NEW t \in Threads, Cite(t) \/ Age(t) PROVE IndInv'
  <2>1. PICK b \in BOOLEAN : outputs' = [outputs EXCEPT ![t].fresh = b]
    BY <1>5 DEF Cite, Age
  <2>2. t \in Present /\ outputs[t] \in Rows
    BY <1>1, <1>5 DEF Cite, Age, Present, TypeOK
  <2>3. outputs' \in [Threads -> Rows \cup {NoRow}]
    BY <1>1, <2>1, <2>2 DEF TypeOK, Rows
  <2>4. RowsKept
    BY <1>1, <2>1, <2>2 DEF RowsKept, TypeOK, Rows, Present
  <2>5. TypeOK'
    BY <1>1, <1>5, <2>3 DEF Cite, Age, Event, TypeOK
  <2> QED
    BY <1>5, <2>4, <2>5, QuietPreserves DEF Cite, Age
<1>6. ASSUME NEW t \in Threads, NEW m \in {"enabled", "disabled"}, SetMode(t, m)
      PROVE  IndInv'
  <2>1. TypeOK' /\ RowsKept
    BY <1>1, <1>6 DEF SetMode, Event, TypeOK, RowsKept
  <2> QED
    BY <1>6, <2>1, QuietPreserves DEF SetMode
<1> QED
  BY <1>2, <1>3, <1>4, <1>5, <1>6

\* Leases and backoffs of the extraction jobs.
LEMMA JobLeases ==
    ASSUME IndInv, NEW t \in Threads,
           LeaseExpires(t) \/ LeaseLapses(t) \/ BackoffEnds(t)
    PROVE  IndInv'
<1> USE DEF IndInv, history, threadVars, workerVars
<1>1. /\ jobs' = [jobs EXCEPT ![t].leased = FALSE] \/ jobs' = [jobs EXCEPT ![t].backoff = FALSE]
      /\ jobs[t] # NoJob /\ jobs[t] \in Jobs
  BY DEF LeaseExpires, LeaseLapses, BackoffEnds, RunningJobs, TypeOK
<1>2. SameWatermarks(jobs[t], jobs'[t])
  <2>1. CASE jobs' = [jobs EXCEPT ![t].leased = FALSE]
    BY <1>1, <2>1 DEF SameWatermarks, Jobs, TypeOK
  <2>2. CASE jobs' = [jobs EXCEPT ![t].backoff = FALSE]
    BY <1>1, <2>2 DEF SameWatermarks, Jobs, TypeOK
  <2> QED
    BY <1>1, <2>1, <2>2
<1>3. /\ jobs' \in [Threads -> Jobs \cup {NoJob}]
      /\ \A u \in Threads : u # t => jobs'[u] = jobs[u]
  BY <1>1, <1>2 DEF SameWatermarks, TypeOK
<1>4. /\ UNCHANGED <<clock, updated, mode, outputs, global, pc, work, seen, base>>
      /\ events' \in 0..MaxEvents
  BY MemoryAssumption DEF LeaseExpires, LeaseLapses, BackoffEnds, Event, TypeOK
<1>5. TypeOK'
  BY <1>3, <1>4 DEF TypeOK
<1> QED
  BY <1>2, <1>3, <1>4, <1>5, JobRowPreserves

\* Leases and backoff of the global job.
LEMMA GlobalLeases ==
    ASSUME IndInv, GlobalLeaseExpires \/ GlobalLeaseLapses \/ GlobalBackoffEnds
    PROVE  IndInv'
<1> USE DEF IndInv, history, threadVars, workerVars
<1>1. /\ global' = [global EXCEPT !.leased = FALSE] \/ global' = [global EXCEPT !.backoff = FALSE]
      /\ global # NoJob /\ global \in Jobs
  BY DEF GlobalLeaseExpires, GlobalLeaseLapses, GlobalBackoffEnds, TypeOK
<1>2. SameWatermarks(global, global')
  BY <1>1 DEF SameWatermarks, Jobs
<1>3. /\ UNCHANGED <<clock, updated, mode, outputs, jobs, pc, work, seen, base>>
      /\ events' \in 0..MaxEvents
  BY MemoryAssumption DEF GlobalLeaseExpires, GlobalLeaseLapses, GlobalBackoffEnds, Event, TypeOK
<1>4. TypeOK'
  BY <1>2, <1>3 DEF TypeOK, SameWatermarks
<1> QED
  BY <1>2, <1>3, <1>4, GlobalRowPreserves DEF Stays

\* A worker that leaves has nothing left in its variables.
LEMMA LeaveStops ==
    ASSUME TypeOK, NEW w \in Workers, Leave(w)
    PROVE  /\ \A v \in Workers : Stops(v) \/ Stays(v)
           /\ pc' \in [Workers -> {"off", "scan", "claim", "extract", "select", "agent"}]
           /\ work' \in [Workers -> Works]
           /\ pc'[w] = "off"
<1>1. Idle \in Works
  BY DEF Idle, Works, Watermarks
<1> QED
  BY <1>1 DEF Leave, TypeOK, Stops, Stays, Idle

\* Heartbeats, failed consolidations and crashes.
LEMMA GlobalWorkerActions ==
    ASSUME IndInv, NEW w \in Workers,
           Heartbeat(w) \/ ConsolidationFails(w) \/ Crash(w)
    PROVE  IndInv'
<1> USE DEF IndInv, history, threadVars, workerVars
<1>1. /\ UNCHANGED <<clock, updated, mode, outputs, jobs, seen, base>>
      /\ events' \in 0..MaxEvents
  BY MemoryAssumption DEF Heartbeat, ConsolidationFails, Crash, Event, TypeOK
<1>2. UNCHANGED global \/ SameWatermarks(global, global')
  <2>1. CASE Heartbeat(w)
    <3>1. CASE Owns(global, w)
      <4>1. global \in Jobs /\ global # NoJob
        BY <3>1 DEF Owns, TypeOK
      <4>2. global' = [global EXCEPT !.leased = TRUE]
        BY <2>1, <3>1 DEF Heartbeat
      <4> QED
        BY <4>1, <4>2 DEF SameWatermarks, Jobs
    <3>2. CASE ~Owns(global, w)
      BY <2>1, <3>2 DEF Heartbeat
    <3> QED
      BY <3>1, <3>2
  <2>2. CASE ConsolidationFails(w)
    <3>1. CASE Owns(global, w)
      <4>1. global \in Jobs /\ global # NoJob /\ global.remaining > 0
        BY <3>1 DEF Owns, TypeOK, RetriesLeft, RunningFunded
      <4>2. /\ Failed(global) \in Jobs /\ Failed(global).status = "error"
            /\ Failed(global).input = global.input /\ Failed(global).success = global.success
        BY <4>1, FailedJob
      <4>3. global' = Failed(global)
        BY <2>2, <3>1 DEF ConsolidationFails
      <4> QED
        BY <4>1, <4>2, <4>3 DEF SameWatermarks
    <3>2. CASE ~Owns(global, w)
      BY <2>2, <3>2 DEF ConsolidationFails
    <3> QED
      BY <3>1, <3>2
  <2>3. CASE Crash(w)
    BY <2>3 DEF Crash
  <2> QED
    BY <2>1, <2>2, <2>3
<1>3. UNCHANGED <<pc, work>> \/ Leave(w)
  BY DEF Heartbeat, ConsolidationFails, Crash
<1>4. /\ \A v \in Workers : Stops(v) \/ Stays(v)
      /\ pc' \in [Workers -> {"off", "scan", "claim", "extract", "select", "agent"}]
      /\ work' \in [Workers -> Works]
  BY <1>3, LeaveStops DEF Stays, TypeOK
<1>5. TypeOK'
  BY <1>1, <1>2, <1>4 DEF TypeOK, SameWatermarks
<1> QED
  BY <1>1, <1>2, <1>4, <1>5, GlobalRowPreserves

\* A reset of the memories: what workers still hold finds no row to change.
LEMMA ClearPreserves ==
    ASSUME IndInv, Clear
    PROVE  IndInv'
<1> USE DEF IndInv, history, threadVars, workerVars
<1>1. Present' = {}
  BY DEF Clear, Present
<1>2. TypeOK'
  BY MemoryAssumption DEF Clear, Event, TypeOK
<1>3. NothingMissed' /\ BaselineConsolidated' /\ OutputAtWatermark' /\ InputAhead'
  BY <1>1 DEF NothingMissed, BaselineConsolidated, OutputAtWatermark, InputAhead, Clear
<1>4. RetriesLeft' /\ WorkShape'
  BY DEF RetriesLeft, RunningFunded, WorkShape, Clear
<1>5. ClaimsCurrent'
  <2> SUFFICES ASSUME NEW w \in Workers, NEW c \in work'[w].mine
               PROVE  ~Owns(jobs'[c[1]], w)
    BY DEF ClaimsCurrent, Owns
  <2>1. c[1] \in Threads
    BY DEF TypeOK, Works, Snapshots, Clear
  <2> QED
    BY <2>1 DEF Owns, Clear
<1>6. ConsolidationCurrent'
  BY DEF ConsolidationCurrent, Owns, Clear
<1> QED
  BY <1>2, <1>3, <1>4, <1>5, <1>6

----------------------------------------------------------------------------
(* Phase 1. *)

\* The scan holds at most one candidate of each thread.
LEMMA ScanPreserves ==
    ASSUME IndInv, NEW w \in Workers, Scan(w)
    PROVE  IndInv'
<1> USE DEF IndInv, history, threadVars, workerVars
<1>1. Candidates \subseteq Snapshots /\ \A c, d \in Candidates : c[1] = d[1] => c = d
  BY DEF Candidates, Snapshots, TypeOK
<1>2. /\ pc[w] = "scan" /\ pc'[w] = IF Candidates = {} THEN "extract" ELSE "claim"
      /\ \A v \in Workers : v # w => pc'[v] = pc[v] /\ work'[v] = work[v]
      /\ work'[w].cand = Candidates /\ work'[w].mine = work[w].mine
      /\ work'[w].sel = work[w].sel /\ work'[w].view = work[w].view
      /\ UNCHANGED <<clock, updated, mode, outputs, jobs, global, events, seen, base>>
  BY DEF Scan, TypeOK, Works
<1>3. TypeOK'
  <2>1. work' \in [Workers -> Works]
    <3>1. work \in [Workers -> Works] /\ work' = [work EXCEPT ![w].cand = Candidates]
      BY DEF Scan, TypeOK
    <3>2. [work[w] EXCEPT !.cand = Candidates] \in Works
      BY <1>1, <3>1 DEF Works
    <3> QED
      BY <3>1, <3>2
  <2>2. pc' = [pc EXCEPT ![w] = IF Candidates = {} THEN "extract" ELSE "claim"]
    BY DEF Scan
  <2>3. pc' \in [Workers -> {"off", "scan", "claim", "extract", "select", "agent"}]
    BY <2>2 DEF TypeOK
  <2> QED
    BY <1>2, <2>1, <2>3 DEF TypeOK
<1>4. WorkShape'
  <2> SUFFICES ASSUME NEW v \in Workers
               PROVE  /\ pc'[v] # "claim" => work'[v].cand = {}
                      /\ pc'[v] \notin {"claim", "extract"} => work'[v].mine = {}
                      /\ \A c, d \in work'[v].cand \cup work'[v].mine : c[1] = d[1] => c = d
                      /\ work'[v].sel \subseteq work'[v].view
    BY DEF WorkShape
  <2>1. CASE v = w
    BY <1>1, <1>2, <2>1 DEF WorkShape
  <2>2. CASE v # w
    BY <1>2, <2>2 DEF WorkShape
  <2> QED
    BY <2>1, <2>2
<1>5. ClaimsCurrent'
  BY <1>2 DEF ClaimsCurrent, Owns
<1>6. ConsolidationCurrent'
  BY <1>2 DEF ConsolidationCurrent, Consolidates, Owns, Dirty, Present, Snapshot
<1>7. NothingMissed' /\ BaselineConsolidated' /\ OutputAtWatermark' /\ RetriesLeft' /\ InputAhead'
  BY <1>2 DEF NothingMissed, BaselineConsolidated, OutputAtWatermark, RetriesLeft,
     RunningFunded, InputAhead, Dirty, Present, Snapshot
<1> QED
  BY <1>3, <1>4, <1>5, <1>6, <1>7

\* A claim takes the job from whoever held it, for the state that was scanned.
LEMMA TryClaimPreserves ==
    ASSUME IndInv, NEW w \in Workers, NEW c \in work[w].cand, TryClaim(w, c)
    PROVE  IndInv'
<1> USE DEF IndInv, history, threadVars, workerVars
<1> DEFINE t == c[1]
           s == c[2]
           won == Claimable(t, s)
           mine == work[w].mine \cup (IF won THEN {c} ELSE {})
<1>1. c \in Snapshots /\ t \in Threads /\ s \in Clocks /\ s \in Nat
  BY DEF TypeOK, Works, Snapshots, Clocks
<1>2. /\ pc[w] = "claim" /\ pc'[w] \in {"claim", "extract"}
      /\ pc'[w] = "extract" => work'[w].cand = {}
      /\ work'[w].mine = mine /\ work'[w].cand \subseteq work[w].cand
      /\ work'[w].sel = work[w].sel /\ work'[w].view = work[w].view
      /\ \A v \in Workers : v # w => pc'[v] = pc[v] /\ work'[v] = work[v]
      /\ UNCHANGED <<clock, updated, mode, outputs, global, events, seen, base>>
  BY DEF TryClaim, TypeOK, Works
<1>3. /\ ~won => UNCHANGED jobs
      /\ \A u \in Threads : u # t => jobs'[u] = jobs[u]
      /\ won => /\ jobs'[t] \in Jobs /\ jobs'[t] # NoJob /\ jobs'[t].status = "running"
                /\ jobs'[t].owner = w /\ jobs'[t].input = s /\ jobs'[t].success < s
                /\ jobs'[t].remaining > 0
                /\ jobs[t] # NoJob => jobs'[t].success = jobs[t].success
  <2>1. /\ ~won => UNCHANGED jobs
        /\ won => jobs' = [jobs EXCEPT ![t] = ClaimedAt(t, s, w)]
    BY DEF TryClaim
  <2>2. jobs \in [Threads -> Jobs \cup {NoJob}]
    BY DEF TypeOK
  <2>3. ASSUME won
        PROVE  LET new == ClaimedAt(t, s, w)
               IN  /\ new \in Jobs /\ new # NoJob /\ new.status = "running" /\ new.owner = w
                   /\ new.input = s /\ new.success < s /\ new.remaining > 0
                   /\ jobs[t] # NoJob => new.success = jobs[t].success
    BY <1>1, <2>3, ClaimedAtJob
  <2> HIDE DEF won
  <2> QED
    BY <1>1, <2>1, <2>2, <2>3
<1>4. TypeOK'
  <2>1. jobs' \in [Threads -> Jobs \cup {NoJob}]
    <3>1. DOMAIN jobs' = Threads /\ jobs' = [u \in Threads |-> jobs'[u]]
      BY DEF TryClaim, TypeOK
    <3>2. \A u \in Threads : jobs'[u] \in Jobs \cup {NoJob}
      BY <1>3 DEF TypeOK
    <3> QED
      BY <3>1, <3>2
  <2>2. work' \in [Workers -> Works]
    <3>1. mine \subseteq Snapshots
      BY <1>1 DEF TypeOK, Works
    <3>2. PICK cand \in SUBSET work[w].cand :
              work' = [work EXCEPT ![w].mine = mine, ![w].cand = cand]
      BY DEF TryClaim
    <3>3. cand \subseteq Snapshots
      BY DEF TypeOK, Works
    <3> HIDE DEF mine
    <3> DEFINE r == [work[w] EXCEPT !.mine = mine, !.cand = cand]
    <3>4. work[w] \in Works
      BY DEF TypeOK
    <3>5. r \in Works
      BY <3>1, <3>3, <3>4 DEF Works
    <3>6. work' = [work EXCEPT ![w] = r]
      BY <3>2
    <3> HIDE DEF r
    <3> QED
      BY <3>5, <3>6 DEF TypeOK
  <2>3. pc' \in [Workers -> {"off", "scan", "claim", "extract", "select", "agent"}]
    BY DEF TryClaim, TypeOK
  <2> QED
    BY <1>2, <2>1, <2>2, <2>3 DEF TypeOK
<1>5. WorkShape'
  <2> SUFFICES ASSUME NEW v \in Workers
               PROVE  /\ pc'[v] # "claim" => work'[v].cand = {}
                      /\ pc'[v] \notin {"claim", "extract"} => work'[v].mine = {}
                      /\ \A a, b \in work'[v].cand \cup work'[v].mine : a[1] = b[1] => a = b
                      /\ work'[v].sel \subseteq work'[v].view
    BY DEF WorkShape
  <2>1. CASE v = w
    <3>1. work'[w].cand \cup work'[w].mine \subseteq work[w].cand \cup work[w].mine
      BY <1>2
    <3> QED
      BY <1>2, <2>1, <3>1 DEF WorkShape
  <2>2. CASE v # w
    BY <1>2, <2>2 DEF WorkShape
  <2> QED
    BY <2>1, <2>2
<1>6. ClaimsCurrent'
  <2> SUFFICES ASSUME NEW v \in Workers, NEW d \in work'[v].mine, Owns(jobs'[d[1]], v)
               PROVE  jobs'[d[1]].input = d[2] /\ jobs'[d[1]].success < d[2]
    BY DEF ClaimsCurrent, Owns
  <2>1. d[1] \in Threads
    BY <1>4 DEF TypeOK, Works, Snapshots
  <2>2. CASE won /\ d[1] = t
    <3>1. v = w
      BY <1>3, <2>2 DEF Owns
    <3>2. d \in work[w].cand \cup work[w].mine
      BY <1>2, <3>1
    <3>3. d = c
      BY <2>2, <3>2 DEF WorkShape
    <3> QED
      BY <1>3, <2>2, <3>3
  <2>3. CASE ~(won /\ d[1] = t)
    <3>1. jobs'[d[1]] = jobs[d[1]]
      BY <1>3, <2>1, <2>3
    <3>2. d \in work[v].mine \/ (won /\ d = c)
      BY <1>2
    <3> QED
      BY <2>3, <3>1, <3>2 DEF ClaimsCurrent
  <2> QED
    BY <2>2, <2>3
<1>7. OutputAtWatermark'
  <2> SUFFICES ASSUME NEW u \in Present
               PROVE  jobs'[u] # NoJob /\ outputs[u].src = jobs'[u].success
    BY <1>2 DEF OutputAtWatermark, Present
  <2>1. u \in Threads /\ jobs[u] # NoJob /\ outputs[u].src = jobs[u].success
    BY DEF OutputAtWatermark, Present
  <2>2. jobs'[u] = jobs[u] \/ (won /\ u = t)
    BY <1>3, <2>1
  <2> QED
    BY <1>3, <2>1, <2>2
<1>8. RetriesLeft'
  <2>1. \A u \in Threads : RunningFunded(jobs'[u])
    BY <1>3 DEF RetriesLeft, RunningFunded
  <2> QED
    BY <1>2, <2>1 DEF RetriesLeft, RunningFunded
<1>9. ConsolidationCurrent'
  BY <1>2 DEF ConsolidationCurrent, Consolidates, Owns, Dirty, Present, Snapshot
<1>10. NothingMissed' /\ BaselineConsolidated' /\ InputAhead'
  BY <1>2 DEF NothingMissed, BaselineConsolidated, InputAhead, Dirty, Present, Snapshot
<1> QED
  BY <1>4, <1>5, <1>6, <1>7, <1>8, <1>9, <1>10

\* What the advance of the global watermark to cover s does: the job is dirty, and no
\* consolidation that runs is level with it.
LEMMA EnqueuePreserves ==
    ASSUME IndInv, NEW s \in Nat \ {0}, global' = Enqueued(s), UNCHANGED pc,
           outputs' \in [Threads -> Rows \cup {NoRow}],
           \A u \in Threads : outputs'[u] # NoRow =>
              \/ outputs[u] # NoRow /\ outputs'[u].src = outputs[u].src
              \/ outputs'[u].src <= s,
           \A w \in Workers : work'[w].mark = work[w].mark
    PROVE  /\ global' \in Jobs /\ RunningFunded(global')
           /\ NothingMissed' /\ InputAhead' /\ ConsolidationCurrent'
<1> USE DEF IndInv
<1>1. /\ global' \in Jobs /\ global' # NoJob /\ s <= global'.input
      /\ global'.success < global'.input /\ global'.remaining = Retries
      /\ global # NoJob => /\ global.input < global'.input
                           /\ global'.owner = global.owner
                           /\ global'.status = "running" => global.status = "running"
      /\ global = NoJob => global'.status = "pending"
  BY EnqueuedJob DEF TypeOK
<1>2. /\ global'.input \in Nat /\ global'.success \in Nat
      /\ global # NoJob => global.input \in Nat
  BY <1>1 DEF Jobs, Watermarks, TypeOK
<1>3. Dirty'
  BY <1>1, <1>2 DEF Dirty
<1>4. InputAhead'
  <2>1. ASSUME NEW u \in Present' PROVE outputs'[u].src <= global'.input
    <3>1. u \in Threads /\ outputs'[u] # NoRow /\ outputs'[u].src \in Nat
      BY DEF Present, Rows, Clocks
    <3>2. CASE outputs[u] # NoRow /\ outputs'[u].src = outputs[u].src
      BY <1>1, <1>2, <3>1, <3>2 DEF InputAhead, Present
    <3>3. CASE outputs'[u].src <= s
      BY <1>1, <1>2, <3>1, <3>3
    <3> QED
      BY <3>1, <3>2, <3>3
  <2> QED
    BY <1>1, <1>2, <2>1 DEF InputAhead
<1>5. ConsolidationCurrent'
  <2> SUFFICES ASSUME NEW w \in Workers, Consolidates(w), Owns(global', w)
               PROVE  work'[w].mark < global'.input /\ work'[w].mark \in Nat
    BY <1>2, <1>3 DEF ConsolidationCurrent, Consolidates, Owns
  <2>1. Owns(global, w)
    BY <1>1 DEF Owns
  <2>2. work[w].mark <= global.input /\ work[w].mark \in Nat
    BY <2>1 DEF ConsolidationCurrent, TypeOK, Works, Watermarks
  <2> QED
    BY <1>1, <1>2, <2>1, <2>2 DEF Owns
<1>6. RunningFunded(global')
  BY <1>1, MemoryAssumption DEF RunningFunded
<1> QED
  BY <1>1, <1>3, <1>4, <1>5, <1>6 DEF NothingMissed

\* A thread of the baseline is marked polluted.
LEMMA PollutePreserves ==
    ASSUME IndInv, NEW t \in Threads, Pollute(t)
    PROVE  IndInv'
<1> USE DEF IndInv, history, threadVars, workerVars
<1>1. /\ UNCHANGED <<clock, updated, outputs, jobs, pc, work, seen, base>>
      /\ mode' \in [Threads -> {"enabled", "disabled", "polluted"}]
      /\ events' \in 0..MaxEvents
      /\ clock \in Nat \ {0}
  BY MemoryAssumption DEF Pollute, Event, TypeOK, Clocks
<1>2. CASE UNCHANGED global
  <2>1. TypeOK' /\ RowsKept
    BY <1>1, <1>2 DEF TypeOK, RowsKept
  <2> QED
    BY <1>1, <1>2, <2>1, QuietPreserves
<1>3. CASE global' = Enqueued(clock)
  <2>1. outputs' \in [Threads -> Rows \cup {NoRow}]
    BY <1>1 DEF TypeOK
  <2>2. /\ global' \in Jobs /\ RunningFunded(global')
        /\ NothingMissed' /\ InputAhead' /\ ConsolidationCurrent'
    BY <1>1, <1>3, <2>1, EnqueuePreserves
  <2>3. TypeOK'
    BY <1>1, <2>2 DEF TypeOK
  <2>4. BaselineConsolidated' /\ OutputAtWatermark' /\ WorkShape' /\ ClaimsCurrent' /\ RetriesLeft'
    BY <1>1, <2>2 DEF BaselineConsolidated, OutputAtWatermark, WorkShape, ClaimsCurrent,
       RetriesLeft, RunningFunded, Present, Owns
  <2> QED
    BY <2>2, <2>3, <2>4
<1> QED
  BY <1>2, <1>3 DEF Pollute

\* The end of an extraction takes it out of the worker's set.
LEMMA EndJobStep ==
    ASSUME IndInv, NEW w \in Workers, NEW c \in work[w].mine, EndJob(w, c)
    PROVE  /\ c[1] \in Threads /\ c[2] \in Clocks /\ c[2] \in Nat \ {0}
           /\ work' \in [Workers -> Works]
           /\ UNCHANGED <<clock, updated, mode, pc, events, seen, base>>
           /\ \A v \in Workers :
                /\ work'[v].mine \subseteq work[v].mine
                /\ work'[v].cand = work[v].cand /\ work'[v].mark = work[v].mark
                /\ work'[v].sel = work[v].sel /\ work'[v].view = work[v].view
<1>1. c[1] \in Threads /\ c[2] \in Clocks /\ c[2] \in Nat \ {0}
  BY MemoryAssumption DEF IndInv, TypeOK, Works, Snapshots, Clocks
<1> QED
  BY <1>1 DEF EndJob, IndInv, TypeOK, Works, history, threadVars

\* The job of a worker that still owns it is done, at the state the worker extracted;
\* rows is what the outputs become.
LEMMA SuccessPreserves ==
    ASSUME IndInv, NEW w \in Workers, NEW c \in work[w].mine, EndJob(w, c),
           Owns(jobs[c[1]], w), jobs' = [jobs EXCEPT ![c[1]] = Succeeded(@)],
           outputs' \in [Threads -> Rows \cup {NoRow}],
           \A u \in Threads : u # c[1] => outputs'[u] = outputs[u],
           outputs'[c[1]] # NoRow => /\ outputs'[c[1]].src = c[2]
                                     /\ \/ outputs'[c[1]].snap = 0
                                        \/ /\ outputs[c[1]] # NoRow
                                           /\ outputs'[c[1]].snap = outputs[c[1]].snap,
           \/ global' = Enqueued(c[2])
           \/ UNCHANGED <<global, outputs>> /\ c[1] \notin Present
    PROVE  IndInv'
<1> USE DEF IndInv
<1> DEFINE t == c[1]
<1>1. /\ t \in Threads /\ c[2] \in Nat \ {0} /\ work' \in [Workers -> Works]
      /\ UNCHANGED <<clock, updated, mode, pc, events, seen, base>>
      /\ \A v \in Workers :
           /\ work'[v].mine \subseteq work[v].mine
           /\ work'[v].cand = work[v].cand /\ work'[v].mark = work[v].mark
           /\ work'[v].sel = work[v].sel /\ work'[v].view = work[v].view
  BY EndJobStep
<1>2. jobs[t] \in Jobs /\ jobs[t] # NoJob /\ jobs[t].input = c[2]
  BY <1>1 DEF ClaimsCurrent, Owns, TypeOK
<1>3. /\ jobs'[t] \in Jobs /\ jobs'[t] # NoJob /\ jobs'[t].status = "done"
      /\ jobs'[t].success = c[2]
      /\ jobs' \in [Threads -> Jobs \cup {NoJob}]
      /\ \A u \in Threads : u # t => jobs'[u] = jobs[u]
  <2>1. jobs'[t] = Succeeded(jobs[t]) /\ jobs \in [Threads -> Jobs \cup {NoJob}]
    BY <1>1 DEF TypeOK
  <2>2. /\ Succeeded(jobs[t]) \in Jobs /\ Succeeded(jobs[t]).status = "done"
        /\ Succeeded(jobs[t]).success = c[2]
    BY <1>2, SucceededJob
  <2> QED
    BY <1>1, <2>1, <2>2, MemoryAssumption
<1>4. global' \in Jobs \cup {NoJob} /\ RunningFunded(global') /\ NothingMissed' /\ InputAhead'
      /\ ConsolidationCurrent'
  <2>1. CASE global' = Enqueued(c[2])
    <3>1. \A u \in Threads : outputs'[u] # NoRow =>
              \/ outputs[u] # NoRow /\ outputs'[u].src = outputs[u].src
              \/ outputs'[u].src <= c[2]
      BY <1>1
    <3> QED
      BY <1>1, <2>1, <3>1, EnqueuePreserves
  <2>2. CASE UNCHANGED <<global, outputs>>
    BY <1>1, <2>2 DEF TypeOK, RetriesLeft, NothingMissed, InputAhead, ConsolidationCurrent,
       Consolidates, Owns, Dirty, Present, Snapshot
  <2> QED
    BY <2>1, <2>2
<1>5. TypeOK'
  BY <1>1, <1>3, <1>4 DEF TypeOK
<1>6. OutputAtWatermark'
  <2> SUFFICES ASSUME NEW u \in Threads, outputs'[u] # NoRow
               PROVE  jobs'[u] # NoJob /\ outputs'[u].src = jobs'[u].success
    BY DEF OutputAtWatermark, Present
  <2>1. CASE u = t
    BY <1>3, <2>1
  <2>2. CASE u # t
    BY <1>3, <2>2 DEF OutputAtWatermark, Present
  <2> QED
    BY <2>1, <2>2
<1>7. BaselineConsolidated'
  <2> SUFFICES ASSUME NEW u \in Threads, outputs'[u] # NoRow, outputs'[u].snap # 0
               PROVE  <<u, outputs'[u].snap>> \in base
    BY <1>1 DEF BaselineConsolidated, Present
  <2>1. outputs[u] # NoRow /\ outputs'[u].snap = outputs[u].snap
    BY <1>1
  <2> QED
    BY <2>1 DEF BaselineConsolidated, Present
<1>8. WorkShape'
  BY <1>1 DEF WorkShape
<1>9. ClaimsCurrent'
  <2> SUFFICES ASSUME NEW v \in Workers, NEW d \in work'[v].mine, Owns(jobs'[d[1]], v)
               PROVE  jobs'[d[1]].input = d[2] /\ jobs'[d[1]].success < d[2]
    BY DEF ClaimsCurrent, Owns
  <2>1. d \in work[v].mine /\ d[1] \in Threads /\ d[1] # t
    BY <1>1, <1>3 DEF Owns, TypeOK, Works, Snapshots
  <2> QED
    BY <1>3, <2>1 DEF ClaimsCurrent, Owns
<1>10. RetriesLeft'
  BY <1>3, <1>4 DEF RetriesLeft, RunningFunded
<1> QED
  BY <1>4, <1>5, <1>6, <1>7, <1>8, <1>9, <1>10

\* A memory is stored at the watermark its job was claimed for; a worker that lost the
\* job stores nothing.
LEMMA JobSucceedsPreserves ==
    ASSUME IndInv, NEW w \in Workers, NEW c \in work[w].mine, JobSucceeds(w, c)
    PROVE  IndInv'
<1> USE DEF IndInv
<1> DEFINE t == c[1]
           s == c[2]
<1>1. /\ EndJob(w, c) /\ t \in Threads /\ s \in Clocks /\ s \in Nat \ {0}
      /\ work' \in [Workers -> Works]
      /\ UNCHANGED <<clock, updated, mode, pc, events, seen, base>>
      /\ \A v \in Workers :
           /\ work'[v].mine \subseteq work[v].mine
           /\ work'[v].cand = work[v].cand /\ work'[v].mark = work[v].mark
           /\ work'[v].sel = work[v].sel /\ work'[v].view = work[v].view
  BY EndJobStep DEF JobSucceeds
<1>2. CASE ~Owns(jobs[t], w)
  <2>1. UNCHANGED <<jobs, outputs, global>>
    BY <1>2 DEF JobSucceeds
  <2>2. TypeOK'
    BY <1>1, <2>1 DEF TypeOK
  <2> QED
    BY <1>1, <2>1, <2>2, JobRowPreserves
<1>3. CASE Owns(jobs[t], w)
  <2>1. /\ jobs' = [jobs EXCEPT ![t] = Succeeded(@)] /\ StoreOutput(t, s)
        /\ global' = Enqueued(s)
    BY <1>3 DEF JobSucceeds
  <2>2. outputs \in [Threads -> Rows \cup {NoRow}] /\ NoRow \notin Rows
    BY MemoryAssumption DEF TypeOK
  <2>3. PICK fresh \in IF t \in Present THEN {TRUE, outputs[t].fresh} ELSE {TRUE} :
            outputs' = [outputs EXCEPT ![t] =
              IF t \notin Present THEN [src |-> s, fresh |-> fresh, snap |-> 0]
              ELSE IF s >= @.src THEN [@ EXCEPT !.src = s, !.fresh = fresh]
              ELSE @]
    BY <2>1 DEF StoreOutput
  <2>4. \A u \in Threads : u # t => outputs'[u] = outputs[u]
    BY <2>2, <2>3
  <2>5. CASE t \notin Present
    <3>1. 0 \in 0..MaxClock
      BY MemoryAssumption
    <3>2. /\ outputs'[t] = [src |-> s, fresh |-> TRUE, snap |-> 0]
          /\ outputs'[t] \in Rows
      BY <1>1, <2>2, <2>3, <2>5, <3>1 DEF Rows
    <3>3. outputs' \in [Threads -> Rows \cup {NoRow}]
      BY <2>2, <2>3, <3>2
    <3>4. outputs'[t].src = s /\ outputs'[t].snap = 0
      BY <3>2
    <3> HIDE DEF t, s
    <3> QED
      BY <1>1, <1>3, <2>1, <2>4, <3>3, <3>4, SuccessPreserves DEF t, s
  <2>6. CASE t \in Present
    <3>1. outputs[t] \in Rows /\ outputs[t] # NoRow
      BY <1>1, <2>2, <2>6 DEF Present
    <3>2. s >= outputs[t].src
      <4>1. outputs[t].src = jobs[t].success /\ jobs[t].success < s
        BY <1>3, <2>6 DEF OutputAtWatermark, ClaimsCurrent
      <4> QED
        BY <1>1, <3>1, <4>1 DEF Rows, Clocks
    <3>3. fresh \in BOOLEAN
      BY <2>6, <3>1 DEF Rows
    <3>4. outputs'[t] = [outputs[t] EXCEPT !.src = s, !.fresh = fresh]
      BY <1>1, <2>2, <2>3, <2>6, <3>2
    <3>5. outputs'[t] \in Rows /\ outputs'[t].src = s /\ outputs'[t].snap = outputs[t].snap
      BY <1>1, <3>1, <3>3, <3>4 DEF Rows
    <3>6. outputs' \in [Threads -> Rows \cup {NoRow}]
      BY <2>2, <2>3, <3>5
    <3> QED
      BY <1>1, <1>3, <2>1, <2>4, <3>1, <3>5, <3>6, SuccessPreserves
  <2> QED
    BY <2>5, <2>6
<1> QED
  BY <1>2, <1>3

\* An extraction without a memory removes the thread's row.
LEMMA JobHasNoOutputPreserves ==
    ASSUME IndInv, NEW w \in Workers, NEW c \in work[w].mine, JobHasNoOutput(w, c)
    PROVE  IndInv'
<1> USE DEF IndInv
<1> DEFINE t == c[1]
<1>1. /\ EndJob(w, c) /\ t \in Threads
      /\ work' \in [Workers -> Works]
      /\ UNCHANGED <<clock, updated, mode, pc, events, seen, base>>
      /\ \A v \in Workers :
           /\ work'[v].mine \subseteq work[v].mine
           /\ work'[v].cand = work[v].cand /\ work'[v].mark = work[v].mark
           /\ work'[v].sel = work[v].sel /\ work'[v].view = work[v].view
  BY EndJobStep DEF JobHasNoOutput
<1>2. CASE ~Owns(jobs[t], w)
  <2>1. UNCHANGED <<jobs, outputs, global>>
    BY <1>2 DEF JobHasNoOutput
  <2>2. TypeOK'
    BY <1>1, <2>1 DEF TypeOK
  <2> QED
    BY <1>1, <2>1, <2>2, JobRowPreserves
<1>3. CASE Owns(jobs[t], w)
  <2>1. /\ jobs' = [jobs EXCEPT ![t] = Succeeded(@)]
        /\ outputs' = [outputs EXCEPT ![t] = NoRow]
        /\ global' = IF t \in Present THEN Enqueued(jobs[t].input) ELSE global
    BY <1>3 DEF JobHasNoOutput
  <2>2. outputs \in [Threads -> Rows \cup {NoRow}]
    BY DEF TypeOK
  <2>3. /\ outputs' \in [Threads -> Rows \cup {NoRow}]
        /\ \A u \in Threads : u # t => outputs'[u] = outputs[u]
        /\ outputs'[t] = NoRow
    BY <1>1, <2>1, <2>2
  <2>4. jobs[t].input = c[2]
    BY <1>3 DEF ClaimsCurrent
  <2>5. \/ global' = Enqueued(c[2])
        \/ UNCHANGED <<global, outputs>> /\ t \notin Present
    <3>1. t \notin Present => outputs' = outputs
      BY <1>1, <2>1, <2>2 DEF Present
    <3> QED
      BY <2>1, <2>4, <3>1
  <2> QED
    BY <1>1, <1>3, <2>1, <2>3, <2>5, SuccessPreserves
<1> QED
  BY <1>2, <1>3

\* A failed extraction costs a retry of the job, if the worker still owns it.
LEMMA JobFailsPreserves ==
    ASSUME IndInv, NEW w \in Workers, NEW c \in work[w].mine, JobFails(w, c)
    PROVE  IndInv'
<1> USE DEF IndInv
<1> DEFINE t == c[1]
<1>1. /\ t \in Threads /\ work' \in [Workers -> Works]
      /\ UNCHANGED <<clock, updated, mode, pc, events, seen, base>>
      /\ \A v \in Workers :
           /\ work'[v].mine \subseteq work[v].mine
           /\ work'[v].cand = work[v].cand /\ work'[v].mark = work[v].mark
           /\ work'[v].sel = work[v].sel /\ work'[v].view = work[v].view
  BY EndJobStep DEF JobFails
<1>2. /\ UNCHANGED <<outputs, global>> /\ jobs \in [Threads -> Jobs \cup {NoJob}]
      /\ jobs' = [jobs EXCEPT ![t] = IF Owns(@, w) THEN Failed(@) ELSE @]
  BY DEF JobFails, TypeOK
<1>3. Owns(jobs[t], w) => SameWatermarks(jobs[t], Failed(jobs[t]))
  <2> SUFFICES ASSUME Owns(jobs[t], w) PROVE SameWatermarks(jobs[t], Failed(jobs[t]))
    OBVIOUS
  <2>1. jobs[t] \in Jobs /\ jobs[t].remaining > 0 /\ jobs[t] # NoJob
    BY <1>1, <1>2 DEF Owns, RetriesLeft, RunningFunded
  <2>2. /\ Failed(jobs[t]) \in Jobs /\ Failed(jobs[t]).status = "error"
        /\ Failed(jobs[t]).input = jobs[t].input /\ Failed(jobs[t]).success = jobs[t].success
    BY <2>1, FailedJob
  <2> QED
    BY <2>1, <2>2 DEF SameWatermarks
<1>4. \A u \in Threads : jobs'[u] = jobs[u] \/ SameWatermarks(jobs[u], jobs'[u])
  BY <1>1, <1>2, <1>3
<1>5. TypeOK'
  BY <1>1, <1>2, <1>3 DEF TypeOK, SameWatermarks
<1> QED
  BY <1>1, <1>2, <1>4, <1>5, JobRowPreserves

----------------------------------------------------------------------------
(* Phase 2. *)

\* The claim of the global job: its mark is the watermark, and the job is dirty.
LEMMA ClaimGlobalPreserves ==
    ASSUME IndInv, NEW w \in Workers, ClaimGlobal(w)
    PROVE  IndInv'
<1> USE DEF IndInv, history, threadVars, workerVars
<1>1. /\ pc[w] = "extract" /\ work[w].mine = {} /\ work[w].cand = {}
      /\ UNCHANGED <<clock, updated, mode, outputs, jobs, events, seen, base>>
  BY DEF ClaimGlobal, WorkShape
<1>2. CASE ~GlobalClaimable
  <2>1. pc' = [pc EXCEPT ![w] = "off"] /\ UNCHANGED <<global, work>>
    BY <1>2 DEF ClaimGlobal
  <2>2. TypeOK'
    BY <1>1, <2>1 DEF TypeOK
  <2>3. \A v \in Workers : Stops(v) \/ Stays(v)
    BY <1>1, <2>1 DEF Stops, Stays, WorkShape, TypeOK
  <2> QED
    BY <1>1, <2>1, <2>2, <2>3, GlobalRowPreserves
<1>3. CASE GlobalClaimable
  <2>1. /\ global' = Claimed(global, w) /\ work' = [work EXCEPT ![w].mark = global.input]
        /\ pc' = [pc EXCEPT ![w] = "select"]
    BY <1>3 DEF ClaimGlobal
  <2>2. Dirty /\ global # NoJob /\ global \in Jobs /\ global.remaining > 0
    BY <1>3 DEF GlobalClaimable, Dirty, TypeOK
  <2>3. /\ global' \in Jobs /\ global'.status = "running" /\ global'.owner = w
        /\ global'.input = global.input /\ global'.success = global.success
        /\ global'.remaining = global.remaining /\ global' # NoJob
    BY <2>1, <2>2, ClaimedJob, MemoryAssumption
  <2>4. /\ work' \in [Workers -> Works]
        /\ \A v \in Workers : v # w => pc'[v] = pc[v] /\ work'[v] = work[v]
        /\ pc'[w] = "select" /\ work'[w].mark = global.input
        /\ work'[w].cand = work[w].cand /\ work'[w].mine = work[w].mine
        /\ work'[w].sel = work[w].sel /\ work'[w].view = work[w].view
    BY <2>1, <2>2 DEF TypeOK, Works, Jobs
  <2>5. TypeOK'
    BY <1>1, <2>1, <2>3, <2>4 DEF TypeOK
  <2>6. Dirty'
    BY <2>2, <2>3 DEF Dirty
  <2>7. NothingMissed' /\ BaselineConsolidated' /\ OutputAtWatermark'
    BY <1>1, <2>6 DEF NothingMissed, BaselineConsolidated, OutputAtWatermark, Present
  <2>8. RetriesLeft' /\ InputAhead'
    BY <1>1, <2>2, <2>3 DEF RetriesLeft, RunningFunded, InputAhead, Present
  <2>9. WorkShape'
    <3> SUFFICES ASSUME NEW v \in Workers
                 PROVE  /\ pc'[v] # "claim" => work'[v].cand = {}
                        /\ pc'[v] \notin {"claim", "extract"} => work'[v].mine = {}
                        /\ \A c, d \in work'[v].cand \cup work'[v].mine : c[1] = d[1] => c = d
                        /\ work'[v].sel \subseteq work'[v].view
      BY DEF WorkShape
    <3>1. CASE v = w
      BY <1>1, <2>4, <3>1 DEF WorkShape
    <3>2. CASE v # w
      BY <2>4, <3>2 DEF WorkShape
    <3> QED
      BY <3>1, <3>2
  <2>10. ClaimsCurrent'
    BY <1>1, <2>4 DEF ClaimsCurrent, Owns
  <2>11. ConsolidationCurrent'
    <3> SUFFICES ASSUME NEW v \in Workers, Owns(global', v)
                 PROVE  work'[v].mark <= global'.input /\ pc'[v] # "agent"
      BY <2>6 DEF ConsolidationCurrent, Owns
    <3>1. v = w /\ global.input \in Nat
      BY <2>2, <2>3 DEF Owns, Jobs, Watermarks
    <3> QED
      BY <2>3, <2>4, <3>1
  <2> QED
    BY <2>5, <2>7, <2>8, <2>9, <2>10, <2>11
<1> QED
  BY <1>2, <1>3

\* The selection: the completion watermark is not past the input, since every row is
\* behind it, and the view has every row.
LEMMA SelectPreserves ==
    ASSUME IndInv, NEW w \in Workers, Select(w)
    PROVE  IndInv'
<1> USE DEF IndInv, history, threadVars, workerVars
<1>1. /\ pc[w] = "select" /\ pc' = [pc EXCEPT ![w] = "agent"]
      /\ UNCHANGED <<clock, updated, mode, outputs, jobs, global, events, seen, base>>
  BY DEF Select
<1>2. PICK chosen \in kSubset(Smaller(MaxSelected, Cardinality(Selectable)), Selectable) :
          work' = [work EXCEPT
                     ![w].sel = {Snapshot(t) : t \in chosen},
                     ![w].mark = Max({@} \cup {outputs[t].src : t \in chosen}),
                     ![w].view = {Snapshot(t) : t \in Present}]
  BY DEF Select
<1> DEFINE S == {work[w].mark} \cup {outputs[t].src : t \in chosen}
           sel == {Snapshot(t) : t \in chosen}
           view == {Snapshot(t) : t \in Present}
<1>3. chosen \subseteq Present /\ Present \subseteq Threads
  BY <1>2 DEF kSubset, Selectable, Present
<1>4. sel \subseteq view /\ view \subseteq Snapshots
  BY <1>3 DEF Snapshot, Snapshots, Present, TypeOK, Rows
<1>5. /\ work[w].mark \in Nat /\ MaxClock \in Nat
      /\ \A t \in Present : outputs[t].src \in Nat /\ outputs[t].src <= MaxClock
  BY MemoryAssumption DEF TypeOK, Works, Watermarks, Present, Rows, Clocks
<1>6. Max(S) \in S /\ \A y \in S : y <= Max(S)
  <2>1. S \subseteq Nat /\ S # {}
    BY <1>3, <1>5
  <2>2. \A y \in S : y <= MaxClock + work[w].mark
    BY <1>3, <1>5
  <2>3. MaxClock + work[w].mark \in Nat
    BY <1>5
  <2> HIDE DEF S
  <2> QED
    BY <2>1, <2>2, <2>3, MaxOfBounded
<1>7. Max(S) \in Nat
  BY <1>3, <1>5, <1>6
<1>8. /\ work' \in [Workers -> Works]
      /\ \A v \in Workers : v # w => pc'[v] = pc[v] /\ work'[v] = work[v]
      /\ pc'[w] = "agent" /\ work'[w].mark = Max(S)
      /\ work'[w].cand = work[w].cand /\ work'[w].mine = work[w].mine
      /\ work'[w].sel = sel /\ work'[w].view = view
  <2>1. work' = [work EXCEPT ![w].sel = sel, ![w].mark = Max(S), ![w].view = view]
    BY <1>2
  <2> HIDE DEF S, sel, view
  <2> QED
    BY <1>1, <1>4, <1>7, <2>1 DEF TypeOK, Works, Watermarks
<1>9. TypeOK'
  BY <1>1, <1>8 DEF TypeOK
<1>10. NothingMissed' /\ BaselineConsolidated' /\ OutputAtWatermark' /\ RetriesLeft' /\ InputAhead'
  BY <1>1 DEF NothingMissed, BaselineConsolidated, OutputAtWatermark, RetriesLeft,
     RunningFunded, InputAhead, Dirty, Present, Snapshot
<1>11. WorkShape'
  <2> SUFFICES ASSUME NEW v \in Workers
               PROVE  /\ pc'[v] # "claim" => work'[v].cand = {}
                      /\ pc'[v] \notin {"claim", "extract"} => work'[v].mine = {}
                      /\ \A c, d \in work'[v].cand \cup work'[v].mine : c[1] = d[1] => c = d
                      /\ work'[v].sel \subseteq work'[v].view
    BY DEF WorkShape
  <2> HIDE DEF sel, view
  <2>1. CASE v = w
    BY <1>1, <1>4, <1>8, <2>1 DEF WorkShape
  <2>2. CASE v # w
    BY <1>8, <2>2 DEF WorkShape
  <2> QED
    BY <2>1, <2>2
<1>12. ClaimsCurrent'
  BY <1>1, <1>8 DEF ClaimsCurrent, Owns
<1>13. ConsolidationCurrent'
  <2> SUFFICES ASSUME NEW v \in Workers, Consolidates(v)', Owns(global, v)
               PROVE  /\ Dirty /\ work'[v].mark <= global.input
                      /\ pc'[v] = "agent" /\ work'[v].mark = global.input =>
                            \A t \in Present : Snapshot(t) \in work'[v].view
    BY <1>1 DEF ConsolidationCurrent, Owns, Dirty, Present, Snapshot
  <2>1. CASE v = w
    <3>1. Dirty /\ work[w].mark <= global.input
      BY <1>1, <2>1 DEF ConsolidationCurrent, Consolidates
    <3>2. \A y \in S : y <= global.input
      BY <1>3, <3>1 DEF InputAhead
    <3>3. Max(S) <= global.input
      BY <1>6, <3>2
    <3>4. \A t \in Present : Snapshot(t) \in view
      OBVIOUS
    <3> HIDE DEF S, view
    <3> QED
      BY <1>8, <2>1, <3>1, <3>3, <3>4
  <2>2. CASE v # w
    BY <1>8, <2>2 DEF ConsolidationCurrent, Consolidates
  <2> QED
    BY <2>1, <2>2
<1> QED
  BY <1>9, <1>10, <1>11, <1>12, <1>13

\* A consolidation ends with success: if that leaves the job clean, the worker was level
\* with the watermark and its view has every row.
LEMMA ConsolidationSucceedsPreserves ==
    ASSUME IndInv, NEW w \in Workers, ConsolidationSucceeds(w)
    PROVE  IndInv'
<1> USE DEF IndInv, history, threadVars, workerVars
<1>1. /\ pc[w] = "agent" /\ Leave(w)
      /\ UNCHANGED <<clock, updated, mode, jobs, events>>
  BY DEF ConsolidationSucceeds
<1>2. /\ \A v \in Workers : Stops(v) \/ Stays(v)
      /\ pc' \in [Workers -> {"off", "scan", "claim", "extract", "select", "agent"}]
      /\ work' \in [Workers -> Works]
      /\ pc'[w] = "off"
  BY <1>1, LeaveStops
<1>3. CASE ~Owns(global, w)
  <2>1. UNCHANGED <<global, outputs, seen, base>>
    BY <1>3 DEF ConsolidationSucceeds
  <2>2. TypeOK'
    BY <1>1, <1>2, <2>1 DEF TypeOK
  <2> QED
    BY <1>1, <1>2, <2>1, <2>2, GlobalRowPreserves
<1>4. CASE Owns(global, w)
  <2> DEFINE m == Max({global.success, work[w].mark})
  <2>1. /\ global' = [global EXCEPT !.status = "done", !.leased = FALSE, !.success = m]
        /\ outputs' = Rebaselined(work[w].sel)
        /\ seen' = work[w].view /\ base' = work[w].sel
    BY <1>4 DEF ConsolidationSucceeds
  <2>2. /\ global \in Jobs /\ global # NoJob /\ global.input \in Nat /\ global.success \in Nat
        /\ work[w].mark \in Nat /\ work[w].mark <= global.input
        /\ global.success < global.input
        /\ work[w].mark = global.input => \A t \in Present : Snapshot(t) \in work[w].view
    <3>1. Consolidates(w)
      BY <1>1 DEF Consolidates
    <3>2. global \in Jobs /\ global # NoJob /\ work[w] \in Works
      BY <1>4 DEF Owns, TypeOK
    <3>3. /\ Dirty /\ work[w].mark <= global.input
          /\ work[w].mark = global.input => \A t \in Present : Snapshot(t) \in work[w].view
      BY <1>1, <1>4, <3>1 DEF ConsolidationCurrent
    <3> QED
      BY <3>2, <3>3 DEF Dirty, Jobs, Works, Watermarks
  <2>3. m \in {global.success, work[w].mark} /\ m \in Nat /\ m <= global.input
    <3>1. \A y \in {global.success, work[w].mark} : y <= global.input
      BY <2>2
    <3>2. m \in {global.success, work[w].mark}
      BY <2>2, <3>1, MaxOfBounded
    <3> HIDE DEF m
    <3> QED
      BY <2>2, <3>1, <3>2
  <2> HIDE DEF m
  <2>4. /\ global' \in Jobs /\ global' # NoJob /\ global'.status = "done"
        /\ global'.input = global.input /\ global'.success = m
    BY <2>1, <2>2, <2>3, MemoryAssumption DEF Jobs, Watermarks
  <2>5. \A t \in Threads :
          /\ outputs[t] = NoRow => outputs'[t] = NoRow
          /\ outputs[t] # NoRow =>
               /\ outputs'[t] \in Rows /\ outputs'[t] # NoRow
               /\ outputs'[t].src = outputs[t].src
               /\ outputs'[t].snap # 0 => outputs'[t].snap = outputs[t].src
                                          /\ Snapshot(t) \in work[w].sel
    <3> SUFFICES ASSUME NEW t \in Threads
                 PROVE  /\ outputs[t] = NoRow => outputs'[t] = NoRow
                        /\ outputs[t] # NoRow =>
                             /\ outputs'[t] \in Rows /\ outputs'[t] # NoRow
                             /\ outputs'[t].src = outputs[t].src
                             /\ outputs'[t].snap # 0 => outputs'[t].snap = outputs[t].src
                                                        /\ Snapshot(t) \in work[w].sel
      OBVIOUS
    <3>1. CASE outputs[t] = NoRow
      BY <2>1, <3>1 DEF Rebaselined, Present
    <3>2. CASE outputs[t] # NoRow
      <4> DEFINE k == IF Snapshot(t) \in work[w].sel THEN outputs[t].src ELSE 0
      <4>1. outputs[t] \in Rows /\ NoRow \notin Rows
        BY <3>2, MemoryAssumption DEF TypeOK
      <4>2. k \in 0..MaxClock
        BY <4>1, MemoryAssumption DEF Rows, Clocks
      <4>3. outputs'[t] = [outputs[t] EXCEPT !.snap = k]
        BY <2>1, <3>2 DEF Rebaselined, Present
      <4>4. k # 0 => k = outputs[t].src /\ Snapshot(t) \in work[w].sel
        OBVIOUS
      <4> HIDE DEF k
      <4>5. outputs'[t] \in Rows /\ outputs'[t].src = outputs[t].src /\ outputs'[t].snap = k
        BY <4>1, <4>2, <4>3 DEF Rows
      <4> QED
        BY <3>2, <4>1, <4>4, <4>5
    <3> QED
      BY <3>1, <3>2
  <2>6. Present' = Present /\ \A t \in Present : Snapshot(t)' = Snapshot(t)
    BY <2>5 DEF Present, Snapshot
  <2>7. TypeOK'
    <3>1. outputs' \in [Threads -> Rows \cup {NoRow}]
      <4>1. outputs' = [t \in Threads |-> outputs'[t]]
        BY <2>1 DEF Rebaselined
      <4> QED
        BY <2>5, <4>1
    <3>2. work[w].sel \subseteq work[w].view /\ work[w].view \subseteq Snapshots
      BY DEF WorkShape, TypeOK, Works
    <3> QED
      BY <1>1, <1>2, <2>1, <2>4, <3>1, <3>2 DEF TypeOK
  <2>8. NothingMissed'
    <3> SUFFICES ASSUME ~Dirty' PROVE \A t \in Present : Snapshot(t) \in seen'
      BY <2>6 DEF NothingMissed
    <3>1. work[w].mark = global.input
      BY <2>2, <2>3, <2>4 DEF Dirty
    <3> QED
      BY <2>1, <2>2, <3>1
  <2>9. BaselineConsolidated'
    <3> SUFFICES ASSUME NEW t \in Threads, outputs'[t] # NoRow, outputs'[t].snap # 0
                 PROVE  <<t, outputs'[t].snap>> \in base'
      BY DEF BaselineConsolidated, Present
    <3>1. outputs'[t].snap = outputs[t].src /\ Snapshot(t) \in work[w].sel
      BY <2>5
    <3> QED
      BY <2>1, <3>1 DEF Snapshot
  <2>10. OutputAtWatermark'
    BY <1>1, <2>5, <2>6 DEF OutputAtWatermark, Present
  <2>11. RetriesLeft'
    BY <1>1, <2>4 DEF RetriesLeft, RunningFunded
  <2>12. InputAhead'
    BY <2>3, <2>4, <2>5, <2>6 DEF InputAhead, Present
  <2>13. WorkShape'
    <3> SUFFICES ASSUME NEW v \in Workers
                 PROVE  /\ pc'[v] # "claim" => work'[v].cand = {}
                        /\ pc'[v] \notin {"claim", "extract"} => work'[v].mine = {}
                        /\ \A c, d \in work'[v].cand \cup work'[v].mine : c[1] = d[1] => c = d
                        /\ work'[v].sel \subseteq work'[v].view
      BY DEF WorkShape
    <3>1. CASE Stops(v)
      BY <3>1 DEF Stops
    <3>2. CASE Stays(v)
      BY <3>2 DEF Stays, WorkShape
    <3> QED
      BY <1>2, <3>1, <3>2
  <2>14. ClaimsCurrent'
    <3> SUFFICES ASSUME NEW v \in Workers, NEW c \in work'[v].mine, Owns(jobs[c[1]], v)
                 PROVE  jobs[c[1]].input = c[2] /\ jobs[c[1]].success < c[2]
      BY <1>1 DEF ClaimsCurrent, Owns
    <3>1. c \in work[v].mine
      BY <1>2 DEF Stops, Stays
    <3> QED
      BY <3>1 DEF ClaimsCurrent
  <2>15. ConsolidationCurrent'
    BY <2>4 DEF ConsolidationCurrent, Owns
  <2> QED
    BY <2>7, <2>8, <2>9, <2>10, <2>11, <2>12, <2>13, <2>14, <2>15
<1> QED
  BY <1>3, <1>4

----------------------------------------------------------------------------
(* The results. *)

\* No step of a thread, a worker or a lease breaks the invariant.
LEMMA NextPreserves == IndInv /\ [Next]_vars => IndInv'
<1> SUFFICES ASSUME IndInv, [Next]_vars PROVE IndInv'
  OBVIOUS
<1>1. ASSUME NEW w \in Workers, Progress(w) PROVE IndInv'
  <2>1. CASE Begin(w)
    BY <2>1, QuietActions
  <2>2. CASE Scan(w)
    BY <2>2, ScanPreserves
  <2>3. CASE ClaimGlobal(w)
    BY <2>3, ClaimGlobalPreserves
  <2>4. CASE Select(w)
    BY <2>4, SelectPreserves
  <2>5. CASE \E c \in work[w].cand : TryClaim(w, c)
    BY <2>5, TryClaimPreserves
  <2>6. CASE \E c \in work[w].mine : Extraction(w, c)
    BY <2>6, JobSucceedsPreserves, JobHasNoOutputPreserves, JobFailsPreserves DEF Extraction
  <2>7. CASE ConsolidationSucceeds(w)
    BY <2>7, ConsolidationSucceedsPreserves
  <2>8. CASE ConsolidationFails(w)
    BY <2>8, GlobalWorkerActions
  <2> QED
    BY <1>1, <2>1, <2>2, <2>3, <2>4, <2>5, <2>6, <2>7, <2>8 DEF Progress
<1>2. ASSUME NEW w \in Workers, Heartbeat(w) \/ Crash(w) PROVE IndInv'
  BY <1>2, GlobalWorkerActions
<1>3. CASE Tick
  BY <1>3, QuietActions
<1>4. CASE Clear
  BY <1>4, ClearPreserves
<1>5. CASE GlobalLeaseExpires \/ GlobalLeaseLapses \/ GlobalBackoffEnds
  BY <1>5, GlobalLeases
<1>6. ASSUME NEW t \in Threads,
             \/ Converse(t) \/ Pollute(t) \/ Cite(t) \/ Age(t)
             \/ \E m \in {"enabled", "disabled"} : SetMode(t, m)
             \/ LeaseExpires(t) \/ LeaseLapses(t) \/ BackoffEnds(t)
      PROVE  IndInv'
  <2>1. CASE \/ Converse(t) \/ Cite(t) \/ Age(t)
             \/ \E m \in {"enabled", "disabled"} : SetMode(t, m)
    BY <2>1, QuietActions
  <2>2. CASE Pollute(t)
    BY <2>2, PollutePreserves
  <2>3. CASE LeaseExpires(t) \/ LeaseLapses(t) \/ BackoffEnds(t)
    BY <2>3, JobLeases
  <2> QED
    BY <1>6, <2>1, <2>2, <2>3
<1>7. CASE UNCHANGED vars
  <2>1. TypeOK' /\ RowsKept
    BY <1>7 DEF vars, IndInv, TypeOK, RowsKept
  <2> QED
    BY <1>7, <2>1, QuietPreserves DEF vars
<1> QED
  BY <1>1, <1>2, <1>3, <1>4, <1>5, <1>6, <1>7 DEF Next

\* The invariant holds throughout, whatever crashes, lapses and is claimed again.
THEOREM Inductive == Spec => []IndInv
<1>1. Init => IndInv
  BY InitIsInductive
<1>2. IndInv /\ [Next]_vars => IndInv'
  BY NextPreserves
<1> QED
  BY <1>1, <1>2, PTL DEF Spec

\* Types; retry_remaining never falls below zero.
THEOREM TypeCorrect == Spec => []TypeOK
<1>1. IndInv => TypeOK
  BY DEF IndInv
<1> QED
  BY <1>1, Inductive, PTL

\* While the global job is not dirty, every stored memory was there to be chosen by the
\* last successful consolidation.
THEOREM NothingIsMissed == Spec => []NothingMissed
<1>1. IndInv => NothingMissed
  BY DEF IndInv
<1> QED
  BY <1>1, Inductive, PTL

\* The marks on the rows are those of the last successful consolidation.
THEOREM BaselineIsConsolidated == Spec => []BaselineConsolidated
<1>1. IndInv => BaselineConsolidated
  BY DEF IndInv
<1> QED
  BY <1>1, Inductive, PTL

\* A stored memory is as new as its job says.
THEOREM OutputsAtWatermark == Spec => []OutputAtWatermark
<1>1. IndInv => OutputAtWatermark
  BY DEF IndInv
<1> QED
  BY <1>1, Inductive, PTL
=============================================================================
