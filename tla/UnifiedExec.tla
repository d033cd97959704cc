----------------------------- MODULE UnifiedExec -----------------------------
(***************************************************************************)
(* The long-lived commands of one session (codex-rs/core/src/unified_exec/ *)
(* process_manager.rs and async_watcher.rs) and the one-shot shell calls,  *)
(* both run by an attempt of tools/orchestrator.rs that registers them     *)
(* with the network approval service, which this module composes.          *)
(*                                                                         *)
(* A step ends where the code awaits a lock, the process or its output.  A *)
(* tool call is cancelled there when its turn is interrupted, and its      *)
(* future is dropped.  Process ids are drawn at random from 99,000: a call *)
(* stands for its id, so two calls never have the same one.  Output, stdin *)
(* and the times they wait are left out.                                   *)
(***************************************************************************)
EXTENDS NetworkApproval

CONSTANTS
    Execs, Shells,   \* exec_command calls; calls that finish with their command
    MaxProcesses,    \* MAX_UNIFIED_EXEC_PROCESSES
    Protected        \* the most recently used entries pruning leaves alone

ASSUME ExecAssumption ==
    /\ Calls = Execs \cup Shells /\ Execs \cap Shells = {}
    /\ MaxProcesses \in Nat /\ Protected \in 0..MaxProcesses - 1

VARIABLES
    at,         \* per call: where it is
    proc,       \* per exec_command call: its process
    table,      \* the process store, least recently used first
    victim,     \* per exec_command call: the entry it pruned
    watched,    \* processes with an exit watcher
    ended,      \* per exec_command call: ExecCommandEnd events
    polled,     \* the entry write_stdin took out of the store, or None
    doomed,     \* entries terminate_all_processes still has to clean up
    leaked      \* history: processes whose clean-up a cancelled task left undone

execVars == <<at, proc, table, victim, watched, ended, polled, doomed, leaked>>
vars == <<networkVars, execVars>>

Init ==
    /\ NetworkInit
    /\ at = [c \in Calls |-> "idle"]
    /\ proc = [c \in Execs |-> "none"]
    /\ table = <<>>
    /\ victim = [c \in Execs |-> None]
    /\ watched = {}
    /\ ended = [c \in Execs |-> 0]
    /\ polled = None
    /\ doomed = {}
    /\ leaked = {}

Has(s, c) == \E i \in 1..Len(s) : s[i] = c
InTable(c) == Has(table, c)

\* HashMap::remove, where the others keep their order of use.
Without(s, c) ==
    IF Has(s, c)
    THEN LET i == CHOOSE k \in 1..Len(s) : s[k] = c
         IN  [k \in 1..(Len(s) - 1) |-> IF k < i THEN s[k] ELSE s[k + 1]]
    ELSE s

Running(c) == proc[c] = "running"
Move(c, where) == at' = [at EXCEPT ![c] = where]

registrations == <<active, outcomes>>
prompts == <<pending, decision, caches, woken, req>>
processes == <<proc, table, victim, watched, ended, polled, doomed, leaked>>

-----------------------------------------------------------------------------
\* One attempt of the orchestrator: begin_network_approval, then the command.

Begin(c) ==
    /\ at[c] = "idle" /\ c \in made
    /\ RegisterCall(c)
    /\ Move(c, "run")
    /\ UNCHANGED processes

\* A one-shot call takes its outcome when the command is over, then unregisters.
TakeOutcome(s) ==
    /\ at[s] = "run"
    /\ Move(s, IF outcomes[s] = None THEN "finish" ELSE "reject")
    /\ outcomes' = [outcomes EXCEPT ![s] = None]
    /\ UNCHANGED <<active, processes>>

FinishImmediate(s) ==
    /\ at[s] \in {"finish", "reject"}
    /\ UnregisterCalls({s})
    /\ Move(s, IF at[s] = "finish" THEN "done" ELSE "rejected")
    /\ UNCHANGED processes

\* Mutant: the registration of a failed attempt stays.
OpenFails_KeepsRegistration(c) ==
    /\ at[c] = "run"
    /\ \E next \in {"idle", "done"} : Move(c, next)
    /\ UNCHANGED <<registrations, processes>>

\* exec_command: the process cannot be started; the sandbox may allow another attempt.
OpenFails(c) ==
    /\ at[c] = "run"
    /\ UnregisterCalls({c})
    /\ \E next \in {"idle", "done"} : Move(c, next)
    /\ UNCHANGED processes

Opened(c) ==
    /\ at[c] = "run"
    /\ proc' = [proc EXCEPT ![c] = "running"]
    /\ Move(c, "opened")
    /\ UNCHANGED <<registrations, table, victim, watched, ended, polled, doomed, leaked>>

\* The process ends by itself, or because its exec server failed.
Exit(c) ==
    /\ Running(c)
    /\ \E how \in {"exited", "failed"} : proc' = [proc EXCEPT ![c] = how]
    /\ UNCHANGED <<registrations, at, table, victim, watched, ended, polled, doomed, leaked>>

\* prune_processes_if_needed: the oldest entry that is not protected, an exited one first.
Prunable == 1..(Len(table) - Protected)
Exited == {i \in Prunable : ~Running(table[i])}
Oldest(S) == CHOOSE i \in S : \A j \in S : i <= j

\* Mutant: pruning starts one entry too late.
Pruned_OneMore ==
    IF Len(table) <= MaxProcesses THEN None
    ELSE table[Oldest(IF Exited # {} THEN Exited ELSE Prunable)]

Pruned ==
    IF Len(table) < MaxProcesses THEN None
    ELSE table[Oldest(IF Exited # {} THEN Exited ELSE Prunable)]

\* A process that still runs is put into the store, before the call waits for output.
Store(c) ==
    /\ at[c] = "opened" /\ Running(c)
    /\ table' = Append(Without(table, Pruned), c)
    /\ victim' = [victim EXCEPT ![c] = Pruned]
    /\ Move(c, IF Pruned = None THEN "stored" ELSE "prune")
    /\ UNCHANGED <<registrations, proc, watched, ended, polled, doomed, leaked>>

\* The pruned entry is unregistered and then terminated.
UnregisterVictim(c) ==
    /\ at[c] = "prune"
    /\ UnregisterCalls({victim[c]})
    /\ proc' = [proc EXCEPT ![victim[c]] = IF @ = "running" THEN "exited" ELSE @]
    /\ victim' = [victim EXCEPT ![c] = None]
    /\ Move(c, "stored")
    /\ UNCHANGED <<table, watched, ended, polled, doomed, leaked>>

\* spawn_exit_watcher, then the wait for output.
Watch(c) ==
    /\ at[c] = "stored"
    /\ watched' = watched \cup {c}
    /\ Move(c, "wait")
    /\ UNCHANGED <<registrations, proc, table, victim, ended, polled, doomed, leaked>>

\* The exit watcher emits the end of a process that was stored.
EmitEnd(c) ==
    /\ c \in watched /\ ~Running(c)
    /\ ended' = [ended EXCEPT ![c] = @ + 1]
    /\ watched' = watched \ {c}
    /\ UNCHANGED <<registrations, at, proc, table, victim, polled, doomed, leaked>>

\* A process that was over before it could be stored: the call emits the end.
EmitShortEnd(c) ==
    /\ at[c] = "opened" /\ ~Running(c)
    /\ ended' = [ended EXCEPT ![c] = @ + 1]
    /\ Move(c, "finish")
    /\ UNCHANGED <<registrations, proc, table, victim, watched, polled, doomed, leaked>>

\* The output was collected: a failed process is released, an exited one is taken out
\* by refresh_process_state, a running one stays; it may be gone already.
Collected(c) ==
    /\ at[c] = "wait"
    /\ IF proc[c] # "failed" /\ (Running(c) \/ ~InTable(c))
       THEN Move(c, "done") /\ UNCHANGED table
       ELSE table' = Without(table, c) /\ Move(c, "finish")
    /\ UNCHANGED <<registrations, proc, victim, watched, ended, polled, doomed, leaked>>

\* unregister_network_approval_for_entry and finish_deferred_network_approval.
FinishDeferred(c) ==
    /\ at[c] = "finish"
    /\ UnregisterCalls({c})
    /\ Move(c, "done")
    /\ UNCHANGED processes

-----------------------------------------------------------------------------
\* The future of a call is dropped.  Its process is terminated with the last reference:
\* the store and the exit watcher hold one each.

Starting(c) == at[c] \in {"run", "opened"}

Cancel(c) ==
    /\ at[c] \in {"run", "opened", "prune", "stored", "wait", "finish", "reject"}
    /\ Move(c, "cancelled")
    /\ IF c \in Shells
       THEN leaked' = leaked \cup {c} /\ UNCHANGED <<proc, victim>>
       ELSE /\ proc' = [proc EXCEPT ![c] = IF @ = "running" /\ Starting(c)
                                            THEN "exited" ELSE @]
            /\ leaked' = leaked \cup
                  (IF at[c] \in {"run", "opened", "finish"} THEN {c}
                   ELSE {victim[c]} \ {None})
            /\ victim' = [victim EXCEPT ![c] = None]
    /\ UNCHANGED <<registrations, table, watched, ended, polled, doomed>>

-----------------------------------------------------------------------------
\* write_stdin uses an entry, and takes it out of the store once its process is over.

Touch(c) ==
    /\ InTable(c)
    /\ table' = Append(Without(table, c), c)
    /\ UNCHANGED <<registrations, at, proc, victim, watched, ended, polled, doomed, leaked>>

PollRemoves(c) ==
    /\ polled = None /\ InTable(c) /\ ~Running(c)
    /\ table' = Without(table, c)
    /\ polled' = c
    /\ UNCHANGED <<registrations, at, proc, victim, watched, ended, doomed, leaked>>

PollUnregisters ==
    /\ polled # None
    /\ UnregisterCalls({polled})
    /\ polled' = None
    /\ UNCHANGED <<at, proc, table, victim, watched, ended, doomed, leaked>>

PollCancelled ==
    /\ polled # None
    /\ leaked' = leaked \cup {polled}
    /\ polled' = None
    /\ UNCHANGED <<registrations, at, proc, table, victim, watched, ended, doomed>>

\* terminate_all_processes: the store is emptied at once, its entries are unregistered
\* and terminated one by one.
TerminateAll ==
    /\ doomed = {} /\ table # <<>>
    /\ doomed' = {c \in Execs : InTable(c)}
    /\ table' = <<>>
    /\ UNCHANGED <<registrations, at, proc, victim, watched, ended, polled, leaked>>

\* Mutant: the entries are unregistered and dropped.
TerminateNext_OnlyDrops ==
    \E c \in doomed :
        /\ UnregisterCalls({c})
        /\ doomed' = doomed \ {c}
        /\ UNCHANGED <<at, proc, table, victim, watched, ended, polled, leaked>>

TerminateNext ==
    \E c \in doomed :
        /\ UnregisterCalls({c})
        /\ proc' = [proc EXCEPT ![c] = IF @ = "running" THEN "exited" ELSE @]
        /\ doomed' = doomed \ {c}
        /\ UNCHANGED <<at, table, victim, watched, ended, polled, leaked>>

-----------------------------------------------------------------------------
ExecStep ==
    /\ \/ \E c \in Calls : Begin(c) \/ Cancel(c)
       \/ \E s \in Shells : TakeOutcome(s) \/ FinishImmediate(s)
       \/ \E c \in Execs :
             \/ OpenFails(c) \/ Opened(c) \/ Exit(c) \/ Store(c) \/ UnregisterVictim(c)
             \/ Watch(c) \/ EmitEnd(c) \/ EmitShortEnd(c) \/ Collected(c)
             \/ FinishDeferred(c) \/ Touch(c) \/ PollRemoves(c)
       \/ PollUnregisters \/ PollCancelled \/ TerminateAll \/ TerminateNext
    /\ UNCHANGED <<made, prompts>>

Next == ExecStep \/ (NetworkStep /\ UNCHANGED execVars)

\* The proxy runs its handlers, and every prompt is answered: by the user, or as denied
\* when the turn it belongs to is interrupted.
Fairness == \A q \in Requests : WF_vars(Handle(q) /\ UNCHANGED <<made, active, execVars>>)

Spec == Init /\ [][Next]_vars /\ Fairness

-----------------------------------------------------------------------------
Places == {"idle", "run", "opened", "prune", "stored", "wait", "finish", "reject",
           "done", "rejected", "cancelled"}

\* Types; the store stays within its limit, whichever calls store and take out entries
\* at the same time, and a command has at most one end event.
TypeOK ==
    /\ NetworkTypeOK
    /\ at \in [Calls -> Places]
    /\ proc \in [Execs -> {"none", "running", "exited", "failed"}]
    /\ table \in Seq(Execs) /\ Len(table) <= MaxProcesses
    /\ victim \in [Execs -> Execs \cup {None}]
    /\ watched \subseteq Execs /\ doomed \subseteq Execs /\ leaked \subseteq Calls
    /\ ended \in [Execs -> 0..1]
    /\ polled \in Execs \cup {None}

\* Taken out of the store by a task that has not cleaned it up yet.
BeingCleaned(c) == c \in doomed \/ c = polled \/ \E d \in Execs : victim[d] = c

\* The registrations that resolve_single_active_call counts are those of calls that run
\* a command: a process in the store is registered, and a registration that outlives
\* its call and its place in the store is about to be removed, or was left behind by a
\* task that was cancelled.
RegistrationsOwned ==
    /\ \A c \in Calls : c \in active =>
          \/ at[c] \in {"run", "opened", "finish", "reject"}
          \/ c \in Execs /\ (InTable(c) \/ BeingCleaned(c))
          \/ c \in leaked
    /\ \A c \in Execs : InTable(c) \/ at[c] = "opened" => c \in active

\* A refusal by the user that record_call_outcome stored for a one-shot call reaches that
\* call: neither the policy nor another prompt replaces it before the call has taken it,
\* and the call is rejected.  The refusals of exec_command calls are taken later, by
\* finish_deferred_network_approval, and are not what this is about.
RefusalKept ==
    [][\A s \in Shells : at[s] = "run" /\ outcomes[s] = "user"
                            => outcomes'[s] = "user" \/ at'[s] = "reject"]_vars

\* No process runs out of reach: it is in the store, being started, or about to be
\* terminated, unless the call that pruned it was cancelled before it did so.
NoOrphans ==
    \A c \in Execs : Running(c) =>
        at[c] = "opened" \/ InTable(c) \/ BeingCleaned(c) \/ c \in leaked
-----------------------------------------------------------------------------
\* The inductive invariant behind these properties.

\* The store is a map: no process is in it twice.
Distinct(s) == \A i, j \in 1..Len(s) : s[i] = s[j] => i = j

\* Nothing happened yet to the process of a call that has not stored it.
Fresh ==
    \A c \in Execs : at[c] \in {"idle", "run", "opened"} =>
        ~InTable(c) /\ ~BeingCleaned(c) /\ c \notin watched /\ ended[c] = 0

Registered == \A c \in Execs : at[c] \in {"run", "opened"} => c \in active

\* What is being cleaned up is out of the store.
CleanedApart == \A c \in Execs : BeingCleaned(c) \/ at[c] = "finish" => ~InTable(c)

CallPlaces ==
    \A c \in Execs : /\ at[c] \notin {"reject", "rejected"}
                     /\ victim[c] # None => at[c] = "prune"

PolledOver == polled # None => ~Running(polled)

NotYetEnded ==
    \A c \in Execs : /\ c \in watched \/ at[c] \in {"prune", "stored"} => ended[c] = 0
                     /\ at[c] \in {"prune", "stored"} => c \notin watched

ExecInv ==
    /\ TypeOK /\ RegistrationsOwned /\ NoOrphans
    /\ Distinct(table) /\ Fresh /\ Registered /\ CleanedApart /\ CallPlaces /\ PolledOver
    /\ NotYetEnded

IndInv == NetworkInv /\ ExecInv
=============================================================================
