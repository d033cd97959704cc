--------------------------- MODULE TurnLifecycle ---------------------------
(***************************************************************************)
(* The turns of one session: who may create, join, finish and abort the    *)
(* single active turn (codex-rs/core/src/tasks/mod.rs, state/turn.rs and   *)
(* the input queues of session/mod.rs).                                    *)
(*                                                                         *)
(* Actors start and abort turns: the submission loop, the guardian's abort *)
(* task, and the scheduler that every finished turn t leaves behind        *)
(* (actor t).  A turn's task runs beside them.  A step is what happens     *)
(* under one acquisition of active_turn or of a TurnState; where the code  *)
(* gives the lock up, another actor may come in.                           *)
(*                                                                         *)
(* Inputs are sets of items: order, text and approvals are left out, hooks *)
(* let every input pass.                                                   *)
(***************************************************************************)
EXTENDS Naturals, Sequences, FiniteSets

CONSTANTS
    Loop, Guardian,  \* the two actors beside the schedulers
    MaxTurns,        \* bound: turns at a time; the id of an ended turn is used again
    UserOps,         \* what the user sends: Op::UserInput, turn/steer, Op::Compact
                     \* or Op::ApproveGuardianDeniedAction
    Mails,           \* Op::InterAgentCommunication
    Triggers,        \* the mails with trigger_turn
    MaxInterrupts,   \* bound: Op::Interrupt and guardian aborts
    NoTurn,
    NoObj

Turns == 1..MaxTurns
Actors == Turns \cup {Loop, Guardian}
Items == UserOps \cup Mails

\* The TurnState objects, by the place where start_task or its caller made one.
Objs == Turns \X {"reserve", "attach", "register"}

ActiveTurns == [obj : Objs, tasks : Seq(Turns), phase : {"current", "next"}]

ASSUME TurnAssumption ==
    /\ MaxTurns \in Nat /\ MaxInterrupts \in Nat
    /\ Loop \notin Turns /\ Guardian \notin Turns /\ Loop # Guardian
    /\ Triggers \subseteq Mails
    /\ NoTurn \notin ActiveTurns /\ NoObj \notin Objs

VARIABLES
    turn,       \* Session.active_turn: NoTurn, or its TurnState, its tasks and
                \* mailbox_delivery_phase (read only through the active turn)
    pending,    \* [Objs -> SUBSET Items], TurnState.pending_input
    mailbox,    \* mail not yet drained
    queue,      \* idle_pending_input
    apc, act,   \* per actor: where it is, and its local variables
    tpc, task,  \* per turn id: where its task is, and what it carries
    outcome,    \* per turn id: the end events sent for it; history: "cut" if its
                \* task was cancelled by the drop of its own handle
    stranded,   \* history: mail in the mailbox when a task was cut before it
                \* left its scheduler behind
    sent, interrupts    \* what the bounds count

vars == <<turn, pending, mailbox, queue, stranded, apc, act, tpc, task, outcome,
          sent, interrupts>>
inputs == <<mailbox, queue, stranded>>
actors == <<apc, act>>
tasks == <<tpc, task, outcome>>
bounds == <<sent, interrupts>>

Kinds == {"regular", "compact"}
ActorPCs == {"idle", "check", "reserve", "take", "cancel", "grace", "clear",
             "collect", "attach", "push", "register", "queue"}
TaskPCs == {"none", "start", "drain", "model", "check", "finish", "record",
            "complete", "schedule", "gone"}
Ends == {"complete", "aborted", "cut"}
ActorLocals == [sub : 0..MaxTurns, kind : Kinds, input : SUBSET Items,
                items : SUBSET Items, obj : Objs \cup {NoObj},
                victims : Seq(Turns), reason : {"Replaced", "Interrupted"}]
TaskLocals == [kind : Kinds, input : SUBSET Items, obj : Objs \cup {NoObj},
               cancelled : BOOLEAN, doomed : {"no", "self", "aborted"}]

NoLocals == [sub |-> 0, kind |-> "regular", input |-> {}, items |-> {},
             obj |-> NoObj, victims |-> <<>>, reason |-> "Replaced"]
NoTask == [kind |-> "regular", input |-> {}, obj |-> NoObj, cancelled |-> FALSE,
           doomed |-> "no"]

\* Types of the active turn, the queues, the actors and the tasks.
TypeOK ==
    /\ turn \in ActiveTurns \cup {NoTurn}
    /\ pending \in [Objs -> SUBSET Items]
    /\ mailbox \subseteq Mails /\ queue \subseteq UserOps /\ stranded \subseteq Mails
    /\ apc \in [Actors -> ActorPCs] /\ act \in [Actors -> ActorLocals]
    /\ tpc \in [Turns -> TaskPCs] /\ task \in [Turns -> TaskLocals]
    /\ outcome \in [Turns -> SUBSET Ends]
    /\ sent \subseteq Items
    /\ interrupts \in 0..MaxInterrupts

Init ==
    /\ turn = NoTurn
    /\ pending = [o \in Objs |-> {}]
    /\ mailbox = {} /\ queue = {} /\ sent = {} /\ stranded = {}
    /\ apc = [a \in Actors |-> "idle"] /\ act = [a \in Actors |-> NoLocals]
    /\ tpc = [t \in Turns |-> "none"] /\ task = [t \in Turns |-> NoTask]
    /\ outcome = [t \in Turns |-> {}]
    /\ interrupts = 0

----------------------------------------------------------------------------
Among(s, t) == \E i \in DOMAIN s : s[i] = t

Active == turn # NoTurn
Running == IF Active THEN {turn.tasks[i] : i \in DOMAIN turn.tasks} ELSE {}

\* ActiveTurn::default()
NewTurn(t, place) == [obj |-> <<t, place>>, tasks |-> <<>>, phase |-> "current"]

\* The task of turn t is one that actor a still has to abort.
Aborting(a, t) == Among(act[a].victims, t)

\* A turn id that nothing refers to any more, and the state it starts from.
Unused(t) ==
    /\ tpc[t] \in {"none", "gone"} /\ apc[t] = "idle"
    /\ Active => turn.obj[1] # t
    /\ \A a \in Actors : act[a].sub # t /\ (act[a].obj # NoObj => act[a].obj[1] # t)
    /\ \A a \in Actors : ~Aborting(a, t)
    /\ \A u \in Turns : task[u].obj # NoObj => task[u].obj[1] # t

NewId == CHOOSE t \in Turns : Unused(t) /\ \A u \in Turns : Unused(u) => t <= u

NewTurnContext ==
    /\ \E t \in Turns : Unused(t)
    /\ pending' = [o \in Objs |-> IF o[1] = NewId THEN {} ELSE pending[o]]
    /\ outcome' = [outcome EXCEPT ![NewId] = {}]

Goto(a, label) == apc' = [apc EXCEPT ![a] = label]
Return(a) == Goto(a, "idle") /\ act' = [act EXCEPT ![a] = NoLocals]
TaskGoto(t, label) == tpc' = [tpc EXCEPT ![t] = label]
TaskEnd(t) == TaskGoto(t, "gone") /\ task' = [task EXCEPT ![t] = NoTask]

AcceptsMail == Active => turn.phase = "current"

\* has_pending_input
HasPending ==
    \/ Active /\ pending[turn.obj] # {}
    \/ AcceptsMail /\ mailbox # {}

\* What get_pending_input returns.  It looks at the session's active turn,
\* whoever calls it, and leaves both sources empty.
PendingInput ==
    (IF Active THEN pending[turn.obj] ELSE {}) \cup (IF AcceptsMail THEN mailbox ELSE {})

TakePendingInput ==
    /\ pending' = IF Active THEN [pending EXCEPT ![turn.obj] = {}] ELSE pending
    /\ mailbox' = IF AcceptsMail THEN {} ELSE mailbox

\* steer_input goes to the first task, if that is a regular one.
Steerable == Active /\ turn.tasks # <<>> /\ task[Head(turn.tasks)].kind = "regular"

Steer(i) ==
    /\ pending' = [pending EXCEPT ![turn.obj] = @ \cup {i}]
    /\ turn' = [turn EXCEPT !.phase = "current"]

----------------------------------------------------------------------------
(* What the submission loop, a client and the guardian begin. *)

\* user_input_or_turn_inner: steer, or replace whatever is active by a new turn;
\* a compact turn refuses.
SubmitInput(i) ==
    /\ apc[Loop] = "idle" /\ i \notin sent
    /\ \/ /\ Steerable
          /\ Steer(i)
          /\ sent' = sent \cup {i}
          /\ UNCHANGED <<actors, outcome>>
       \/ /\ Active => turn.tasks = <<>>
          /\ NewTurnContext
          /\ act' = [act EXCEPT ![Loop] = [NoLocals EXCEPT !.sub = NewId, !.input = {i}]]
          /\ Goto(Loop, "take")
          /\ sent' = sent \cup {i}
          /\ UNCHANGED turn
    /\ UNCHANGED <<inputs, tpc, task, interrupts>>

\* compact: spawn_task, whatever is active.
SubmitCompact(i) ==
    /\ apc[Loop] = "idle" /\ i \notin sent
    /\ sent' = sent \cup {i}
    /\ NewTurnContext
    /\ act' = [act EXCEPT ![Loop] = [NoLocals EXCEPT !.sub = NewId, !.kind = "compact"]]
    /\ Goto(Loop, "take")
    /\ UNCHANGED <<turn, inputs, tpc, task, interrupts>>

\* turn/steer reaches steer_input beside the submission loop.
ClientSteers(i) ==
    /\ i \notin sent /\ Steerable
    /\ Steer(i)
    /\ sent' = sent \cup {i}
    /\ UNCHANGED <<inputs, actors, tasks, interrupts>>

\* Mutant: mail goes to the queue of next-turn items.
ReceiveMail_Queued(m) ==
    /\ apc[Loop] = "idle" /\ m \notin sent
    /\ queue' = queue \cup {m}
    /\ sent' = sent \cup {m}
    /\ IF m \in Triggers THEN Goto(Loop, "check") ELSE UNCHANGED apc
    /\ UNCHANGED <<turn, pending, mailbox, stranded, act, tasks, interrupts>>

\* inter_agent_communication
ReceiveMail(m) ==
    /\ apc[Loop] = "idle" /\ m \notin sent
    /\ mailbox' = mailbox \cup {m}
    /\ sent' = sent \cup {m}
    /\ IF m \in Triggers THEN Goto(Loop, "check") ELSE UNCHANGED apc
    /\ UNCHANGED <<turn, pending, queue, stranded, act, tasks, interrupts>>

\* approve_guardian_denied_action: inject_response_items, and the queue if there
\* was no active turn to inject into.
Approve(q) ==
    /\ apc[Loop] = "idle" /\ q \notin sent
    /\ sent' = sent \cup {q}
    /\ IF Active
       THEN /\ pending' = [pending EXCEPT ![turn.obj] = @ \cup {q}]
            /\ UNCHANGED actors
       ELSE /\ Goto(Loop, "queue")
            /\ act' = [act EXCEPT ![Loop].items = {q}]
            /\ UNCHANGED pending
    /\ UNCHANGED <<turn, inputs, tasks, interrupts>>

QueueForNextTurn(a) ==
    /\ apc[a] = "queue"
    /\ queue' = queue \cup act[a].items
    /\ Return(a)
    /\ UNCHANGED <<turn, pending, mailbox, stranded, tasks, bounds>>

\* interrupt_task
Interrupt ==
    /\ apc[Loop] = "idle" /\ Active /\ interrupts < MaxInterrupts
    /\ interrupts' = interrupts + 1
    /\ act' = [act EXCEPT ![Loop] = [NoLocals EXCEPT !.reason = "Interrupted"]]
    /\ Goto(Loop, "take")
    /\ UNCHANGED <<turn, pending, inputs, tasks, sent>>

\* The active turn leaves the session with all its tasks.
TakeTurn(a, local) ==
    /\ act' = [act EXCEPT ![a] = [local EXCEPT !.victims = turn.tasks, !.obj = turn.obj]]
    /\ Goto(a, IF turn.tasks = <<>> THEN "clear" ELSE "cancel")
    /\ turn' = NoTurn

\* abort_turn_if_active, from the guardian's own task.
GuardianAborts(t) ==
    /\ apc[Guardian] = "idle" /\ t \in Running /\ interrupts < MaxInterrupts
    /\ interrupts' = interrupts + 1
    /\ TakeTurn(Guardian, [NoLocals EXCEPT !.reason = "Interrupted"])
    /\ UNCHANGED <<pending, inputs, tasks, sent>>

----------------------------------------------------------------------------
(* abort_all_tasks; a Replaced abort goes on to start_task, an Interrupted   *)
(* one to maybe_start_turn_for_pending_work.                                *)

AfterAbort(a) == Goto(a, IF act[a].reason = "Replaced" THEN "collect" ELSE "check")

Take(a) ==
    /\ apc[a] = "take"
    /\ IF Active THEN TakeTurn(a, act[a]) ELSE AfterAbort(a) /\ UNCHANGED <<turn, act>>
    /\ UNCHANGED <<pending, inputs, tasks, bounds>>

\* Telling a task that has already ended something has no effect.
Mark(t, field, value) ==
    IF tpc[t] = "gone" THEN task ELSE [task EXCEPT ![t][field] = value]

\* handle_task_abort up to the wait.
AbortCancel(a) ==
    /\ apc[a] = "cancel"
    /\ task' = Mark(Head(act[a].victims), "cancelled", TRUE)
    /\ Goto(a, "grace")
    /\ UNCHANGED <<turn, pending, inputs, act, tpc, outcome, bounds>>

\* Mutant: only an interrupted turn is reported as aborted.
AbortEnd_Silent(a) ==
    /\ apc[a] = "grace"
    /\ LET v == Head(act[a].victims) IN
       /\ task' = Mark(v, "doomed", "aborted")
       /\ outcome' = [outcome EXCEPT ![v] =
                         IF act[a].reason = "Interrupted" THEN @ \cup {"aborted"} ELSE @]
    /\ act' = [act EXCEPT ![a].victims = Tail(@)]
    /\ Goto(a, IF Len(act[a].victims) = 1 THEN "clear" ELSE "cancel")
    /\ UNCHANGED <<turn, pending, inputs, tpc, bounds>>

\* The task is done or the 100 ms are over: its handle is aborted and
\* TurnAborted is sent.
AbortEnd(a) ==
    /\ apc[a] = "grace"
    /\ LET v == Head(act[a].victims) IN
       /\ task' = Mark(v, "doomed", "aborted")
       /\ outcome' = [outcome EXCEPT ![v] = @ \cup {"aborted"}]
    /\ act' = [act EXCEPT ![a].victims = Tail(@)]
    /\ Goto(a, IF Len(act[a].victims) = 1 THEN "clear" ELSE "cancel")
    /\ UNCHANGED <<turn, pending, inputs, tpc, bounds>>

AbortClear(a) ==
    /\ apc[a] = "clear"
    /\ pending' = [pending EXCEPT ![act[a].obj] = {}]
    /\ act' = [act EXCEPT ![a].obj = NoObj]
    /\ AfterAbort(a)
    /\ UNCHANGED <<turn, inputs, tasks, bounds>>

----------------------------------------------------------------------------
(* maybe_start_turn_for_pending_work *)

CheckWork(a) ==
    /\ apc[a] = "check"
    /\ IF queue # {} \/ mailbox \cap Triggers # {}
       THEN Goto(a, "reserve") /\ UNCHANGED act
       ELSE Return(a)
    /\ UNCHANGED <<turn, pending, inputs, tasks, bounds>>

\* An idle session gets an empty active turn; then the turn context is built.
Reserve(a) ==
    /\ apc[a] = "reserve"
    /\ IF Active
       THEN Return(a) /\ UNCHANGED <<turn, pending, outcome>>
       ELSE /\ NewTurnContext
            /\ turn' = NewTurn(NewId, "reserve")
            /\ act' = [act EXCEPT ![a] = [NoLocals EXCEPT !.sub = NewId]]
            /\ Goto(a, "collect")
    /\ UNCHANGED <<inputs, tpc, task, bounds>>

----------------------------------------------------------------------------
(* start_task *)

GetOrInsert(a, place) ==
    IF Active THEN turn ELSE NewTurn(act[a].sub, place)

\* The idle queue, then get_pending_input.
Collect(a) ==
    /\ apc[a] = "collect"
    /\ act' = [act EXCEPT ![a].items = queue \cup PendingInput, ![a].obj = NoObj]
    /\ queue' = {}
    /\ TakePendingInput
    /\ Goto(a, "attach")
    /\ UNCHANGED <<turn, stranded, tasks, bounds>>

\* The first debug_assert!(turn.tasks.is_empty()) is here.
Attach(a) ==
    /\ apc[a] = "attach"
    /\ turn' = GetOrInsert(a, "attach")
    /\ act' = [act EXCEPT ![a].obj = turn'.obj]
    /\ Goto(a, "push")
    /\ UNCHANGED <<pending, inputs, tasks, bounds>>

Push(a) ==
    /\ apc[a] = "push"
    /\ pending' = [pending EXCEPT ![act[a].obj] = @ \cup act[a].items]
    /\ act' = [act EXCEPT ![a].items = {}]
    /\ Goto(a, "register")
    /\ UNCHANGED <<turn, inputs, tasks, bounds>>

\* Mutant: the new task takes the place of the active turn's tasks.
Register_Overwrites(a) ==
    /\ apc[a] = "register"
    /\ turn' = [GetOrInsert(a, "register") EXCEPT !.tasks = <<act[a].sub>>]
    /\ tpc' = [tpc EXCEPT ![act[a].sub] = "start"]
    /\ task' = [task EXCEPT ![act[a].sub] = [NoTask EXCEPT !.kind = act[a].kind,
                                                           !.input = act[a].input]]
    /\ Return(a)
    /\ UNCHANGED <<pending, inputs, outcome, bounds>>

\* The second debug_assert!, tokio::spawn and add_task.
Register(a) ==
    /\ apc[a] = "register"
    /\ turn' = [GetOrInsert(a, "register") EXCEPT !.tasks = Append(@, act[a].sub)]
    /\ tpc' = [tpc EXCEPT ![act[a].sub] = "start"]
    /\ task' = [task EXCEPT ![act[a].sub] = [NoTask EXCEPT !.kind = act[a].kind,
                                                           !.input = act[a].input]]
    /\ Return(a)
    /\ UNCHANGED <<pending, inputs, outcome, bounds>>

----------------------------------------------------------------------------
(* A task: RegularTask::run around run_turn, or a task that ignores input. *)

\* run_turn records the prompt and samples it before any pending input; without
\* a prompt and without pending input it returns at once.
TaskStart(t) ==
    /\ tpc[t] = "start"
    /\ task' = [task EXCEPT ![t].input = {}]
    /\ TaskGoto(t, IF task[t].kind = "compact" \/ task[t].input # {} THEN "model"
                   ELSE IF HasPending THEN "drain" ELSE "check")
    /\ UNCHANGED <<turn, pending, inputs, actors, outcome, bounds>>

TaskDrain(t) ==
    /\ tpc[t] = "drain"
    /\ TakePendingInput
    /\ TaskGoto(t, "model")
    /\ UNCHANGED <<turn, queue, stranded, actors, task, outcome, bounds>>

\* A tool call reopens the mailbox for this turn and asks for a follow-up.
ToolCall(t) ==
    /\ tpc[t] = "model" /\ task[t].doomed = "no" /\ task[t].kind = "regular"
    /\ turn' = IF t \in Running THEN [turn EXCEPT !.phase = "current"] ELSE turn
    /\ TaskGoto(t, "drain")
    /\ UNCHANGED <<pending, inputs, actors, task, outcome, bounds>>

\* defer_mailbox_delivery_to_next_turn, on user-visible final output.
Defers(t) == t \in Running /\ pending[turn.obj] = {}

\* The request ends: with a final answer, with an error, or cancelled.
SamplingEnds(t) ==
    /\ tpc[t] = "model" /\ task[t].doomed = "no"
    /\ \/ /\ task[t].kind = "regular"
          /\ turn' = IF Defers(t) THEN [turn EXCEPT !.phase = "next"] ELSE turn
          /\ TaskGoto(t, "check")
       \/ /\ UNCHANGED turn
          /\ TaskGoto(t, IF task[t].kind = "compact" THEN "finish" ELSE "check")
    /\ UNCHANGED <<pending, inputs, actors, task, outcome, bounds>>

\* needs_follow_up, and has_pending_input once more after run_turn.
TaskCheck(t) ==
    /\ tpc[t] = "check"
    /\ TaskGoto(t, IF HasPending THEN "drain" ELSE "finish")
    /\ UNCHANGED <<turn, pending, inputs, actors, task, outcome, bounds>>

\* IndexMap::swap_remove
SwapRemove(ts, t) ==
    IF Among(ts, t)
    THEN LET i == CHOOSE j \in DOMAIN ts : ts[j] = t
         IN  [j \in 1..(Len(ts) - 1) |-> IF j = i THEN ts[Len(ts)] ELSE ts[j]]
    ELSE ts

\* Mutant: an emptied turn stays active.
FinishRemove_KeepsTurn(t) ==
    /\ tpc[t] = "finish"
    /\ IF Active /\ ~task[t].cancelled
       THEN /\ turn' = [turn EXCEPT !.tasks = SwapRemove(@, t)]
            /\ task' = [task EXCEPT ![t].obj = turn.obj]
            /\ TaskGoto(t, "record")
       ELSE TaskEnd(t) /\ UNCHANGED turn
    /\ UNCHANGED <<pending, inputs, actors, outcome, bounds>>

\* The cancellation check and the first step of on_task_finished.  remove_task
\* drops the RunningTask and with it the AbortOnDropHandle of the very task that
\* is executing, and reports an empty turn as finished, whoever reserved it.
FinishRemove(t) ==
    /\ tpc[t] = "finish"
    /\ LET rest == SwapRemove(turn.tasks, t)
           dropped == IF t \in Running THEN "self" ELSE task[t].doomed
       IN
       \/ /\ task[t].cancelled
          /\ TaskEnd(t)
          /\ UNCHANGED turn
       \/ /\ ~task[t].cancelled /\ ~Active
          /\ TaskGoto(t, "complete")
          /\ UNCHANGED <<turn, task>>
       \/ /\ ~task[t].cancelled /\ Active
          /\ IF rest = <<>>
             THEN /\ turn' = NoTurn
                  /\ task' = [task EXCEPT ![t].obj = turn.obj, ![t].doomed = dropped]
                  /\ TaskGoto(t, "record")
             ELSE /\ turn' = [turn EXCEPT !.tasks = rest]
                  /\ task' = [task EXCEPT ![t].doomed = dropped]
                  /\ TaskGoto(t, "complete")
    /\ UNCHANGED <<pending, inputs, actors, outcome, bounds>>

\* Leftover input is recorded in the history.
FinishRecord(t) ==
    /\ tpc[t] = "record"
    /\ pending' = [pending EXCEPT ![task[t].obj] = {}]
    /\ TaskGoto(t, "complete")
    /\ UNCHANGED <<turn, inputs, actors, task, outcome, bounds>>

\* TurnComplete is sent.
FinishComplete(t) ==
    /\ tpc[t] = "complete"
    /\ outcome' = [outcome EXCEPT ![t] = @ \cup {"complete"}]
    /\ TaskGoto(t, "schedule")
    /\ UNCHANGED <<turn, pending, inputs, actors, task, bounds>>

\* Mutant: a finished turn leaves no scheduler behind.
FinishSchedule_Nothing(t) ==
    /\ tpc[t] = "schedule"
    /\ TaskEnd(t)
    /\ UNCHANGED <<turn, pending, inputs, actors, outcome, bounds>>

\* The circuit breaker has been cleared: the scheduler is spawned if this task
\* cleared the active turn.
FinishSchedule(t) ==
    /\ tpc[t] = "schedule"
    /\ TaskEnd(t)
    /\ IF task[t].obj # NoObj THEN Goto(t, "check") ELSE UNCHANGED apc
    /\ UNCHANGED <<turn, pending, inputs, act, outcome, bounds>>

\* A task whose handle was aborted, by an actor or by its own remove_task, may
\* end at any later await that is not ready: in on_task_finished the TurnState,
\* the hooks, the proxy's configuration, the usage totals, the timing state, the
\* sending of TurnComplete and the circuit breaker.
Die(t) ==
    /\ tpc[t] \notin {"none", "gone"} /\ task[t].doomed # "no"
    /\ TaskEnd(t)
    /\ LET self == task[t].doomed = "self" IN
       /\ outcome' = IF self THEN [outcome EXCEPT ![t] = @ \cup {"cut"}] ELSE outcome
       /\ stranded' = IF self /\ task[t].obj # NoObj THEN stranded \cup mailbox ELSE stranded
    /\ UNCHANGED <<turn, pending, mailbox, queue, actors, bounds>>

----------------------------------------------------------------------------
Submit ==
    \/ \E i \in UserOps : SubmitInput(i) \/ SubmitCompact(i) \/ ClientSteers(i) \/ Approve(i)
    \/ \E m \in Mails : ReceiveMail(m)
    \/ Interrupt
    \/ \E t \in Turns : GuardianAborts(t)

ActorStep(a) ==
    \/ Take(a) \/ AbortCancel(a) \/ AbortEnd(a) \/ AbortClear(a)
    \/ CheckWork(a) \/ Reserve(a) \/ QueueForNextTurn(a)
    \/ Collect(a) \/ Attach(a) \/ Push(a) \/ Register(a)

TaskStep(t) ==
    \/ TaskStart(t) \/ TaskDrain(t) \/ TaskCheck(t)
    \/ FinishRemove(t) \/ FinishRecord(t) \/ FinishComplete(t)
    \/ FinishSchedule(t) \/ Die(t)

Next ==
    \/ Submit
    \/ \E a \in Actors : ActorStep(a)
    \/ \E t \in Turns : TaskStep(t) \/ ToolCall(t) \/ SamplingEnds(t)

Spec == Init /\ [][Next]_vars

\* tokio runs every ready task, and a model stops calling tools at some point.
FairSpec ==
    /\ Spec
    /\ \A a \in Actors : WF_vars(ActorStep(a))
    /\ \A t \in Turns : WF_vars(TaskStep(t)) /\ SF_vars(SamplingEnds(t))

----------------------------------------------------------------------------
(* Properties. *)

Starting == {a \in Actors : apc[a] \in {"collect", "attach", "push", "register"}}

\* The active turn has a live task, or somebody is about to register one: a
\* reservation is never left behind, which would keep every later
\* maybe_start_turn_for_pending_work from starting anything.
ActiveTurnServed ==
    Active => Starting # {} \/ \E t \in Running : tpc[t] # "gone"

\* Every task that is still working belongs to the active turn, was told to stop, or
\* belongs to an actor that is aborting it, so an interrupt always reaches it.
RunningTasksAbortable ==
    \A t \in Turns :
        tpc[t] \in {"start", "drain", "model", "check"} =>
            \/ t \in Running \/ task[t].cancelled
            \/ \E a \in Actors : Aborting(a, t)

\* debug_assert!(turn.tasks.is_empty()) in start_task: a session runs one task.
OneTask == Cardinality(Running) <= 1

\* Every turn that was started ends with TurnComplete or TurnAborted, unless its
\* finishing task was cancelled by the drop of its own handle in remove_task.
\* That one exception is what the code does; replacement, interrupts, late
\* finishes and the grace period add no other.
TurnsEnd == \A t \in Turns : tpc[t] = "start" ~> outcome[t] # {}

\* Mail that asks for a turn does not stay in the mailbox, unless a finishing task
\* that cleared the active turn while the mail was there was cancelled before it
\* spawned its scheduler (on_task_finished's last step).  Mail that comes after
\* such a cut is not excused: its own arrival must start a turn.
MailWakes == \A m \in Triggers : m \in mailbox ~> m \notin mailbox \/ m \in stranded

----------------------------------------------------------------------------
(* The inductive invariant behind the two invariants. *)

\* A reserved turn waits for its first task, which some actor is about to register.
Awaited == Active /\ turn.tasks = <<>> => Starting # {}

Once(s) == \A i, j \in DOMAIN s : s[i] = s[j] => i = j

\* The tasks of the active turn are those that nobody aborted and that have not removed
\* themselves, each of them once.
TasksLive ==
    /\ \A t \in Running : /\ tpc[t] \in {"start", "drain", "model", "check", "finish"}
                          /\ ~task[t].cancelled /\ task[t].doomed = "no"
    /\ Active => Once(turn.tasks)

\* An actor that will register a task has an id for it.
ToRegister(a) ==
    \/ a \in Starting
    \/ apc[a] \in {"take", "cancel", "grace", "clear"} /\ act[a].reason = "Replaced"

\* An actor has tasks to abort just as long as it aborts; the one it waits for has been told.
ActorsInPlace ==
    \A a \in Actors :
        /\ apc[a] \in {"cancel", "grace"} <=> act[a].victims # <<>>
        /\ apc[a] = "grace" => LET v == Head(act[a].victims)
                               IN  tpc[v] = "gone" \/ task[v].cancelled
        /\ ToRegister(a) => act[a].sub # 0
        /\ apc[a] = "queue" => act[a].items \subseteq UserOps

\* The id an actor holds for its task is used by nothing else.
IdsReserved ==
    \A a \in Actors : act[a].sub # 0 =>
        /\ tpc[act[a].sub] \in {"none", "gone"}
        /\ \A b \in Actors : act[b].sub = act[a].sub => b = a
        /\ \A b \in Actors : ~Aborting(b, act[a].sub)

\* A task that is being aborted has left the active turn.
VictimsApart == \A a \in Actors : \A t \in Turns : Aborting(a, t) => t \notin Running

\* The scheduler a turn leaves behind starts once its task is over, and is done before its
\* id is used again.
SchedulersIdle ==
    \A t \in Turns : tpc[t] \notin {"none", "gone"} \/ (\E a \in Actors : act[a].sub = t)
                       => apc[t] = "idle"

IndInv ==
    /\ TypeOK /\ RunningTasksAbortable
    /\ Awaited /\ TasksLive /\ ActorsInPlace /\ IdsReserved /\ VictimsApart /\ SchedulersIdle
=============================================================================
