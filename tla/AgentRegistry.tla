---------------------------- MODULE AgentRegistry ----------------------------
(***************************************************************************)
(* The sub-agents of one user session: the slots and paths of              *)
(* codex-rs/core/src/agent/registry.rs, taken and given back by the spawn, *)
(* resume, close and send operations of agent/control.rs, beside the       *)
(* thread map of thread_manager.rs.                                        *)
(*                                                                         *)
(* Every tool call of every agent is a task.  A step is one atomic         *)
(* operation: the counter, the registry's mutex or the lock of the thread  *)
(* map.  A task may be cancelled where it awaits, and then drops its       *)
(* reservation.  Nicknames, roles and the persisted spawn edges are left   *)
(* out.                                                                    *)
(***************************************************************************)
EXTENDS Naturals, FiniteSets

CONSTANTS
    Agents,       \* thread ids of sub-agents
    Root,         \* the thread id of the session
    Paths,        \* agent paths below the root
    RootPath, NoPath,
    Tasks,        \* concurrent tool calls
    MaxThreads,   \* agent_max_threads
    NoAgent

Threads == Agents \cup {Root}

\* Keys of agent_tree: a path, or "thread:{id}" for an agent without one.
Keys == Paths \cup {RootPath} \cup Agents

\* AgentMetadata; an entry without id is a reserved path.
Entries == [id : Threads \cup {NoAgent}, path : Paths \cup {RootPath, NoPath}]

\* base: the spawning thread, or the target of a close; todo: descendants to close.
Calls == [path : Paths \cup {NoPath}, id : Threads \cup {NoAgent},
          base : Threads \cup {NoAgent}, todo : SUBSET Threads]

ASSUME AgentAssumption ==
    /\ IsFiniteSet(Agents) /\ IsFiniteSet(Paths) /\ IsFiniteSet(Tasks)
    /\ MaxThreads \in Nat \ {0}
    /\ Root \notin Agents /\ NoAgent \notin Threads
    /\ RootPath \notin Paths /\ NoPath \notin Paths \cup {RootPath}
    /\ Agents \cap (Paths \cup {RootPath, NoPath}) = {}

VARIABLES
    count,      \* total_count
    tree,       \* agent_tree, a function on the keys present
    live,       \* ids in the thread map
    parent,     \* per agent: the thread that spawned it, NoAgent before that
    pc, call,   \* per task: where it is, and its local variables
    leaked,     \* history: commits that replaced an entry of the same agent
    orphaned    \* history: agents released by a task while they were loaded again

vars == <<count, tree, live, parent, pc, call, leaked, orphaned>>
taskVars == <<pc, call>>
history == <<leaked, orphaned>>

NoCall == [path |-> NoPath, id |-> NoAgent, base |-> NoAgent, todo |-> {}]

Init ==
    /\ count = 0
    /\ tree = [k \in {} |-> NoAgent]
    /\ live = {Root}
    /\ parent = [a \in Agents |-> NoAgent]
    /\ pc = [o \in Tasks |-> "idle"]
    /\ call = [o \in Tasks |-> NoCall]
    /\ leaked = 0 /\ orphaned = {}

Put(k, e) == [j \in DOMAIN tree \cup {k} |-> IF j = k THEN e ELSE tree[j]]
Without(k) == [j \in DOMAIN tree \ {k} |-> tree[j]]

\* remove_thread of the thread map.
RemoveThread(t) == live' = live \ {t} /\ orphaned' = orphaned \ {t}

Goto(o, where) == pc' = [pc EXCEPT ![o] = where]
Return(o) == /\ pc' = [pc EXCEPT ![o] = "idle"]
             /\ call' = [call EXCEPT ![o] = NoCall]

-----------------------------------------------------------------------------
\* Spawn and resume.

\* Mutant: the limit is compared with the agents registered, not with the counter.
Reserve_Registered(o) ==
    /\ pc[o] = "idle"
    /\ Cardinality({k \in DOMAIN tree : tree[k].id \in Agents}) < MaxThreads
    /\ count' = count + 1
    /\ Goto(o, "prepare")
    /\ UNCHANGED <<tree, live, parent, history>>

\* reserve_spawn_slot; a task that finds no slot returns with an error.
Reserve(o) ==
    /\ pc[o] = "idle" /\ count < MaxThreads
    /\ count' = count + 1
    /\ Goto(o, "prepare")
    /\ UNCHANGED <<tree, live, parent, history>>

\* A tool call may outlive the removal of its own thread from the map.
Spawned(t) == t = Root \/ (t \in Agents /\ parent[t] # NoAgent)

Spawn(o, p, by) ==
    /\ Reserve(o) /\ Spawned(by)
    /\ call' = [call EXCEPT ![o] = [NoCall EXCEPT !.path = p, !.base = by]]

\* resume_single_agent_from_rollout: the thread was not loaded when the task looked.
\* The caller is the root or the old parent (a bound: any thread may call it).
ResumeAgent(o, a, by) ==
    /\ Reserve(o) /\ Spawned(a) /\ by \in {Root, parent[a]}
    /\ a \notin live
    /\ call' = [call EXCEPT ![o] = [NoCall EXCEPT !.id = a, !.base = by]]

\* Mutant: the path is taken whether or not it is occupied.
Prepare_Overwrites(o) ==
    LET p == call[o].path
    IN  /\ pc[o] = "prepare"
        /\ tree' = IF p = NoPath THEN tree ELSE Put(p, [id |-> NoAgent, path |-> p])
        /\ Goto(o, "create")
        /\ UNCHANGED <<count, live, parent, call, history>>

\* prepare_thread_spawn: the first child registers the root; a path must be free.
Prepare(o) ==
    LET rooted == IF call[o].base = Root /\ RootPath \notin DOMAIN tree
                  THEN Put(RootPath, [id |-> Root, path |-> RootPath]) ELSE tree
        p == call[o].path
    IN  /\ pc[o] = "prepare"
        /\ IF p = NoPath THEN tree' = rooted /\ Goto(o, "create") /\ UNCHANGED call
           ELSE IF p \in DOMAIN tree
           THEN /\ tree' = rooted
                /\ call' = [call EXCEPT ![o].path = NoPath]
                /\ Goto(o, "drop")
           ELSE /\ tree' = [k \in DOMAIN rooted \cup {p} |->
                              IF k = p THEN [id |-> NoAgent, path |-> p] ELSE rooted[k]]
                /\ Goto(o, "create") /\ UNCHANGED call
        /\ UNCHANGED <<count, live, parent, history>>

\* Mutant: the reservation can also be dropped once the thread is in the map.
Abandon_AfterCreate(o) ==
    /\ pc[o] \in {"prepare", "create", "commit"}
    /\ call' = [call EXCEPT ![o].path = IF pc[o] = "prepare" THEN NoPath ELSE @]
    /\ Goto(o, "drop")
    /\ UNCHANGED <<count, tree, live, parent, history>>

\* The thread cannot be created, or the task is cancelled while it waits for it.
Abandon(o) ==
    /\ pc[o] \in {"prepare", "create"}
    /\ call' = [call EXCEPT ![o].path = IF pc[o] = "prepare" THEN NoPath ELSE @]
    /\ Goto(o, "drop")
    /\ UNCHANGED <<count, tree, live, parent, history>>

\* finalize_thread_spawn puts the thread into the map; a new thread has a new id.
Create(o, a) ==
    /\ pc[o] = "create"
    /\ IF call[o].id = NoAgent THEN parent[a] = NoAgent ELSE a = call[o].id
    /\ live' = live \cup {a}
    /\ parent' = [parent EXCEPT ![a] = call[o].base]
    /\ call' = [call EXCEPT ![o].id = a]
    /\ orphaned' = orphaned \ {a}
    /\ Goto(o, "commit")
    /\ UNCHANGED <<count, tree, leaked>>

KeyOf(o) == IF call[o].path = NoPath THEN call[o].id ELSE call[o].path

Commit(o) ==
    /\ pc[o] = "commit"
    /\ tree' = Put(KeyOf(o), [id |-> call[o].id, path |-> call[o].path])
    /\ leaked' = IF KeyOf(o) \in DOMAIN tree /\ tree[KeyOf(o)].id # NoAgent
                 THEN leaked + 1 ELSE leaked
    /\ Return(o)
    /\ UNCHANGED <<count, live, parent, orphaned>>

\* Drop of an active reservation: the path, then the counter.
DropReservation(o) ==
    LET p == call[o].path
    IN  /\ pc[o] = "drop"
        /\ tree' = IF p \in DOMAIN tree /\ tree[p].id = NoAgent THEN Without(p) ELSE tree
        /\ call' = [call EXCEPT ![o].path = NoPath]
        /\ Goto(o, "decrement")
        /\ UNCHANGED <<count, live, parent, history>>

-----------------------------------------------------------------------------
\* Send and close.

\* A message finds the agent's session dead (InternalAgentDied).
SendToDead(o, t) ==
    /\ pc[o] = "idle" /\ t \in live
    /\ RemoveThread(t)
    /\ call' = [call EXCEPT ![o] = [NoCall EXCEPT !.id = t]]
    /\ Goto(o, "release")
    /\ UNCHANGED <<count, tree, parent, leaked>>

Children(ts) == {a \in Agents \cap live : parent[a] \in ts}

\* close_agent takes down the descendants it sees when it starts (two levels here).
CloseAgent(o, a) ==
    /\ pc[o] = "idle" /\ Spawned(a)
    /\ call' = [call EXCEPT ![o] =
                 [NoCall EXCEPT !.id = a, !.base = a,
                    !.todo = Children({a}) \cup Children(Children({a}))]]
    /\ Goto(o, "shutdown")
    /\ UNCHANGED <<count, tree, live, parent, history>>

\* shutdown_live_agent, as far as the thread map.
Shutdown(o) ==
    /\ pc[o] = "shutdown"
    /\ RemoveThread(call[o].id)
    /\ Goto(o, "release")
    /\ UNCHANGED <<count, tree, parent, call, leaked>>

\* The next agent of the tree, or the end.
Continue(o) ==
    IF call[o].todo = {}
    THEN Return(o)
    ELSE \E a \in call[o].todo :
            /\ call' = [call EXCEPT ![o].id = a, ![o].todo = @ \ {a}]
            /\ Goto(o, "shutdown")

\* The rollout cannot be flushed: the target of the close is skipped, a descendant
\* ends the close.
FlushFails(o) ==
    /\ pc[o] = "shutdown" /\ call[o].id \in live
    /\ IF call[o].id = call[o].base THEN Continue(o) ELSE Return(o)
    /\ UNCHANGED <<count, tree, live, parent, history>>

\* The task is cancelled before the thread is removed.
CancelClose(o) ==
    /\ pc[o] = "shutdown"
    /\ Return(o)
    /\ UNCHANGED <<count, tree, live, parent, history>>

KeysOf(t) == {k \in DOMAIN tree : tree[k].id = t}

\* Mutant: a slot is given back whether or not an entry was removed.
Release_Always(o) ==
    /\ pc[o] = "release"
    /\ IF KeysOf(call[o].id) = {}
       THEN UNCHANGED <<tree, orphaned>>
       ELSE \E k \in KeysOf(call[o].id) :
               /\ tree' = Without(k)
               /\ orphaned' = orphaned \cup (live \cap {call[o].id})
    /\ Goto(o, "decrement")
    /\ UNCHANGED <<count, live, parent, call, leaked>>

\* release_spawned_thread, under the mutex: some entry of the thread is removed.
Release(o) ==
    /\ pc[o] = "release"
    /\ IF KeysOf(call[o].id) = {}
       THEN Continue(o) /\ UNCHANGED <<tree, orphaned>>
       ELSE \E k \in KeysOf(call[o].id) :
               /\ tree' = Without(k)
               /\ orphaned' = orphaned \cup (live \cap {call[o].id})
               /\ IF tree[k].path = RootPath THEN Continue(o)
                  ELSE Goto(o, "decrement") /\ UNCHANGED call
    /\ UNCHANGED <<count, live, parent, leaked>>

Decrement(o) ==
    /\ pc[o] = "decrement"
    /\ count' = count - 1
    /\ Continue(o)
    /\ UNCHANGED <<tree, live, parent, history>>

\* The app server unloads an idle thread; the registry is not told.
Unload(a) ==
    /\ a \in live
    /\ RemoveThread(a)
    /\ UNCHANGED <<count, tree, parent, taskVars, leaked>>

-----------------------------------------------------------------------------
Step(o) ==
    \/ \E p \in Paths \cup {NoPath}, by \in Threads : Spawn(o, p, by)
    \/ \E a \in Agents, by \in Threads : ResumeAgent(o, a, by)
    \/ Prepare(o) \/ Abandon(o) \/ Commit(o) \/ DropReservation(o)
    \/ \E a \in Agents : Create(o, a) \/ CloseAgent(o, a)
    \/ \E t \in Threads : SendToDead(o, t)
    \/ Shutdown(o) \/ FlushFails(o) \/ CancelClose(o)
    \/ Release(o) \/ Decrement(o)

Next == (\E o \in Tasks : Step(o)) \/ (\E a \in Agents : Unload(a))

Spec == Init /\ [][Next]_vars

-----------------------------------------------------------------------------
Places == {"idle", "prepare", "create", "commit", "drop", "decrement", "shutdown",
           "release"}

\* Types; total_count stays between zero and agent_max_threads (it is unsigned).
TypeOK ==
    /\ count \in 0..MaxThreads
    /\ DOMAIN tree \subseteq Keys /\ \A k \in DOMAIN tree : tree[k] \in Entries
    /\ live \subseteq Threads
    /\ parent \in [Agents -> Threads \cup {NoAgent}]
    /\ pc \in [Tasks -> Places]
    /\ call \in [Tasks -> Calls]
    /\ leaked \in Nat /\ orphaned \subseteq Threads

\* Tasks that hold a slot: an active reservation, or a decrement still to do.
Holding == {o \in Tasks : pc[o] \in {"prepare", "create", "commit", "drop", "decrement"}}
Registered == {k \in DOMAIN tree : tree[k].id \in Agents}

\* The counter is exactly the reservations and the registered agents, plus the slots
\* that were lost when an agent was registered over itself.  No order of releases,
\* drops and commits gives a slot back twice, so the counter neither wraps below zero
\* nor falls behind the agents it limits.
SlotsCounted == count = Cardinality(Holding) + Cardinality(Registered) + leaked

\* The limit holds for what it is about, the sub-agent threads that are loaded: the
\* only way past it is a release that was already under way when its agent was
\* resumed, and took the entry of the new thread.
LiveBounded == Cardinality(live \ ({Root} \cup orphaned)) <= MaxThreads

\* A reserved path belongs to exactly one task, until that task commits or drops it: no
\* other task's failure frees it and no other agent is registered under it.
Reserving(o, p) == call[o].path = p /\ pc[o] \in {"create", "commit", "drop"}
PathsReserved ==
    \A p \in Paths :
        /\ \A o \in Tasks : Reserving(o, p) =>
              p \in DOMAIN tree /\ tree[p].id = NoAgent
        /\ p \in DOMAIN tree /\ tree[p].id = NoAgent =>
              \E o \in Tasks : /\ Reserving(o, p)
                               /\ \A q \in Tasks \ {o} : ~Reserving(q, p)

-----------------------------------------------------------------------------
\* The inductive invariant behind these properties.

\* An entry is filed under its own path or, without one, under its own thread id.
TreeShape ==
    \A k \in DOMAIN tree :
        /\ k \in Agents => tree[k] = [id |-> k, path |-> NoPath]
        /\ k \in Paths => tree[k].id \in Agents \cup {NoAgent} /\ tree[k].path = k
        /\ k = RootPath => tree[k] = [id |-> Root, path |-> RootPath]

\* A task registers a sub-agent, and releases a thread.
CallShape ==
    \A o \in Tasks :
        /\ pc[o] = "idle" => call[o] = NoCall
        /\ pc[o] \in {"prepare", "create"} => call[o].id \in Agents \cup {NoAgent}
        /\ pc[o] = "commit" => call[o].id \in Agents
        /\ pc[o] \in {"shutdown", "release"} => call[o].id \in Threads

\* A sub-agent that is loaded, and was not released while it was being resumed, is
\* registered or is about to be.
Backed ==
    \A a \in live \ ({Root} \cup orphaned) :
        \/ \E k \in DOMAIN tree : tree[k].id = a
        \/ \E o \in Tasks : pc[o] = "commit" /\ call[o].id = a

IndInv ==
    /\ TypeOK /\ SlotsCounted /\ PathsReserved
    /\ TreeShape /\ CallShape /\ Backed
=============================================================================
