------------------------ MODULE TurnLifecycleProofs ------------------------
(***************************************************************************)
(* The turns of a session, for any number of turns, inputs and interrupts. *)
(***************************************************************************)
EXTENDS TurnLifecycle, SequenceTheorems, WellFoundedInduction, TLAPS

----------------------------------------------------------------------------
(* Turn ids and sequences of tasks. *)

\* A set of numbers has a least one.
LEMMA LeastNumber ==
    ASSUME NEW S \in SUBSET Nat, S # {}
    PROVE  \E n \in S : \A m \in S : n <= m
<1>1. PICK n \in S : \A m \in S : <<m, n>> \notin OpToRel(<, Nat)
  BY NatLessThanWellFounded, WFMin
<1>2. ASSUME NEW m \in S PROVE n <= m
  <2>1. ~(m < n)
    BY <1>1 DEF OpToRel
  <2> QED
    BY <2>1
<1> QED
  BY <1>2

\* The id of a new turn context is the least one that nothing refers to.
LEMMA NewIdIsUnused ==
    ASSUME \E t \in Turns : Unused(t)
    PROVE  NewId \in Turns /\ Unused(NewId)
<1> DEFINE S == {t \in Turns : Unused(t)}
<1>1. S \in SUBSET Nat /\ S # {}
  BY TurnAssumption DEF Turns
<1>2. \E n \in S : \A m \in S : n <= m
  BY <1>1, LeastNumber
<1>3. \E t \in Turns : Unused(t) /\ \A u \in Turns : Unused(u) => t <= u
  BY <1>2
<1> QED
  BY <1>3 DEF NewId

\* A function on 1..n is a sequence of length n.
LEMMA LenOfFunction ==
    ASSUME NEW S, NEW n \in Nat, NEW f \in [1..n -> S]
    PROVE  f \in Seq(S) /\ Len(f) = n
<1>1. f \in Seq(S)
  BY SeqDef
<1>2. Len(f) \in Nat /\ 1..Len(f) = 1..n
  BY <1>1, LenProperties
<1>3. CASE n = 0
  <2>1. ASSUME Len(f) # 0 PROVE FALSE
    <3>1. 1 \in 1..Len(f)
      BY <1>2, <2>1
    <3> QED
      BY <1>2, <1>3, <3>1
  <2> QED
    BY <1>1, <1>3, <2>1
<1>4. CASE n # 0
  <2>1. n \in 1..Len(f)
    BY <1>2, <1>4
  <2>2. Len(f) \in 1..Len(f)
    BY <1>2, <2>1
  <2>3. Len(f) \in 1..n
    BY <1>2, <2>2
  <2> QED
    BY <1>1, <1>2, <2>1, <2>3
<1> QED
  BY <1>3, <1>4

\* swap_remove takes out its task and no other, in whatever order it leaves the rest.
LEMMA SwapRemoveIsRemoval ==
    ASSUME NEW S, NEW s \in Seq(S), Once(s), NEW t
    PROVE  /\ SwapRemove(s, t) \in Seq(S) /\ Once(SwapRemove(s, t))
           /\ \A u : Among(SwapRemove(s, t), u) <=> Among(s, u) /\ u # t
<1> DEFINE w == SwapRemove(s, t)
<1>1. Len(s) \in Nat /\ DOMAIN s = 1..Len(s) /\ \A k \in 1..Len(s) : s[k] \in S
  BY LenProperties, ElementOfSeq
<1>2. CASE ~Among(s, t)
  <2>1. w = s
    BY <1>2 DEF SwapRemove
  <2> QED
    BY <1>2, <2>1 DEF Among
<1>3. CASE Among(s, t)
  <2> DEFINE i == CHOOSE j \in DOMAIN s : s[j] = t
             n == Len(s) - 1
  <2>1. i \in 1..Len(s) /\ s[i] = t
    BY <1>1, <1>3 DEF Among
  <2>2. w = [j \in 1..n |-> IF j = i THEN s[Len(s)] ELSE s[j]]
    BY <1>3 DEF SwapRemove
  <2> HIDE DEF i
  <2>3. n \in Nat
    BY <1>1, <2>1
  <2>4. Len(s) = n + 1
    BY <1>1
  <2> HIDE DEF w, n
  <2>5. Len(s) \in 1..Len(s) /\ \A k \in 1..n : k \in 1..Len(s) /\ k # Len(s)
    BY <2>3, <2>4
  <2>6. w \in [1..n -> S]
    BY <1>1, <2>2, <2>5
  <2>7. w \in Seq(S) /\ Len(w) = n /\ DOMAIN w = 1..n
    BY <2>3, <2>6, LenOfFunction
  <2>8. ASSUME NEW k \in 1..n
        PROVE  (k = i => w[k] = s[Len(s)]) /\ (k # i => w[k] = s[k])
    BY <2>2
  <2>9. \A a, b \in 1..Len(s) : s[a] = s[b] => a = b
    BY <1>1 DEF Once
  <2>10. Once(w)
    BY <2>5, <2>7, <2>8, <2>9 DEF Once
  <2>11. ASSUME NEW u, Among(w, u) PROVE Among(s, u) /\ u # t
    <3>1. PICK k \in 1..n : w[k] = u
      BY <2>7, <2>11 DEF Among
    <3>2. CASE k = i
      <4>1. s[Len(s)] = u /\ Len(s) # i
        BY <2>5, <2>8, <3>1, <3>2
      <4> QED
        BY <1>1, <2>1, <2>5, <2>9, <4>1 DEF Among
    <3>3. CASE k # i
      BY <1>1, <2>1, <2>5, <2>8, <2>9, <3>1, <3>3 DEF Among
    <3> QED
      BY <3>2, <3>3
  <2>12. ASSUME NEW u, Among(s, u), u # t PROVE Among(w, u)
    <3>1. PICK k \in 1..Len(s) : s[k] = u
      BY <1>1, <2>12 DEF Among
    <3>2. k # i
      BY <2>1, <2>12, <3>1
    <3>3. CASE k = Len(s)
      <4>1. i \in 1..n
        BY <2>1, <2>3, <2>4, <3>2, <3>3
      <4> QED
        BY <2>7, <2>8, <3>1, <3>3, <4>1 DEF Among
    <3>4. CASE k # Len(s)
      <4>1. k \in 1..n
        BY <2>3, <2>4, <3>4
      <4> QED
        BY <2>7, <2>8, <3>1, <3>2, <4>1 DEF Among
    <3> QED
      BY <3>3, <3>4
  <2> QED
    BY <2>7, <2>10, <2>11, <2>12 DEF w
<1> QED
  BY <1>2, <1>3

\* add_task puts a new task behind the others.
LEMMA AppendAddsOne ==
    ASSUME NEW S, NEW s \in Seq(S), Once(s), NEW t \in S, ~Among(s, t)
    PROVE  /\ Append(s, t) \in Seq(S) /\ Append(s, t) # <<>> /\ Once(Append(s, t))
           /\ \A u : Among(Append(s, t), u) <=> Among(s, u) \/ u = t
<1> DEFINE w == Append(s, t)
<1>1. Len(s) \in Nat /\ DOMAIN s = 1..Len(s)
  BY LenProperties
<1>2. w \in Seq(S) /\ Len(w) = Len(s) + 1 /\ w[Len(s) + 1] = t
  BY AppendProperties
<1>3. DOMAIN w = 1..(Len(s) + 1) /\ \A k \in 1..Len(s) : w[k] = s[k]
  BY AppendProperties
<1> HIDE DEF w
<1>4. \A k \in 1..(Len(s) + 1) : k \in 1..Len(s) \/ k = Len(s) + 1
  BY <1>1
<1>5. Len(s) + 1 \in 1..(Len(s) + 1) /\ \A k \in 1..Len(s) : k \in 1..(Len(s) + 1)
  BY <1>1
<1>6. \A k \in 1..Len(s) : s[k] # t
  BY <1>1 DEF Among
<1>7. Once(w)
  BY <1>1, <1>2, <1>3, <1>4, <1>6 DEF Once
<1>8. \A u : Among(w, u) <=> Among(s, u) \/ u = t
  BY <1>1, <1>2, <1>3, <1>4, <1>5 DEF Among
<1>9. w # <<>>
  BY <1>1, <1>2
<1> QED
  BY <1>2, <1>7, <1>8, <1>9 DEF w

\* The first of the tasks to abort, and the others.
LEMMA HeadAndTail ==
    ASSUME NEW S, NEW s \in Seq(S), s # <<>>
    PROVE  /\ Head(s) \in S /\ Tail(s) \in Seq(S) /\ Among(s, Head(s))
           /\ \A u : Among(s, u) <=> Among(Tail(s), u) \/ u = Head(s)
           /\ Tail(s) = <<>> <=> Len(s) = 1
<1>1. Len(s) \in Nat \ {0} /\ DOMAIN s = 1..Len(s) /\ Head(s) = s[1] /\ Head(s) \in S
  BY LenProperties, EmptySeq, ElementOfSeq
<1>2. /\ Tail(s) \in Seq(S) /\ Len(Tail(s)) = Len(s) - 1
      /\ \A k \in 1..(Len(s) - 1) : Tail(s)[k] = s[k + 1]
  BY HeadTailProperties
<1>3. DOMAIN Tail(s) = 1..(Len(s) - 1)
  BY <1>2, LenProperties
<1>4. 1 \in 1..Len(s) /\ \A k \in 1..(Len(s) - 1) : k + 1 \in 1..Len(s)
  BY <1>1
<1>5. \A k \in 1..Len(s) : k = 1 \/ (k - 1 \in 1..(Len(s) - 1) /\ k = (k - 1) + 1)
  BY <1>1
<1>6. ASSUME NEW u, Among(s, u) PROVE Among(Tail(s), u) \/ u = Head(s)
  <2>1. PICK k \in 1..Len(s) : s[k] = u
    BY <1>1, <1>6 DEF Among
  <2>2. CASE k = 1
    BY <1>1, <2>1, <2>2
  <2>3. CASE k # 1
    <3>1. k - 1 \in 1..(Len(s) - 1) /\ Tail(s)[k - 1] = s[(k - 1) + 1] /\ k = (k - 1) + 1
      BY <1>2, <1>5, <2>3
    <3> QED
      BY <1>3, <2>1, <3>1 DEF Among
  <2> QED
    BY <2>2, <2>3
<1>7. ASSUME NEW u, Among(Tail(s), u) \/ u = Head(s) PROVE Among(s, u)
  BY <1>1, <1>2, <1>3, <1>4, <1>7 DEF Among
<1>8. Tail(s) = <<>> <=> Len(s) = 1
  <2>1. Tail(s) # <<>> => Len(Tail(s)) \in Nat \ {0}
    BY <1>2, EmptySeq
  <2>2. Len(<<>>) = 0
    BY EmptySeq
  <2>3. Tail(s) = <<>> => Len(Tail(s)) = 0
    BY <2>2, Zenon
  <2>4. Tail(s) = <<>> => Len(s) = 1
    BY <1>1, <1>2, <2>3
  <2>5. Len(s) = 1 => Tail(s) = <<>>
    BY <1>1, <1>2, <2>1
  <2> QED
    BY <2>4, <2>5
<1> QED
  BY <1>1, <1>2, <1>6, <1>7, <1>8

----------------------------------------------------------------------------
(* What a step may do to the active turn, the actors and the tasks. *)

StartPlaces == {"collect", "attach", "push", "register"}
Working == {"start", "drain", "model", "check"}
Over == {"none", "gone"}

\* The step neither opens nor closes the active turn, nor changes its tasks.
TasksKept == (Active <=> Active') /\ (Active => turn'.tasks = turn.tasks)

\* Membership in the active turn.
LEMMA RunningTasks ==
    ASSUME TypeOK
    PROVE  /\ Active => turn \in ActiveTurns /\ turn.tasks \in Seq(Turns)
           /\ \A t : t \in Running <=> Active /\ Among(turn.tasks, t)
           /\ Running \subseteq Turns
<1>1. Active => turn \in ActiveTurns /\ turn.tasks \in Seq(Turns)
  BY DEF TypeOK, Active, ActiveTurns
<1>2. \A t : t \in Running <=> Active /\ Among(turn.tasks, t)
  BY DEF Running, Among
<1>3. ASSUME NEW t \in Running PROVE t \in Turns
  <2>1. PICK i \in DOMAIN turn.tasks : turn.tasks[i] = t
    BY <1>2 DEF Among
  <2> QED
    BY <1>1, <1>2, <2>1, ElementOfSeq, LenProperties
<1> QED
  BY <1>1, <1>2, <1>3

LEMMA RunningKept ==
    ASSUME TypeOK, TypeOK', TasksKept
    PROVE  Running' = Running
<1>1. \A t : t \in Running <=> Active /\ Among(turn.tasks, t)
  BY RunningTasks
<1>2. \A t : t \in Running' <=> Active' /\ Among(turn'.tasks, t)
  BY DEF Running, Among
<1> QED
  BY <1>1, <1>2 DEF TasksKept

\* An actor moves on without aborting anything: it may open a turn that has no task yet, if
\* it goes on to register one, and it may take an id that nothing refers to.
LEMMA ActorMoves ==
    ASSUME IndInv, TypeOK', NEW a \in Actors, NEW l \in ActorLocals, NEW p \in ActorPCs,
           act' = [act EXCEPT ![a] = l], apc' = [apc EXCEPT ![a] = p], UNCHANGED <<tpc, task>>,
           apc[a] = "idle" => a \in {Loop, Guardian},
           apc[a] \notin {"cancel", "grace"}, p \notin {"cancel", "grace"}, l.victims = <<>>,
           \/ TasksKept
           \/ ~Active /\ Active' /\ turn'.tasks = <<>> /\ p \in StartPlaces,
           apc[a] \in StartPlaces => p \in StartPlaces,
           p \in StartPlaces \/ (p \in {"take", "clear"} /\ l.reason = "Replaced") => l.sub # 0,
           p = "queue" => l.items \subseteq UserOps,
           l.sub \in {0, act[a].sub} \/ Unused(l.sub)
    PROVE  IndInv'
<1> USE DEF IndInv
<1>1. Running' = Running
  <2>1. CASE TasksKept
    BY <2>1, RunningKept
  <2>2. CASE ~Active /\ Active' /\ turn'.tasks = <<>>
    BY <2>2 DEF Running
  <2> QED
    BY <2>1, <2>2
<1>2. act \in [Actors -> ActorLocals] /\ apc \in [Actors -> ActorPCs]
  BY DEF TypeOK
<1>3. act[a].victims = <<>>
  BY DEF ActorsInPlace
<1>4. \A b \in Actors : \A t : Aborting(b, t)' <=> Aborting(b, t)
  BY <1>2, <1>3 DEF Aborting, Among
<1>5. RunningTasksAbortable' /\ VictimsApart'
  BY <1>1, <1>4 DEF RunningTasksAbortable, VictimsApart
<1>6. Awaited'
  BY <1>2 DEF Awaited, Starting, StartPlaces, TasksKept, Active
<1>7. TasksLive'
  <2>1. Active' => Once(turn'.tasks)
    BY DEF TasksLive, TasksKept, Once
  <2> QED
    BY <1>1, <2>1 DEF TasksLive
<1>8. ActorsInPlace'
  BY <1>2 DEF ActorsInPlace, ToRegister, Starting, StartPlaces
<1>9. ASSUME Unused(l.sub), l.sub # 0
      PROVE  /\ tpc[l.sub] \in {"none", "gone"} /\ apc[l.sub] = "idle"
             /\ \A b \in Actors : act[b].sub # l.sub /\ ~Aborting(b, l.sub)
  BY <1>9 DEF Unused
<1>10. IdsReserved'
  BY <1>2, <1>4, <1>9 DEF IdsReserved
<1>11. SchedulersIdle'
  <2>1. l.sub \in 0..MaxTurns /\ (l.sub # 0 => l.sub \in Turns)
    BY TurnAssumption DEF ActorLocals, Turns
  <2>2. a \in {Loop, Guardian} => a \notin Turns
    BY TurnAssumption
  <2>3. ASSUME NEW t \in Turns, tpc[t] \notin {"none", "gone"} \/ (\E b \in Actors : act[b].sub = t)
        PROVE  apc'[t] = "idle"
    BY <1>2, <2>2, <2>3 DEF SchedulersIdle
  <2>4. ASSUME NEW t \in Turns, t = l.sub, Unused(l.sub) PROVE apc'[t] = "idle"
    BY <1>2, <1>9, <2>1, <2>2, <2>4 DEF Turns
  <2>5. 0 \notin Turns
    BY DEF Turns
  <2> QED
    BY <1>2, <2>3, <2>4, <2>5 DEF SchedulersIdle
<1> QED
  BY <1>5, <1>6, <1>7, <1>8, <1>10, <1>11

\* Only the phase of the active turn or its inputs change.
LEMMA InputsMove ==
    ASSUME IndInv, TypeOK', TasksKept, UNCHANGED <<apc, act, tpc, task>>
    PROVE  IndInv'
<1> USE DEF IndInv
<1>1. Running' = Running
  BY RunningKept
<1>2. \A b \in Actors : \A t : Aborting(b, t)' <=> Aborting(b, t)
  BY DEF Aborting, Among
<1>3. RunningTasksAbortable' /\ VictimsApart'
  BY <1>1, <1>2 DEF RunningTasksAbortable, VictimsApart
<1>4. Awaited' /\ TasksLive'
  BY <1>1 DEF Awaited, TasksLive, Starting, TasksKept
<1>5. ActorsInPlace' /\ IdsReserved' /\ SchedulersIdle'
  BY <1>2 DEF ActorsInPlace, IdsReserved, SchedulersIdle, ToRegister, Starting
<1> QED
  BY <1>3, <1>4, <1>5

\* A task goes on with its work, or on to its end once it has left the active turn.
LEMMA TaskMoves ==
    ASSUME IndInv, TypeOK', TasksKept, NEW t \in Turns, NEW p \in TaskPCs, NEW k \in TaskLocals,
           tpc' = [tpc EXCEPT ![t] = p], task' = [task EXCEPT ![t] = k], UNCHANGED <<apc, act>>,
           k.cancelled = task[t].cancelled, k.doomed = task[t].doomed,
           tpc[t] \notin Over, p \notin Over, p \in Working => tpc[t] \in Working,
           t \in Running => p \in Working \cup {"finish"}
    PROVE  IndInv'
<1> USE DEF IndInv
<1>1. Running' = Running /\ Running \subseteq Turns
  BY RunningKept, RunningTasks
<1>2. tpc \in [Turns -> TaskPCs] /\ task \in [Turns -> TaskLocals]
  BY DEF TypeOK
<1>3. \A b \in Actors : \A u : Aborting(b, u)' <=> Aborting(b, u)
  BY DEF Aborting, Among
<1>4. \A u \in Turns : task'[u].cancelled = task[u].cancelled /\ task'[u].doomed = task[u].doomed
  BY <1>2
<1>5. RunningTasksAbortable' /\ VictimsApart'
  BY <1>1, <1>2, <1>3, <1>4 DEF RunningTasksAbortable, VictimsApart, Working
<1>6. Awaited'
  BY DEF Awaited, Starting, TasksKept
<1>7. TasksLive'
  BY <1>1, <1>2, <1>4 DEF TasksLive, TasksKept, Working
<1>8. ActorsInPlace'
  <2> SUFFICES ASSUME NEW a \in Actors, apc[a] = "grace",
                      NEW v, v = Head(act[a].victims)
               PROVE  tpc'[v] = "gone" \/ task'[v].cancelled
    BY DEF ActorsInPlace, ToRegister, Starting
  <2>1. tpc[v] = "gone" \/ task[v].cancelled
    BY DEF ActorsInPlace
  <2>2. act[a].victims \in Seq(Turns) /\ act[a].victims # <<>>
    BY DEF ActorsInPlace, TypeOK, ActorLocals
  <2>3. v \in Turns
    BY <2>2, HeadAndTail
  <2> QED
    BY <1>2, <1>4, <2>1, <2>3 DEF Over
<1>9. IdsReserved' /\ SchedulersIdle'
  BY <1>2, <1>3 DEF IdsReserved, SchedulersIdle, Over
<1> QED
  BY <1>5, <1>6, <1>7, <1>8, <1>9

\* A task that is not part of the active turn ends; it may leave a scheduler behind.
LEMMA TaskEnds ==
    ASSUME IndInv, TypeOK', NEW t \in Turns, TaskEnd(t), tpc[t] \notin Over, t \notin Running,
           UNCHANGED <<turn, act>>, apc' = apc \/ apc' = [apc EXCEPT ![t] = "check"]
    PROVE  IndInv'
<1> USE DEF IndInv
<1>1. Running' = Running /\ Running \subseteq Turns
  BY RunningTasks DEF Running, Active
<1>2. /\ tpc \in [Turns -> TaskPCs] /\ task \in [Turns -> TaskLocals]
      /\ apc \in [Actors -> ActorPCs] /\ t \in Actors
  BY DEF TypeOK, Actors
<1>3. tpc' = [tpc EXCEPT ![t] = "gone"] /\ task' = [task EXCEPT ![t] = NoTask]
  BY DEF TaskEnd, TaskGoto
<1>4. \A b \in Actors : \A u : Aborting(b, u)' <=> Aborting(b, u)
  BY DEF Aborting, Among
<1>5. apc[t] = "idle" /\ \A b \in Actors : act[b].sub # t
  BY <1>2 DEF SchedulersIdle, IdsReserved, Over, Turns
<1>6. RunningTasksAbortable' /\ VictimsApart'
  BY <1>1, <1>2, <1>3, <1>4 DEF RunningTasksAbortable, VictimsApart
<1>7. Awaited'
  BY <1>2, <1>5 DEF Awaited, Starting, Active
<1>8. TasksLive'
  BY <1>1, <1>2, <1>3 DEF TasksLive, Active
<1>9. ActorsInPlace'
  <2>1. ASSUME NEW a \in Actors, apc[a] = "grace", NEW v, v = Head(act[a].victims)
        PROVE  tpc'[v] = "gone" \/ task'[v].cancelled
    <3>1. tpc[v] = "gone" \/ task[v].cancelled
      BY <2>1 DEF ActorsInPlace
    <3>2. act[a].victims \in Seq(Turns) /\ act[a].victims # <<>>
      BY <2>1 DEF ActorsInPlace, TypeOK, ActorLocals
    <3>3. v \in Turns
      BY <2>1, <3>2, HeadAndTail
    <3> QED
      BY <1>2, <1>3, <3>1, <3>3
  <2> QED
    BY <1>2, <1>5, <2>1 DEF ActorsInPlace, ToRegister, Starting
<1>10. IdsReserved'
  BY <1>2, <1>3, <1>4, <1>5 DEF IdsReserved
<1>11. SchedulersIdle'
  BY <1>2, <1>3, <1>5 DEF SchedulersIdle, Actors
<1> QED
  BY <1>6, <1>7, <1>8, <1>9, <1>10, <1>11

\* An actor takes the active turn and all its tasks, to abort them.
LEMMA TurnTaken ==
    ASSUME IndInv, TypeOK', Active, NEW a \in Actors, NEW l \in ActorLocals, TakeTurn(a, l),
           apc[a] \in {"idle", "take"}, apc[a] = "idle" => a \in {Loop, Guardian},
           l.sub \in {0, act[a].sub}, l.reason = "Replaced" => l.sub # 0,
           UNCHANGED <<tpc, task>>
    PROVE  IndInv'
<1> USE DEF IndInv
<1>1. /\ turn \in ActiveTurns /\ turn.tasks \in Seq(Turns)
      /\ \A t : t \in Running <=> Among(turn.tasks, t)
  BY RunningTasks
<1>2. act \in [Actors -> ActorLocals] /\ apc \in [Actors -> ActorPCs]
  BY DEF TypeOK
<1>3. /\ apc' = [apc EXCEPT ![a] = IF turn.tasks = <<>> THEN "clear" ELSE "cancel"]
      /\ ~Active' /\ Running' = {}
  BY DEF TakeTurn, Goto, Active, Running
<1>4. /\ act'[a].victims = turn.tasks /\ act'[a].sub = l.sub /\ act'[a].reason = l.reason
      /\ \A b \in Actors : b # a => act'[b] = act[b]
  BY <1>2 DEF TakeTurn, ActorLocals
<1>5. act[a].victims = <<>>
  BY DEF ActorsInPlace
<1>6. \A b \in Actors : \A t : Aborting(b, t)' <=> Aborting(b, t) \/ (b = a /\ t \in Running)
  BY <1>1, <1>4, <1>5 DEF Aborting, Among
<1>7. RunningTasksAbortable'
  BY <1>6 DEF RunningTasksAbortable
<1>8. Awaited' /\ TasksLive' /\ VictimsApart'
  BY <1>3 DEF Awaited, TasksLive, VictimsApart
<1>9. ActorsInPlace'
  BY <1>2, <1>3, <1>4 DEF ActorsInPlace, ToRegister, Starting
<1>10. IdsReserved'
  BY <1>4, <1>6 DEF IdsReserved, TasksLive
<1>11. SchedulersIdle'
  <2>1. a \in {Loop, Guardian} => a \notin Turns
    BY TurnAssumption
  <2>2. 0 \notin Turns
    BY DEF Turns
  <2> QED
    BY <1>2, <1>3, <1>4, <2>1, <2>2 DEF SchedulersIdle, Actors
<1> QED
  BY <1>7, <1>8, <1>9, <1>10, <1>11

\* A task is told that it is cancelled, or its handle is aborted.
LEMMA MarkStep ==
    ASSUME TypeOK, NEW v \in Turns,
           \/ task' = Mark(v, "cancelled", TRUE)
           \/ task' = Mark(v, "doomed", "aborted")
    PROVE  /\ task' \in [Turns -> TaskLocals]
           /\ \A t \in Turns : /\ task[t].cancelled => task'[t].cancelled
                               /\ t # v => task'[t] = task[t]
           /\ task' = Mark(v, "cancelled", TRUE) => tpc[v] = "gone" \/ task'[v].cancelled
<1>1. task \in [Turns -> TaskLocals]
  BY DEF TypeOK
<1>2. CASE tpc[v] = "gone"
  BY <1>1, <1>2 DEF Mark
<1>3. CASE tpc[v] # "gone" /\ task' = Mark(v, "cancelled", TRUE)
  <2>1. task' = [task EXCEPT ![v] = [task[v] EXCEPT !.cancelled = TRUE]]
    BY <1>1, <1>3 DEF Mark
  <2> QED
    BY <1>1, <2>1 DEF TaskLocals
<1>4. CASE tpc[v] # "gone" /\ task' = Mark(v, "doomed", "aborted") /\ task' # Mark(v, "cancelled", TRUE)
  <2>1. task' = [task EXCEPT ![v] = [task[v] EXCEPT !.doomed = "aborted"]]
    BY <1>1, <1>4 DEF Mark
  <2> QED
    BY <1>1, <1>4, <2>1 DEF TaskLocals
<1> QED
  BY <1>2, <1>3, <1>4

\* The first of the tasks an actor aborts.
LEMMA FirstVictim ==
    ASSUME TypeOK, ActorsInPlace, NEW a \in Actors, apc[a] \in {"cancel", "grace"}
    PROVE  /\ Head(act[a].victims) \in Turns /\ Tail(act[a].victims) \in Seq(Turns)
           /\ \A t : Aborting(a, t) <=>
                        Among(Tail(act[a].victims), t) \/ t = Head(act[a].victims)
           /\ Tail(act[a].victims) = <<>> <=> Len(act[a].victims) = 1
<1>1. act[a].victims \in Seq(Turns) /\ act[a].victims # <<>>
  BY DEF TypeOK, ActorLocals, ActorsInPlace
<1> QED
  BY <1>1, HeadAndTail DEF Aborting

\* handle_task_abort cancels the first task it has to abort.
LEMMA AbortCancelPreserves ==
    ASSUME IndInv, NEW a \in Actors, AbortCancel(a)
    PROVE  IndInv'
<1> USE DEF IndInv
<1> DEFINE v == Head(act[a].victims)
<1>1. /\ apc[a] = "cancel" /\ apc' = [apc EXCEPT ![a] = "grace"] /\ task' = Mark(v, "cancelled", TRUE)
      /\ UNCHANGED <<turn, pending, mailbox, queue, stranded, act, tpc, outcome, sent, interrupts>>
  BY DEF AbortCancel, Goto, inputs, bounds
<1>2. v \in Turns /\ Aborting(a, v)
  BY <1>1, FirstVictim
<1> HIDE DEF v
<1>3. /\ task' \in [Turns -> TaskLocals]
      /\ \A t \in Turns : (task[t].cancelled => task'[t].cancelled) /\ (t # v => task'[t] = task[t])
      /\ tpc[v] = "gone" \/ task'[v].cancelled
  BY <1>1, <1>2, MarkStep
<1>4. apc \in [Actors -> ActorPCs]
  BY DEF TypeOK
<1>5. TypeOK'
  BY <1>1, <1>3 DEF TypeOK, ActorPCs
<1>6. Running' = Running /\ Running \subseteq Turns /\ v \notin Running
  BY <1>1, <1>2, RunningTasks DEF Running, Active, VictimsApart
<1>7. \A b \in Actors : \A t : Aborting(b, t)' <=> Aborting(b, t)
  BY <1>1 DEF Aborting, Among
<1>8. RunningTasksAbortable' /\ VictimsApart'
  BY <1>1, <1>3, <1>6, <1>7 DEF RunningTasksAbortable, VictimsApart
<1>9. Awaited' /\ TasksLive'
  BY <1>1, <1>3, <1>4, <1>6 DEF Awaited, Starting, TasksLive, Active
<1>10. ActorsInPlace'
  <2>1. \A b \in Actors : apc[b] = "grace" => Head(act[b].victims) \in Turns
    BY FirstVictim
  <2>2. \A b \in Actors : apc'[b] = "grace" =>
           LET w == Head(act'[b].victims) IN tpc'[w] = "gone" \/ task'[w].cancelled
    BY <1>1, <1>3, <1>4, <2>1 DEF ActorsInPlace, v
  <2> QED
    BY <1>1, <1>4, <2>2 DEF ActorsInPlace, ToRegister, Starting
<1>11. IdsReserved' /\ SchedulersIdle'
  <2>1. IdsReserved'
    BY <1>1, <1>7 DEF IdsReserved
  <2>2. a \notin Turns \/ apc[a] # "idle"
    BY <1>1
  <2>3. SchedulersIdle'
    BY <1>1, <1>4, <2>2 DEF SchedulersIdle, Actors
  <2> QED
    BY <2>1, <2>3
<1> QED
  BY <1>5, <1>8, <1>9, <1>10, <1>11

\* The grace period is over: the task is aborted and the next one is due.
LEMMA AbortEndPreserves ==
    ASSUME IndInv, NEW a \in Actors, AbortEnd(a)
    PROVE  IndInv'
<1> USE DEF IndInv
<1> DEFINE v == Head(act[a].victims)
           rest == Tail(act[a].victims)
<1>1. /\ apc[a] = "grace" /\ task' = Mark(v, "doomed", "aborted")
      /\ apc' = [apc EXCEPT ![a] = IF Len(act[a].victims) = 1 THEN "clear" ELSE "cancel"]
      /\ outcome' = [outcome EXCEPT ![v] = @ \cup {"aborted"}]
      /\ act' = [act EXCEPT ![a] = [act[a] EXCEPT !.victims = rest]]
      /\ UNCHANGED <<turn, pending, mailbox, queue, stranded, tpc, sent, interrupts>>
  BY DEF AbortEnd, Goto, inputs, bounds
<1>2. /\ v \in Turns /\ rest \in Seq(Turns) /\ (rest = <<>> <=> Len(act[a].victims) = 1)
      /\ \A t : Aborting(a, t) <=> Among(rest, t) \/ t = v
  BY <1>1, FirstVictim
<1>3. tpc[v] = "gone" \/ task[v].cancelled
  BY <1>1 DEF ActorsInPlace
<1> HIDE DEF v, rest
<1>4. /\ task' \in [Turns -> TaskLocals]
      /\ \A t \in Turns : (task[t].cancelled => task'[t].cancelled) /\ (t # v => task'[t] = task[t])
  BY <1>1, <1>2, MarkStep
<1>5. act \in [Actors -> ActorLocals] /\ apc \in [Actors -> ActorPCs]
  BY DEF TypeOK
<1>6. /\ [act[a] EXCEPT !.victims = rest] \in ActorLocals
      /\ act'[a].victims = rest /\ act'[a].sub = act[a].sub /\ act'[a].reason = act[a].reason
      /\ act'[a].items = act[a].items
      /\ \A b \in Actors : b # a => act'[b] = act[b]
  BY <1>1, <1>2, <1>5 DEF ActorLocals
<1>7. TypeOK'
  BY <1>1, <1>4, <1>6 DEF TypeOK, ActorPCs, Ends
<1>8. Running' = Running /\ Running \subseteq Turns /\ v \notin Running
  BY <1>1, <1>2, RunningTasks DEF Running, Active, VictimsApart
<1>9. \A b \in Actors : \A t : /\ Aborting(b, t)' => Aborting(b, t)
                               /\ Aborting(b, t) => Aborting(b, t)' \/ t = v
  BY <1>2, <1>6 DEF Aborting, Among
<1>10. RunningTasksAbortable'
  BY <1>1, <1>3, <1>4, <1>8, <1>9 DEF RunningTasksAbortable
<1>11. VictimsApart'
  BY <1>8, <1>9 DEF VictimsApart
<1>12. Awaited' /\ TasksLive'
  BY <1>1, <1>4, <1>5, <1>8 DEF Awaited, Starting, TasksLive, Active
<1>13. ActorsInPlace'
  <2>1. \A b \in Actors : apc[b] = "grace" => Head(act[b].victims) \in Turns
    BY FirstVictim
  <2>2. \A b \in Actors : apc'[b] = "grace" =>
           LET w == Head(act'[b].victims) IN tpc'[w] = "gone" \/ task'[w].cancelled
    BY <1>1, <1>4, <1>5, <1>6, <2>1 DEF ActorsInPlace
  <2>3. \A b \in Actors : apc'[b] \in {"cancel", "grace"} <=> act'[b].victims # <<>>
    BY <1>1, <1>2, <1>5, <1>6 DEF ActorsInPlace
  <2>4. \A b \in Actors : ToRegister(b)' => act'[b].sub # 0
    BY <1>1, <1>5, <1>6 DEF ActorsInPlace, ToRegister, Starting
  <2> QED
    BY <1>1, <1>5, <1>6, <2>2, <2>3, <2>4 DEF ActorsInPlace
<1>14. IdsReserved'
  BY <1>1, <1>6, <1>9 DEF IdsReserved
<1>15. SchedulersIdle'
  BY <1>1, <1>5, <1>6 DEF SchedulersIdle, Actors
<1> QED
  BY <1>7, <1>10, <1>11, <1>12, <1>13, <1>14, <1>15

\* get_or_insert_default: the active turn, or a new one without tasks.
LEMMA GetOrInsertTurn ==
    ASSUME IndInv, NEW a \in Actors, a \in Starting, NEW place \in {"reserve", "attach", "register"}
    PROVE  LET turn2 == GetOrInsert(a, place)
           IN  /\ turn2 \in ActiveTurns /\ Once(turn2.tasks)
               /\ \A t : Among(turn2.tasks, t) <=> t \in Running
               /\ Active => turn2 = turn
               /\ ~Active => turn2.tasks = <<>>
<1> USE DEF IndInv
<1>1. act[a].sub \in Turns
  BY TurnAssumption DEF TypeOK, ActorLocals, ActorsInPlace, ToRegister, Turns
<1>2. CASE Active
  BY <1>2, RunningTasks DEF GetOrInsert, TasksLive
<1>3. CASE ~Active
  <2>1. GetOrInsert(a, place) = [obj |-> <<act[a].sub, place>>, tasks |-> <<>>, phase |-> "current"]
    BY <1>3 DEF GetOrInsert, NewTurn
  <2>2. <<act[a].sub, place>> \in Objs
    BY <1>1 DEF Objs
  <2>3. <<>> \in Seq(Turns) /\ Once(<<>>) /\ \A t : ~Among(<<>>, t)
    BY DEF Once, Among
  <2>4. \A t : t \notin Running
    BY <1>3 DEF Running
  <2> QED
    BY <1>3, <2>1, <2>2, <2>3, <2>4 DEF ActiveTurns
<1> QED
  BY <1>2, <1>3

\* start_task registers the task under the id the actor holds.
LEMMA RegisterPreserves ==
    ASSUME IndInv, NEW a \in Actors, Register(a)
    PROVE  IndInv'
<1> USE DEF IndInv
<1> DEFINE s == act[a].sub
           base == GetOrInsert(a, "register")
           k == [NoTask EXCEPT !.kind = act[a].kind, !.input = act[a].input]
<1>1. /\ apc[a] = "register" /\ a \in Starting
      /\ turn' = [base EXCEPT !.tasks = Append(@, s)]
      /\ tpc' = [tpc EXCEPT ![s] = "start"] /\ task' = [task EXCEPT ![s] = k]
      /\ apc' = [apc EXCEPT ![a] = "idle"] /\ act' = [act EXCEPT ![a] = NoLocals]
      /\ UNCHANGED <<pending, mailbox, queue, stranded, outcome, sent, interrupts>>
  BY DEF Register, Return, Goto, Starting, inputs, bounds
<1>2. /\ act \in [Actors -> ActorLocals] /\ apc \in [Actors -> ActorPCs]
      /\ tpc \in [Turns -> TaskPCs] /\ task \in [Turns -> TaskLocals]
  BY DEF TypeOK
<1>3. s \in Turns /\ s # 0
  BY <1>1, TurnAssumption DEF TypeOK, ActorLocals, ActorsInPlace, ToRegister, Turns
<1>4. k \in TaskLocals /\ ~k.cancelled /\ k.doomed = "no"
  BY <1>2 DEF NoTask, TaskLocals, ActorLocals
<1>5. NoLocals \in ActorLocals /\ NoLocals.victims = <<>> /\ NoLocals.sub = 0
  BY TurnAssumption DEF NoLocals, ActorLocals, Kinds
<1>6. /\ base \in ActiveTurns /\ Once(base.tasks) /\ \A t : Among(base.tasks, t) <=> t \in Running
  BY <1>1, GetOrInsertTurn
<1>7. /\ tpc[s] \in {"none", "gone"} /\ s \notin Running
      /\ \A b \in Actors : ~Aborting(b, s) /\ (act[b].sub = s => b = a)
  BY <1>3 DEF IdsReserved, TasksLive
<1> HIDE DEF base, k
<1>8. /\ Append(base.tasks, s) \in Seq(Turns) /\ Once(Append(base.tasks, s))
      /\ Append(base.tasks, s) # <<>>
      /\ \A t : Among(Append(base.tasks, s), t) <=> Among(base.tasks, t) \/ t = s
  <2>1. base.tasks \in Seq(Turns) /\ ~Among(base.tasks, s)
    BY <1>6, <1>7 DEF ActiveTurns
  <2> QED
    BY <1>3, <1>6, <2>1, AppendAddsOne
<1>9. turn' \in ActiveTurns /\ turn'.tasks = Append(base.tasks, s) /\ Active'
  BY <1>1, <1>6, <1>8, TurnAssumption DEF ActiveTurns, Active
<1>10. TypeOK'
  BY <1>1, <1>3, <1>4, <1>5, <1>9 DEF TypeOK, ActorPCs, TaskPCs
<1>11. \A t : t \in Running' <=> t \in Running \/ t = s
  <2>1. \A t : t \in Running' <=> Active' /\ Among(turn'.tasks, t)
    BY DEF Running, Among
  <2> QED
    BY <1>6, <1>8, <1>9, <2>1
<1>12. act[a].victims = <<>>
  BY <1>1 DEF ActorsInPlace
<1>13. \A b \in Actors : \A t : Aborting(b, t)' <=> Aborting(b, t)
  BY <1>1, <1>2, <1>5, <1>12 DEF Aborting, Among
<1>14. RunningTasksAbortable' /\ VictimsApart'
  BY <1>1, <1>2, <1>7, <1>11, <1>13 DEF RunningTasksAbortable, VictimsApart
<1>15. Awaited' /\ TasksLive'
  <2>1. Running \subseteq Turns
    BY RunningTasks
  <2> QED
    BY <1>1, <1>2, <1>3, <1>4, <1>8, <1>9, <1>11, <2>1 DEF Awaited, TasksLive
<1>16. ActorsInPlace'
  <2>1. \A b \in Actors : apc[b] = "grace" =>
           Head(act[b].victims) \in Turns /\ Head(act[b].victims) # s
    BY <1>7, FirstVictim
  <2>2. \A b \in Actors : apc'[b] = "grace" =>
           LET w == Head(act'[b].victims) IN tpc'[w] = "gone" \/ task'[w].cancelled
    BY <1>1, <1>2, <2>1 DEF ActorsInPlace
  <2> QED
    BY <1>1, <1>2, <1>5, <2>2 DEF ActorsInPlace, ToRegister, Starting
<1>17. IdsReserved'
  BY <1>1, <1>2, <1>5, <1>7, <1>13 DEF IdsReserved
<1>18. SchedulersIdle'
  <2>1. 0 \notin Turns
    BY DEF Turns
  <2> QED
    BY <1>1, <1>2, <1>3, <1>5, <2>1 DEF SchedulersIdle, Actors
<1> QED
  BY <1>10, <1>14, <1>15, <1>16, <1>17, <1>18

\* on_task_finished: the task leaves the active turn, which goes with its last task.
LEMMA FinishRemovePreserves ==
    ASSUME IndInv, NEW t \in Turns, tpc[t] = "finish", ~task[t].cancelled, Active,
           NEW rest, rest = SwapRemove(turn.tasks, t),
           NEW k \in TaskLocals, ~k.cancelled, task' = [task EXCEPT ![t] = k],
           NEW p \in {"record", "complete"}, tpc' = [tpc EXCEPT ![t] = p],
           turn' = IF rest = <<>> THEN NoTurn ELSE [turn EXCEPT !.tasks = rest],
           UNCHANGED <<pending, mailbox, queue, stranded, apc, act, outcome, sent, interrupts>>
    PROVE  IndInv'
<1> USE DEF IndInv
<1>1. /\ turn \in ActiveTurns /\ turn.tasks \in Seq(Turns) /\ Running \subseteq Turns
      /\ \A u : u \in Running <=> Among(turn.tasks, u)
  BY RunningTasks
<1>2. rest \in Seq(Turns) /\ Once(rest) /\ \A u : Among(rest, u) <=> Among(turn.tasks, u) /\ u # t
  BY <1>1, SwapRemoveIsRemoval DEF TasksLive
<1>3. /\ tpc \in [Turns -> TaskPCs] /\ task \in [Turns -> TaskLocals]
  BY DEF TypeOK
<1>4. /\ turn' \in ActiveTurns \cup {NoTurn}
      /\ Active' => turn'.tasks = rest /\ rest # <<>>
      /\ ~Active' => rest = <<>>
  BY <1>1, <1>2, TurnAssumption DEF ActiveTurns, Active
<1>5. TypeOK'
  BY <1>3, <1>4 DEF TypeOK, TaskPCs
<1>6. \A u : u \in Running' <=> u \in Running /\ u # t
  <2>1. \A u : u \in Running' <=> Active' /\ Among(turn'.tasks, u)
    BY <1>5, RunningTasks DEF Running, Among
  <2>2. ~Active' => \A u : ~Among(rest, u)
    BY <1>4 DEF Among
  <2> QED
    BY <1>1, <1>2, <1>4, <2>1, <2>2
<1>7. \A b \in Actors : \A u : Aborting(b, u)' <=> Aborting(b, u)
  BY DEF Aborting, Among
<1>8. RunningTasksAbortable' /\ VictimsApart'
  BY <1>3, <1>6, <1>7 DEF RunningTasksAbortable, VictimsApart
<1>9. Awaited' /\ TasksLive'
  BY <1>1, <1>2, <1>3, <1>4, <1>6 DEF Awaited, TasksLive
<1>10. ActorsInPlace'
  <2>1. \A b \in Actors : apc[b] = "grace" => Head(act[b].victims) \in Turns
    BY FirstVictim
  <2>2. \A b \in Actors : apc'[b] = "grace" =>
           LET w == Head(act'[b].victims) IN tpc'[w] = "gone" \/ task'[w].cancelled
    BY <1>3, <2>1 DEF ActorsInPlace
  <2> QED
    BY <2>2 DEF ActorsInPlace, ToRegister, Starting
<1>11. IdsReserved' /\ SchedulersIdle'
  BY <1>3, <1>7 DEF IdsReserved, SchedulersIdle
<1> QED
  BY <1>5, <1>8, <1>9, <1>10, <1>11

----------------------------------------------------------------------------
(* The steps, one by one. *)

LEMMA NoLocalsAreLocals ==
    /\ NoLocals \in ActorLocals /\ NoLocals.victims = <<>> /\ NoLocals.sub = 0
    /\ NoTask \in TaskLocals
  BY TurnAssumption DEF NoLocals, ActorLocals, NoTask, TaskLocals, Kinds

\* The local variables of spawn_task, for a regular turn and for a compact one.
LEMMA NewLocals ==
    ASSUME NEW n \in Turns, NEW i \in Items, NEW l,
           \/ l = [NoLocals EXCEPT !.sub = n, !.input = {i}]
           \/ l = [NoLocals EXCEPT !.sub = n, !.kind = "compact"]
    PROVE  l \in ActorLocals /\ l.victims = <<>> /\ l.sub = n /\ l.sub # 0
<1>1. n \in 0..MaxTurns /\ n # 0 /\ {i} \in SUBSET Items
  BY TurnAssumption DEF Turns
<1>2. CASE l = [NoLocals EXCEPT !.sub = n, !.input = {i}]
  BY <1>1, <1>2, NoLocalsAreLocals DEF ActorLocals
<1>3. CASE l = [NoLocals EXCEPT !.sub = n, !.kind = "compact"]
  BY <1>1, <1>3, NoLocalsAreLocals DEF ActorLocals, Kinds
<1> QED
  BY <1>2, <1>3

\* The turn stays as it is.
LEMMA TurnUnchanged == ASSUME UNCHANGED turn PROVE TasksKept
  BY DEF TasksKept, Active

\* steer_input adds to the inputs of the active turn and reopens its mailbox.
LEMMA SteerStep ==
    ASSUME TypeOK, Active, NEW i \in Items, Steer(i)
    PROVE  turn' \in ActiveTurns /\ pending' \in [Objs -> SUBSET Items] /\ TasksKept
<1>1. turn \in ActiveTurns /\ turn.obj \in Objs /\ pending \in [Objs -> SUBSET Items]
  BY DEF TypeOK, Active, ActiveTurns
<1>2. turn' \in ActiveTurns /\ turn'.tasks = turn.tasks
  BY <1>1 DEF Steer, ActiveTurns
<1>3. pending' \in [Objs -> SUBSET Items]
  BY <1>1 DEF Steer
<1> QED
  BY <1>2, <1>3, TurnAssumption DEF TasksKept, Active

LEMMA NewContextStep ==
    ASSUME TypeOK, NewTurnContext
    PROVE  /\ NewId \in Turns /\ Unused(NewId)
           /\ pending' \in [Objs -> SUBSET Items]
           /\ outcome' \in [Turns -> SUBSET Ends]
<1>1. NewId \in Turns /\ Unused(NewId)
  BY NewIdIsUnused DEF NewTurnContext
<1>2. pending' \in [Objs -> SUBSET Items]
  <2>1. \A o \in Objs : (IF o[1] = NewId THEN {} ELSE pending[o]) \in SUBSET Items
    BY DEF TypeOK
  <2> QED
    BY <2>1 DEF NewTurnContext
<1>3. outcome' \in [Turns -> SUBSET Ends]
  BY <1>1 DEF NewTurnContext, TypeOK
<1> QED
  BY <1>1, <1>2, <1>3

LEMMA TakePendingStep ==
    ASSUME TypeOK, TakePendingInput
    PROVE  /\ pending' \in [Objs -> SUBSET Items] /\ mailbox' \subseteq Mails
           /\ PendingInput \subseteq Items
  BY DEF TypeOK, TakePendingInput, PendingInput, Items, Active, ActiveTurns

\* The submission loop steers an input, or starts a turn for it.
LEMMA SubmitPreserves ==
    ASSUME IndInv, NEW i \in UserOps, SubmitInput(i) \/ SubmitCompact(i)
    PROVE  IndInv'
<1> USE DEF IndInv
<1>1. Loop \in Actors /\ i \in Items /\ sent \cup {i} \subseteq Items
  BY DEF Actors, Items, TypeOK
<1>2. CASE Steerable /\ Steer(i) /\ sent' = sent \cup {i}
           /\ UNCHANGED <<apc, act, outcome, mailbox, queue, stranded, tpc, task, interrupts>>
  <2>1. turn' \in ActiveTurns /\ pending' \in [Objs -> SUBSET Items] /\ TasksKept
    BY <1>1, <1>2, SteerStep DEF Steerable
  <2>2. TypeOK'
    BY <1>1, <1>2, <2>1 DEF TypeOK
  <2> QED
    BY <1>2, <2>1, <2>2, InputsMove
<1>3. ASSUME NEW l, apc[Loop] = "idle", NewTurnContext, sent' = sent \cup {i},
             \/ l = [NoLocals EXCEPT !.sub = NewId, !.input = {i}]
             \/ l = [NoLocals EXCEPT !.sub = NewId, !.kind = "compact"],
             act' = [act EXCEPT ![Loop] = l], apc' = [apc EXCEPT ![Loop] = "take"],
             UNCHANGED <<turn, mailbox, queue, stranded, tpc, task, interrupts>>
      PROVE  IndInv'
  <2>1. /\ NewId \in Turns /\ Unused(NewId) /\ pending' \in [Objs -> SUBSET Items]
        /\ outcome' \in [Turns -> SUBSET Ends]
    BY <1>3, NewContextStep
  <2>2. l \in ActorLocals /\ l.victims = <<>> /\ l.sub = NewId /\ l.sub # 0
    BY <1>1, <1>3, <2>1, NewLocals
  <2>3. TypeOK'
    BY <1>1, <1>3, <2>1, <2>2 DEF TypeOK, ActorPCs
  <2>4. TasksKept
    BY <1>3, TurnUnchanged
  <2>5. "take" \in ActorPCs
    BY DEF ActorPCs
  <2> QED
    BY <1>1, <1>3, <2>1, <2>2, <2>3, <2>4, <2>5, ActorMoves DEF StartPlaces
<1> QED
  BY <1>2, <1>3 DEF SubmitInput, SubmitCompact, Goto, inputs, actors

\* turn/steer, beside the submission loop.
LEMMA ClientSteersPreserves ==
    ASSUME IndInv, NEW i \in UserOps, ClientSteers(i)
    PROVE  IndInv'
<1> USE DEF IndInv
<1>1. i \in Items /\ sent' \subseteq Items
  BY DEF Items, TypeOK, ClientSteers
<1>2. turn' \in ActiveTurns /\ pending' \in [Objs -> SUBSET Items] /\ TasksKept
  BY <1>1, SteerStep DEF ClientSteers, Steerable
<1>3. UNCHANGED <<apc, act, tpc, task, outcome, mailbox, queue, stranded, interrupts>>
  BY DEF ClientSteers, inputs, actors, tasks
<1>4. TypeOK'
  BY <1>1, <1>2, <1>3 DEF TypeOK
<1> QED
  BY <1>2, <1>3, <1>4, InputsMove

\* Mail arrives, and the loop may look for work.
LEMMA ReceiveMailPreserves ==
    ASSUME IndInv, NEW m \in Mails, ReceiveMail(m)
    PROVE  IndInv'
<1> USE DEF IndInv
<1>1. /\ apc[Loop] = "idle" /\ (apc' = apc \/ apc' = [apc EXCEPT ![Loop] = "check"])
      /\ mailbox' = mailbox \cup {m} /\ sent' = sent \cup {m}
      /\ UNCHANGED <<turn, pending, queue, stranded, act, tpc, task, outcome, interrupts>>
  BY DEF ReceiveMail, Goto, tasks
<1>2. TypeOK' /\ Loop \in Actors
  BY <1>1 DEF TypeOK, Items, Actors, ActorPCs
<1>3. TasksKept
  BY <1>1, TurnUnchanged
<1>4. CASE apc' = apc
  BY <1>1, <1>2, <1>3, <1>4, InputsMove
<1>5. CASE apc' = [apc EXCEPT ![Loop] = "check"]
  <2>1. act[Loop] \in ActorLocals /\ act' = [act EXCEPT ![Loop] = act[Loop]]
    BY <1>1, <1>2 DEF TypeOK
  <2>2. act[Loop].victims = <<>>
    BY <1>1, <1>2 DEF ActorsInPlace
  <2>3. "check" \in ActorPCs
    BY DEF ActorPCs
  <2> QED
    BY <1>1, <1>2, <1>3, <1>5, <2>1, <2>2, <2>3, ActorMoves DEF StartPlaces
<1> QED
  BY <1>1, <1>4, <1>5

\* An approved action is injected into the active turn or kept for the next one.
LEMMA ApprovePreserves ==
    ASSUME IndInv, NEW q \in UserOps, Approve(q)
    PROVE  IndInv'
<1> USE DEF IndInv
<1>1. /\ apc[Loop] = "idle" /\ sent' = sent \cup {q}
      /\ UNCHANGED <<turn, mailbox, queue, stranded, tpc, task, outcome, interrupts>>
  BY DEF Approve, inputs, tasks
<1>2. Loop \in Actors /\ q \in Items /\ sent' \subseteq Items /\ TasksKept
  BY <1>1, TurnUnchanged DEF TypeOK, Items, Actors
<1>3. CASE Active
  <2>1. pending' = [pending EXCEPT ![turn.obj] = @ \cup {q}] /\ UNCHANGED <<apc, act>>
    BY <1>3 DEF Approve, actors
  <2>2. pending' \in [Objs -> SUBSET Items]
    BY <1>2, <2>1 DEF TypeOK
  <2>3. TypeOK'
    BY <1>1, <1>2, <2>1, <2>2 DEF TypeOK
  <2> QED
    BY <1>1, <1>2, <2>1, <2>3, InputsMove
<1>4. CASE ~Active
  <2> DEFINE l == [act[Loop] EXCEPT !.items = {q}]
  <2>1. act' = [act EXCEPT ![Loop] = l] /\ apc' = [apc EXCEPT ![Loop] = "queue"] /\ UNCHANGED pending
    BY <1>4 DEF Approve, Goto
  <2>2. act[Loop] \in ActorLocals /\ act[Loop].victims = <<>>
    BY <1>1, <1>2 DEF TypeOK, ActorsInPlace
  <2>3. l \in ActorLocals /\ l.victims = <<>> /\ l.sub = act[Loop].sub /\ l.items = {q}
    BY <1>2, <2>2 DEF ActorLocals
  <2> HIDE DEF l
  <2>4. TypeOK' /\ "queue" \in ActorPCs
    BY <1>1, <1>2, <2>1, <2>3 DEF TypeOK, ActorPCs
  <2> QED
    BY <1>1, <1>2, <2>1, <2>3, <2>4, ActorMoves DEF StartPlaces
<1> QED
  BY <1>3, <1>4

\* The items for the next turn are queued.
LEMMA QueuePreserves ==
    ASSUME IndInv, NEW a \in Actors, QueueForNextTurn(a)
    PROVE  IndInv'
<1> USE DEF IndInv
<1>1. /\ apc[a] = "queue" /\ queue' = queue \cup act[a].items
      /\ act' = [act EXCEPT ![a] = NoLocals] /\ apc' = [apc EXCEPT ![a] = "idle"]
      /\ UNCHANGED <<turn, pending, mailbox, stranded, tpc, task, outcome, sent, interrupts>>
  BY DEF QueueForNextTurn, Return, Goto, tasks, bounds
<1>2. act[a].items \subseteq UserOps
  BY <1>1 DEF ActorsInPlace
<1>3. TypeOK' /\ "idle" \in ActorPCs
  BY <1>1, <1>2, NoLocalsAreLocals DEF TypeOK, ActorPCs
<1>4. TasksKept
  BY <1>1, TurnUnchanged
<1> QED
  BY <1>1, <1>3, <1>4, NoLocalsAreLocals, ActorMoves DEF StartPlaces

\* The user interrupts: the loop goes on to take the turn.
LEMMA InterruptPreserves ==
    ASSUME IndInv, Interrupt
    PROVE  IndInv'
<1> USE DEF IndInv
<1> DEFINE l == [NoLocals EXCEPT !.reason = "Interrupted"]
<1>1. /\ apc[Loop] = "idle" /\ interrupts < MaxInterrupts /\ interrupts' = interrupts + 1
      /\ act' = [act EXCEPT ![Loop] = l] /\ apc' = [apc EXCEPT ![Loop] = "take"]
      /\ UNCHANGED <<turn, pending, mailbox, queue, stranded, tpc, task, outcome, sent>>
  BY DEF Interrupt, Goto, inputs, tasks
<1>2. l \in ActorLocals /\ l.victims = <<>> /\ l.sub = 0 /\ l.reason # "Replaced"
  BY NoLocalsAreLocals DEF NoLocals, ActorLocals
<1> HIDE DEF l
<1>3. Loop \in Actors /\ interrupts' \in 0..MaxInterrupts /\ "take" \in ActorPCs
  BY <1>1, TurnAssumption DEF Actors, TypeOK, ActorPCs
<1>4. TypeOK'
  BY <1>1, <1>2, <1>3 DEF TypeOK
<1>5. TasksKept
  BY <1>1, TurnUnchanged
<1> QED
  BY <1>1, <1>2, <1>3, <1>4, <1>5, ActorMoves DEF StartPlaces

LEMMA TakeTurnTypes ==
    ASSUME TypeOK, Active, NEW a \in Actors, NEW l \in ActorLocals, TakeTurn(a, l),
           interrupts' \in 0..MaxInterrupts,
           UNCHANGED <<pending, mailbox, queue, stranded, tpc, task, outcome, sent>>
    PROVE  TypeOK'
<1>1. turn.tasks \in Seq(Turns) /\ turn.obj \in Objs
  BY DEF TypeOK, Active, ActiveTurns
<1>2. [l EXCEPT !.victims = turn.tasks, !.obj = turn.obj] \in ActorLocals
  BY <1>1 DEF ActorLocals
<1>3. act' \in [Actors -> ActorLocals] /\ apc' \in [Actors -> ActorPCs] /\ turn' = NoTurn
  BY <1>2 DEF TakeTurn, Goto, TypeOK, ActorPCs
<1> QED
  BY <1>3 DEF TypeOK

\* abort_all_tasks and abort_turn_if_active take the turn, if there is one.
LEMMA TakePreserves ==
    ASSUME IndInv, NEW a \in Actors, Take(a)
    PROVE  IndInv'
<1> USE DEF IndInv
<1>1. apc[a] = "take" /\ UNCHANGED <<pending, mailbox, queue, stranded, tpc, task, outcome, sent, interrupts>>
  BY DEF Take, inputs, tasks, bounds
<1>2. act[a] \in ActorLocals /\ act[a].victims = <<>> /\ (act[a].reason = "Replaced" => act[a].sub # 0)
  BY <1>1 DEF TypeOK, ActorsInPlace, ToRegister
<1>3. CASE Active
  <2>1. TakeTurn(a, act[a])
    BY <1>3 DEF Take
  <2>2. TypeOK'
    BY <1>1, <1>2, <1>3, <2>1, TakeTurnTypes DEF TypeOK
  <2> QED
    BY <1>1, <1>2, <1>3, <2>1, <2>2, TurnTaken
<1>4. CASE ~Active
  <2> DEFINE p == IF act[a].reason = "Replaced" THEN "collect" ELSE "check"
  <2>1. apc' = [apc EXCEPT ![a] = p] /\ UNCHANGED <<turn, act>>
    BY <1>4 DEF Take, AfterAbort, Goto
  <2>2. act' = [act EXCEPT ![a] = act[a]] /\ p \in ActorPCs
    BY <2>1 DEF TypeOK, ActorPCs
  <2>3. TypeOK'
    BY <1>1, <2>1, <2>2 DEF TypeOK
  <2>4. TasksKept
    BY <2>1, TurnUnchanged
  <2>5. /\ apc[a] \notin {"idle", "cancel", "grace"} /\ apc[a] \notin StartPlaces
        /\ p \notin {"cancel", "grace", "take", "clear", "queue"}
        /\ p \in StartPlaces => act[a].sub # 0
    BY <1>1, <1>2 DEF StartPlaces
  <2> HIDE DEF p
  <2>6. UNCHANGED <<tpc, task>>
    BY <1>1
  <2> QED
    BY <1>2, <2>1, <2>2, <2>3, <2>4, <2>5, <2>6, ActorMoves
<1> QED
  BY <1>3, <1>4

LEMMA GuardianAbortsPreserves ==
    ASSUME IndInv, NEW t \in Turns, GuardianAborts(t)
    PROVE  IndInv'
<1> USE DEF IndInv
<1> DEFINE l == [NoLocals EXCEPT !.reason = "Interrupted"]
<1>1. /\ apc[Guardian] = "idle" /\ t \in Running /\ interrupts < MaxInterrupts
      /\ interrupts' = interrupts + 1 /\ TakeTurn(Guardian, l)
      /\ UNCHANGED <<pending, mailbox, queue, stranded, tpc, task, outcome, sent>>
  BY DEF GuardianAborts, inputs, tasks
<1>2. l \in ActorLocals /\ l.victims = <<>> /\ l.sub = 0 /\ l.reason # "Replaced"
  BY NoLocalsAreLocals DEF NoLocals, ActorLocals
<1> HIDE DEF l
<1>3. Guardian \in Actors /\ interrupts' \in 0..MaxInterrupts /\ Active
  BY <1>1, TurnAssumption DEF Actors, TypeOK, Running
<1>4. TypeOK'
  BY <1>1, <1>2, <1>3, TakeTurnTypes
<1> QED
  BY <1>1, <1>2, <1>3, <1>4, TurnTaken

\* The inputs of the turn are dropped, and the actor goes on.
LEMMA AbortClearPreserves ==
    ASSUME IndInv, NEW a \in Actors, AbortClear(a)
    PROVE  IndInv'
<1> USE DEF IndInv
<1> DEFINE p == IF act[a].reason = "Replaced" THEN "collect" ELSE "check"
           l == [act[a] EXCEPT !.obj = NoObj]
<1>1. /\ apc[a] = "clear" /\ pending' = [pending EXCEPT ![act[a].obj] = {}]
      /\ act' = [act EXCEPT ![a] = l] /\ apc' = [apc EXCEPT ![a] = p]
      /\ UNCHANGED <<turn, mailbox, queue, stranded, tpc, task, outcome, sent, interrupts>>
  BY DEF AbortClear, AfterAbort, Goto, inputs, tasks, bounds
<1>2. act[a] \in ActorLocals /\ act[a].victims = <<>> /\ (act[a].reason = "Replaced" => act[a].sub # 0)
  BY <1>1 DEF TypeOK, ActorsInPlace, ToRegister
<1>3. l \in ActorLocals /\ l.victims = <<>> /\ l.sub = act[a].sub /\ l.reason = act[a].reason
  BY <1>2 DEF ActorLocals
<1> HIDE DEF l
<1>4. pending' \in [Objs -> SUBSET Items] /\ p \in ActorPCs
  BY <1>1 DEF TypeOK, ActorPCs
<1>5. TypeOK'
  BY <1>1, <1>3, <1>4 DEF TypeOK
<1>6. TasksKept
  BY <1>1, TurnUnchanged
<1> QED
  BY <1>1, <1>2, <1>3, <1>4, <1>5, <1>6, ActorMoves DEF StartPlaces

\* maybe_start_turn_for_pending_work looks for work.
LEMMA CheckWorkPreserves ==
    ASSUME IndInv, NEW a \in Actors, CheckWork(a)
    PROVE  IndInv'
<1> USE DEF IndInv
<1>1. /\ apc[a] = "check"
      /\ UNCHANGED <<turn, pending, mailbox, queue, stranded, tpc, task, outcome, sent, interrupts>>
  BY DEF CheckWork, inputs, tasks, bounds
<1>2. PICK l \in {act[a], NoLocals}, p \in {"reserve", "idle"} :
         act' = [act EXCEPT ![a] = l] /\ apc' = [apc EXCEPT ![a] = p]
  <2>1. \/ apc' = [apc EXCEPT ![a] = "reserve"] /\ act' = act
        \/ apc' = [apc EXCEPT ![a] = "idle"] /\ act' = [act EXCEPT ![a] = NoLocals]
    BY DEF CheckWork, Goto, Return
  <2>2. act = [act EXCEPT ![a] = act[a]]
    BY DEF TypeOK
  <2> QED
    BY <2>1, <2>2
<1>3. l \in ActorLocals /\ l.victims = <<>> /\ l.sub \in {0, act[a].sub} /\ p \in ActorPCs
  BY <1>1, NoLocalsAreLocals DEF TypeOK, ActorsInPlace, ActorPCs
<1>4. TypeOK'
  BY <1>1, <1>2, <1>3 DEF TypeOK
<1>5. TasksKept
  BY <1>1, TurnUnchanged
<1> QED
  BY <1>1, <1>2, <1>3, <1>4, <1>5, ActorMoves DEF StartPlaces

\* An idle session gets an empty active turn.
LEMMA ReservePreserves ==
    ASSUME IndInv, NEW a \in Actors, Reserve(a)
    PROVE  IndInv'
<1> USE DEF IndInv
<1>1. apc[a] = "reserve" /\ UNCHANGED <<mailbox, queue, stranded, tpc, task, sent, interrupts>>
  BY DEF Reserve, inputs, bounds
<1>2. CASE Active
  <2>1. /\ act' = [act EXCEPT ![a] = NoLocals] /\ apc' = [apc EXCEPT ![a] = "idle"]
        /\ UNCHANGED <<turn, pending, outcome>>
    BY <1>2 DEF Reserve, Return, Goto
  <2>2. TypeOK' /\ "idle" \in ActorPCs
    BY <1>1, <2>1, NoLocalsAreLocals DEF TypeOK, ActorPCs
  <2>3. TasksKept
    BY <2>1, TurnUnchanged
  <2> QED
    BY <1>1, <2>1, <2>2, <2>3, NoLocalsAreLocals, ActorMoves DEF StartPlaces
<1>3. CASE ~Active
  <2> DEFINE l == [NoLocals EXCEPT !.sub = NewId]
  <2>1. /\ NewTurnContext /\ turn' = NewTurn(NewId, "reserve")
        /\ act' = [act EXCEPT ![a] = l] /\ apc' = [apc EXCEPT ![a] = "collect"]
    BY <1>3 DEF Reserve, Goto
  <2>2. /\ NewId \in Turns /\ Unused(NewId) /\ pending' \in [Objs -> SUBSET Items]
        /\ outcome' \in [Turns -> SUBSET Ends]
    BY <2>1, NewContextStep
  <2>3. NewId \in 0..MaxTurns /\ NewId # 0
    BY <2>2, TurnAssumption DEF Turns
  <2>4. l \in ActorLocals /\ l.victims = <<>> /\ l.sub = NewId
    BY <2>3, NoLocalsAreLocals DEF ActorLocals
  <2>5. turn' \in ActiveTurns /\ turn'.tasks = <<>> /\ Active'
    <3>1. turn' = [obj |-> <<NewId, "reserve">>, tasks |-> <<>>, phase |-> "current"]
      BY <2>1 DEF NewTurn
    <3>2. turn' \in ActiveTurns
      BY <2>2, <3>1 DEF ActiveTurns, Objs
    <3> QED
      BY <3>1, <3>2, TurnAssumption DEF Active
  <2> HIDE DEF l
  <2>6. TypeOK' /\ "collect" \in ActorPCs
    BY <1>1, <2>1, <2>2, <2>4, <2>5 DEF TypeOK, ActorPCs
  <2> QED
    BY <1>1, <1>3, <2>1, <2>2, <2>3, <2>4, <2>5, <2>6, ActorMoves DEF StartPlaces
<1> QED
  BY <1>2, <1>3

\* start_task collects what is pending, attaches itself to the active turn and hands the
\* items over.
LEMMA StartTaskPreserves ==
    ASSUME IndInv, NEW a \in Actors, Collect(a) \/ Attach(a) \/ Push(a)
    PROVE  IndInv'
<1> USE DEF IndInv
<1>1. apc[a] \in StartPlaces /\ a \in Starting
      /\ UNCHANGED <<stranded, tpc, task, outcome, sent, interrupts>>
  BY DEF Collect, Attach, Push, StartPlaces, Starting, inputs, tasks, bounds
<1>2. act[a] \in ActorLocals /\ act[a].victims = <<>> /\ act[a].sub # 0
  BY <1>1 DEF TypeOK, ActorsInPlace, ToRegister, StartPlaces
<1>3. ASSUME NEW l \in ActorLocals, l.victims = <<>>, l.sub = act[a].sub, NEW p \in StartPlaces,
             act' = [act EXCEPT ![a] = l], apc' = [apc EXCEPT ![a] = p],
             turn' \in ActiveTurns \cup {NoTurn}, pending' \in [Objs -> SUBSET Items],
             mailbox' \subseteq Mails, queue' \subseteq UserOps,
             TasksKept \/ (~Active /\ Active' /\ turn'.tasks = <<>>)
      PROVE  IndInv'
  <2>1. p \in ActorPCs /\ p \notin {"cancel", "grace", "queue"} /\ apc[a] \notin {"cancel", "grace", "idle"}
    BY <1>1, <1>3 DEF StartPlaces, ActorPCs
  <2>2. TypeOK'
    BY <1>1, <1>3, <2>1 DEF TypeOK
  <2> QED
    BY <1>1, <1>2, <1>3, <2>1, <2>2, ActorMoves
<1>4. CASE Collect(a)
  <2> DEFINE l == [act[a] EXCEPT !.items = queue \cup PendingInput, !.obj = NoObj]
  <2>1. /\ act' = [act EXCEPT ![a] = l] /\ apc' = [apc EXCEPT ![a] = "attach"]
        /\ queue' = {} /\ UNCHANGED turn /\ TakePendingInput
    BY <1>4 DEF Collect, Goto, TypeOK
  <2>2. /\ pending' \in [Objs -> SUBSET Items] /\ mailbox' \subseteq Mails
        /\ PendingInput \subseteq Items
    BY <2>1, TakePendingStep
  <2>3. queue \cup PendingInput \in SUBSET Items
    BY <2>2 DEF TypeOK, Items
  <2>4. l \in ActorLocals /\ l.victims = <<>> /\ l.sub = act[a].sub
    BY <1>2, <2>3 DEF ActorLocals
  <2> HIDE DEF l
  <2>5. TasksKept /\ turn' \in ActiveTurns \cup {NoTurn} /\ queue' \subseteq UserOps
    BY <2>1, TurnUnchanged DEF TypeOK
  <2> QED
    BY <1>3, <2>1, <2>2, <2>4, <2>5 DEF StartPlaces
<1>5. CASE Attach(a)
  <2> DEFINE l == [act[a] EXCEPT !.obj = turn'.obj]
  <2>1. /\ act' = [act EXCEPT ![a] = l] /\ apc' = [apc EXCEPT ![a] = "push"]
        /\ turn' = GetOrInsert(a, "attach") /\ UNCHANGED <<pending, mailbox, queue, stranded>>
    BY <1>5 DEF Attach, Goto, inputs
  <2>2. /\ turn' \in ActiveTurns /\ (Active => turn' = turn) /\ (~Active => turn'.tasks = <<>>)
    BY <1>1, <2>1, GetOrInsertTurn
  <2>3. Active' /\ (TasksKept \/ (~Active /\ Active' /\ turn'.tasks = <<>>))
    BY <2>2, TurnUnchanged, TurnAssumption DEF Active
  <2>4. l \in ActorLocals /\ l.victims = <<>> /\ l.sub = act[a].sub
    BY <1>2, <2>2 DEF ActorLocals, ActiveTurns
  <2> HIDE DEF l
  <2>5. pending' \in [Objs -> SUBSET Items] /\ mailbox' \subseteq Mails /\ queue' \subseteq UserOps
    BY <2>1 DEF TypeOK
  <2> QED
    BY <1>3, <2>1, <2>2, <2>3, <2>4, <2>5 DEF StartPlaces
<1>6. CASE Push(a)
  <2> DEFINE l == [act[a] EXCEPT !.items = {}]
  <2>1. /\ act' = [act EXCEPT ![a] = l] /\ apc' = [apc EXCEPT ![a] = "register"]
        /\ pending' = [pending EXCEPT ![act[a].obj] = @ \cup act[a].items]
        /\ UNCHANGED <<turn, mailbox, queue, stranded>>
    BY <1>6 DEF Push, Goto, inputs
  <2>2. l \in ActorLocals /\ l.victims = <<>> /\ l.sub = act[a].sub /\ act[a].items \subseteq Items
    BY <1>2 DEF ActorLocals
  <2> HIDE DEF l
  <2>3. pending' \in [Objs -> SUBSET Items] /\ mailbox' \subseteq Mails /\ queue' \subseteq UserOps
    BY <2>1, <2>2 DEF TypeOK
  <2>4. TasksKept /\ turn' \in ActiveTurns \cup {NoTurn}
    BY <2>1, TurnUnchanged DEF TypeOK
  <2> QED
    BY <1>3, <2>1, <2>2, <2>3, <2>4 DEF StartPlaces
<1> QED
  BY <1>4, <1>5, <1>6

\* A task works on its inputs, samples and checks for more; a finishing one records what
\* was left and reports the end of its turn.
LEMMA TaskWorkPreserves ==
    ASSUME IndInv, NEW t \in Turns,
           \/ TaskStart(t) \/ TaskDrain(t) \/ TaskCheck(t) \/ ToolCall(t) \/ SamplingEnds(t)
           \/ FinishRecord(t) \/ FinishComplete(t)
    PROVE  IndInv'
<1> USE DEF IndInv
<1>1. task[t] \in TaskLocals /\ task = [task EXCEPT ![t] = task[t]]
  BY DEF TypeOK
<1>2. ASSUME NEW p \in TaskPCs, NEW k \in TaskLocals, tpc' = [tpc EXCEPT ![t] = p],
             task' = [task EXCEPT ![t] = k], k.cancelled = task[t].cancelled,
             k.doomed = task[t].doomed, UNCHANGED <<apc, act, queue, stranded, sent, interrupts>>,
             turn' \in ActiveTurns \cup {NoTurn}, TasksKept,
             pending' \in [Objs -> SUBSET Items], mailbox' \subseteq Mails,
             outcome' \in [Turns -> SUBSET Ends],
             \/ tpc[t] \in Working /\ p \in Working \cup {"finish"}
             \/ tpc[t] = "record" /\ p = "complete"
             \/ tpc[t] = "complete" /\ p = "schedule"
      PROVE  IndInv'
  <2>1. TypeOK'
    BY <1>2 DEF TypeOK
  <2>2. tpc[t] \notin Over /\ p \notin Over /\ (p \in Working => tpc[t] \in Working)
    BY <1>2 DEF Working, Over
  <2>3. t \in Running => p \in Working \cup {"finish"}
    BY <1>2 DEF TasksLive
  <2> QED
    BY <1>2, <2>1, <2>2, <2>3, TaskMoves
<1>3. CASE TaskStart(t)
  <2> DEFINE p == IF task[t].kind = "compact" \/ task[t].input # {} THEN "model"
                  ELSE IF HasPending THEN "drain" ELSE "check"
             k == [task[t] EXCEPT !.input = {}]
  <2>1. /\ tpc[t] = "start" /\ tpc' = [tpc EXCEPT ![t] = p] /\ task' = [task EXCEPT ![t] = k]
        /\ UNCHANGED <<turn, pending, mailbox, queue, stranded, apc, act, outcome, sent, interrupts>>
    BY <1>3 DEF TaskStart, TaskGoto, inputs, actors, bounds
  <2>2. k \in TaskLocals /\ k.cancelled = task[t].cancelled /\ k.doomed = task[t].doomed
    BY <1>1 DEF TaskLocals
  <2>3. p \in TaskPCs /\ p \in Working /\ tpc[t] \in Working
    BY <2>1 DEF TaskPCs, Working
  <2> HIDE DEF p, k
  <2>4. TasksKept /\ turn' \in ActiveTurns \cup {NoTurn} /\ pending' \in [Objs -> SUBSET Items]
        /\ mailbox' \subseteq Mails /\ outcome' \in [Turns -> SUBSET Ends]
    BY <2>1, TurnUnchanged DEF TypeOK
  <2> QED
    BY <1>2, <2>1, <2>2, <2>3, <2>4
<1>4. CASE TaskDrain(t)
  <2>1. /\ tpc[t] = "drain" /\ tpc' = [tpc EXCEPT ![t] = "model"] /\ TakePendingInput
        /\ UNCHANGED <<turn, queue, stranded, apc, act, task, outcome, sent, interrupts>>
    BY <1>4 DEF TaskDrain, TaskGoto, actors, bounds
  <2>2. /\ TasksKept /\ turn' \in ActiveTurns \cup {NoTurn}
        /\ pending' \in [Objs -> SUBSET Items] /\ mailbox' \subseteq Mails
        /\ outcome' \in [Turns -> SUBSET Ends]
    BY <2>1, TurnUnchanged, TakePendingStep DEF TypeOK
  <2> QED
    BY <1>1, <1>2, <2>1, <2>2 DEF TaskPCs, Working
<1>5. CASE TaskCheck(t) \/ FinishRecord(t) \/ FinishComplete(t)
  <2>1. /\ \/ tpc[t] = "check" /\ tpc' = [tpc EXCEPT ![t] = "drain"]
           \/ tpc[t] = "check" /\ tpc' = [tpc EXCEPT ![t] = "finish"]
           \/ tpc[t] = "record" /\ tpc' = [tpc EXCEPT ![t] = "complete"]
           \/ tpc[t] = "complete" /\ tpc' = [tpc EXCEPT ![t] = "schedule"]
        /\ UNCHANGED <<turn, mailbox, queue, stranded, apc, act, task, sent, interrupts>>
    BY <1>5 DEF TaskCheck, FinishRecord, FinishComplete, TaskGoto, inputs, actors, bounds
  <2>2. pending' \in [Objs -> SUBSET Items] /\ outcome' \in [Turns -> SUBSET Ends]
    BY <1>5 DEF TaskCheck, FinishRecord, FinishComplete, TypeOK, Ends
  <2>3. TasksKept /\ turn' \in ActiveTurns \cup {NoTurn} /\ mailbox' \subseteq Mails
    BY <2>1, TurnUnchanged DEF TypeOK
  <2> QED
    BY <1>1, <1>2, <2>1, <2>2, <2>3 DEF TaskPCs, Working
<1>6. CASE ToolCall(t) \/ SamplingEnds(t)
  <2>1. /\ tpc[t] = "model"
        /\ \/ tpc' = [tpc EXCEPT ![t] = "drain"]
           \/ tpc' = [tpc EXCEPT ![t] = "check"]
           \/ tpc' = [tpc EXCEPT ![t] = "finish"]
        /\ UNCHANGED <<pending, mailbox, queue, stranded, apc, act, task, outcome, sent, interrupts>>
    BY <1>6 DEF ToolCall, SamplingEnds, TaskGoto, inputs, actors, bounds
  <2>2. /\ \/ turn' = turn
           \/ t \in Running /\ turn' = [turn EXCEPT !.phase = "current"]
           \/ t \in Running /\ turn' = [turn EXCEPT !.phase = "next"]
    BY <1>6 DEF ToolCall, SamplingEnds, Defers
  <2>3. TasksKept /\ turn' \in ActiveTurns \cup {NoTurn}
    <3>1. CASE turn' = turn
      BY <3>1, TurnUnchanged DEF TypeOK
    <3>2. CASE t \in Running /\ turn' # turn
      <4>1. Active /\ turn \in ActiveTurns
        BY <3>2, RunningTasks
      <4>2. turn' \in ActiveTurns /\ turn'.tasks = turn.tasks
        BY <2>2, <3>2, <4>1 DEF ActiveTurns
      <4> QED
        BY <4>1, <4>2, TurnAssumption DEF TasksKept, Active
    <3> QED
      BY <2>2, <3>1, <3>2
  <2>4. pending' \in [Objs -> SUBSET Items] /\ mailbox' \subseteq Mails
        /\ outcome' \in [Turns -> SUBSET Ends]
    BY <2>1 DEF TypeOK
  <2> QED
    BY <1>1, <1>2, <2>1, <2>3, <2>4 DEF TaskPCs, Working
<1> QED
  BY <1>3, <1>4, <1>5, <1>6

\* A task ends: completed, cancelled or aborted.
LEMMA TaskEndPreserves ==
    ASSUME IndInv, NEW t \in Turns,
           \/ FinishSchedule(t) \/ Die(t)
           \/ FinishRemove(t) /\ task[t].cancelled
    PROVE  IndInv'
<1> USE DEF IndInv
<1>1. t \in Actors
  BY DEF Actors
<1>2. tpc[t] \notin Over /\ t \notin Running
  BY DEF FinishSchedule, Die, FinishRemove, Over, TasksLive
<1>3. /\ TaskEnd(t) /\ (apc' = apc \/ apc' = [apc EXCEPT ![t] = "check"])
      /\ (outcome' = outcome \/ outcome' = [outcome EXCEPT ![t] = @ \cup {"cut"}])
      /\ stranded' = stranded \/ stranded' = stranded \cup mailbox
      /\ UNCHANGED <<turn, pending, mailbox, queue, act, sent, interrupts>>
  BY DEF FinishSchedule, Die, FinishRemove, Goto, inputs, actors, bounds
<1>4. task' \in [Turns -> TaskLocals] /\ tpc' \in [Turns -> TaskPCs]
  BY <1>3, NoLocalsAreLocals DEF TaskEnd, TaskGoto, TypeOK, TaskPCs
<1>5. TypeOK'
  BY <1>1, <1>3, <1>4 DEF TypeOK, ActorPCs, Ends
<1> QED
  BY <1>2, <1>3, <1>5, TaskEnds

\* The first step of on_task_finished, for a task that was not cancelled.
LEMMA FinishPreserves ==
    ASSUME IndInv, NEW t \in Turns, FinishRemove(t), ~task[t].cancelled
    PROVE  IndInv'
<1> USE DEF IndInv
<1>1. tpc[t] = "finish" /\ UNCHANGED <<pending, mailbox, queue, stranded, apc, act, outcome, sent, interrupts>>
  BY DEF FinishRemove, inputs, actors, bounds
<1>2. task[t] \in TaskLocals /\ task = [task EXCEPT ![t] = task[t]]
  BY DEF TypeOK
<1>3. CASE ~Active
  <2>1. tpc' = [tpc EXCEPT ![t] = "complete"] /\ UNCHANGED <<turn, task>>
    BY <1>3 DEF FinishRemove, TaskGoto
  <2>2. TypeOK' /\ "complete" \in TaskPCs
    BY <1>1, <2>1 DEF TypeOK, TaskPCs
  <2>3. TasksKept /\ t \notin Running
    BY <1>3, <2>1, TurnUnchanged DEF Running
  <2>4. task' = [task EXCEPT ![t] = task[t]]
    BY <1>2, <2>1
  <2>5. tpc[t] \notin Over /\ "complete" \notin Over \cup Working
    BY <1>1 DEF Over, Working
  <2> QED
    BY <1>1, <1>2, <2>1, <2>2, <2>3, <2>4, <2>5, TaskMoves
<1>4. CASE Active
  <2> DEFINE rest == SwapRemove(turn.tasks, t)
             dropped == IF t \in Running THEN "self" ELSE task[t].doomed
             k1 == [task[t] EXCEPT !.obj = turn.obj, !.doomed = dropped]
             k2 == [task[t] EXCEPT !.doomed = dropped]
  <2>1. turn.obj \in Objs /\ dropped \in {"no", "self", "aborted"}
    BY <1>2, <1>4, RunningTasks DEF ActiveTurns, TaskLocals
  <2>2. /\ k1 \in TaskLocals /\ k1.cancelled = task[t].cancelled
        /\ k2 \in TaskLocals /\ k2.cancelled = task[t].cancelled
    BY <1>2, <2>1 DEF TaskLocals
  <2>3. CASE rest = <<>>
    <3>1. turn' = NoTurn /\ task' = [task EXCEPT ![t] = k1] /\ tpc' = [tpc EXCEPT ![t] = "record"]
      BY <1>2, <1>4, <2>3 DEF FinishRemove, TaskGoto, TypeOK
    <3> HIDE DEF rest, k1
    <3> QED
      BY <1>1, <1>4, <2>2, <2>3, <3>1, FinishRemovePreserves DEF rest
  <2>4. CASE rest # <<>>
    <3>1. /\ turn' = [turn EXCEPT !.tasks = rest]
          /\ task' = [task EXCEPT ![t] = k2] /\ tpc' = [tpc EXCEPT ![t] = "complete"]
      BY <1>2, <1>4, <2>4 DEF FinishRemove, TaskGoto, TypeOK
    <3> HIDE DEF rest, k2
    <3> QED
      BY <1>1, <1>4, <2>2, <2>4, <3>1, FinishRemovePreserves DEF rest
  <2> QED
    BY <2>3, <2>4
<1> QED
  BY <1>3, <1>4

----------------------------------------------------------------------------
(* The specification. *)

\* A session starts without a turn, and with everybody idle.
LEMMA InitIsInductive == Init => IndInv
<1> SUFFICES ASSUME Init PROVE IndInv
  OBVIOUS
<1>1. TypeOK
  BY NoLocalsAreLocals, TurnAssumption DEF Init, TypeOK, ActorPCs, TaskPCs
<1>2. ~Active /\ Running = {}
  BY DEF Init, Active, Running
<1>3. \A a \in Actors : /\ apc[a] = "idle" /\ act[a].victims = <<>> /\ act[a].sub = 0
                        /\ \A t : ~Aborting(a, t)
  BY NoLocalsAreLocals DEF Init, Aborting, Among
<1>4. RunningTasksAbortable /\ Awaited /\ TasksLive /\ VictimsApart
  BY <1>2, <1>3 DEF Init, RunningTasksAbortable, Awaited, TasksLive, VictimsApart
<1>5. ActorsInPlace /\ IdsReserved /\ SchedulersIdle
  BY <1>3 DEF Init, ActorsInPlace, IdsReserved, SchedulersIdle, ToRegister, Starting, Actors
<1> QED
  BY <1>1, <1>4, <1>5 DEF IndInv

LEMMA NextPreserves == IndInv /\ [Next]_vars => IndInv'
<1> SUFFICES ASSUME IndInv, [Next]_vars PROVE IndInv'
  OBVIOUS
<1>1. CASE Submit
  BY <1>1, SubmitPreserves, ClientSteersPreserves, ApprovePreserves, ReceiveMailPreserves,
     InterruptPreserves, GuardianAbortsPreserves DEF Submit
<1>2. CASE \E a \in Actors : ActorStep(a)
  BY <1>2, TakePreserves, AbortCancelPreserves, AbortEndPreserves, AbortClearPreserves,
     CheckWorkPreserves, ReservePreserves, QueuePreserves, StartTaskPreserves,
     RegisterPreserves DEF ActorStep
<1>3. CASE \E t \in Turns : TaskStep(t) \/ ToolCall(t) \/ SamplingEnds(t)
  BY <1>3, TaskWorkPreserves, TaskEndPreserves, FinishPreserves DEF TaskStep
<1>4. CASE UNCHANGED vars
  <2>1. TypeOK' /\ UNCHANGED <<turn, apc, act, tpc, task>>
    BY <1>4 DEF IndInv, TypeOK, vars
  <2> QED
    BY <2>1, TurnUnchanged, InputsMove
<1> QED
  BY <1>1, <1>2, <1>3, <1>4 DEF Next

\* The inductive invariant holds in every reachable state of a session.
THEOREM Inductive == Spec => []IndInv
BY InitIsInductive, NextPreserves, PTL DEF Spec

\* Types of the active turn, the queues, the actors and the tasks.
THEOREM TypeCorrect == Spec => []TypeOK
<1>1. IndInv => TypeOK
  BY DEF IndInv
<1> QED
  BY <1>1, Inductive, PTL

\* The active turn always has a live task or somebody who is about to register one, although
\* start_task gives the lock up between its steps, other actors take the turn meanwhile, and
\* on_task_finished clears a turn it did not start.
THEOREM ActiveTurnIsServed == Spec => []ActiveTurnServed
<1>1. IndInv => ActiveTurnServed
  <2> SUFFICES ASSUME IndInv, Active, Starting = {} PROVE \E t \in Running : tpc[t] # "gone"
    BY DEF ActiveTurnServed
  <2>1. turn.tasks \in Seq(Turns) /\ \A t : t \in Running <=> Among(turn.tasks, t)
    BY RunningTasks DEF IndInv
  <2>2. turn.tasks # <<>>
    BY DEF IndInv, Awaited
  <2>3. Among(turn.tasks, Head(turn.tasks))
    BY <2>1, <2>2, HeadAndTail
  <2>4. Head(turn.tasks) \in Running
    BY <2>1, <2>3
  <2>5. tpc[Head(turn.tasks)] # "gone"
    BY <2>4 DEF IndInv, TasksLive
  <2> QED
    BY <2>4, <2>5
<1> QED
  BY <1>1, Inductive, PTL

\* A task that still works is one an interrupt reaches: it belongs to the active turn, has
\* been cancelled, or is in the hands of an actor that aborts it.
THEOREM RunningTasksAreAbortable == Spec => []RunningTasksAbortable
<1>1. IndInv => RunningTasksAbortable
  BY DEF IndInv
<1> QED
  BY <1>1, Inductive, PTL
=============================================================================
