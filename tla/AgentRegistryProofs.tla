------------------------ MODULE AgentRegistryProofs ------------------------
(***************************************************************************)
(* The slots and paths of the agent registry for any number of agents,     *)
(* paths and concurrent tool calls and any agent_max_threads.              *)
(***************************************************************************)
EXTENDS AgentRegistry, FiniteSetTheorems, TLAPS

----------------------------------------------------------------------------
(* Counting. *)

\* What the counter counts is finite.
LEMMA CountsAreNaturals ==
    ASSUME TypeOK
    PROVE  /\ IsFiniteSet(Holding) /\ Cardinality(Holding) \in Nat
           /\ IsFiniteSet(Registered) /\ Cardinality(Registered) \in Nat
<1>1. IsFiniteSet(Holding)
  <2>1. Holding \in SUBSET Tasks
    BY DEF Holding
  <2> QED
    BY <2>1, FS_Subset, AgentAssumption
<1>2. IsFiniteSet(Registered)
  <2>1. IsFiniteSet(Paths \cup {RootPath})
    BY FS_AddElement, AgentAssumption
  <2>2. IsFiniteSet(Keys)
    BY <2>1, FS_Union, AgentAssumption DEF Keys
  <2>3. Registered \in SUBSET Keys
    BY DEF Registered, TypeOK
  <2> QED
    BY <2>2, <2>3, FS_Subset
<1> QED
  BY <1>1, <1>2, FS_CardinalityType

\* A task that takes a slot, or finds one to give back.
LEMMA HoldingEnters ==
    ASSUME TypeOK, NEW o \in Tasks, o \notin Holding, Goto(o, "prepare") \/ Goto(o, "decrement")
    PROVE  Cardinality(Holding') = Cardinality(Holding) + 1
<1>1. Holding' = Holding \cup {o}
  BY DEF Holding, Goto, TypeOK
<1> QED
  BY <1>1, CountsAreNaturals, FS_AddElement

\* A task that hands its slot to the agent it registers, or gives it back.
LEMMA HoldingLeaves ==
    ASSUME TypeOK, NEW o \in Holding, Goto(o, "idle") \/ Goto(o, "shutdown")
    PROVE  Cardinality(Holding') = Cardinality(Holding) - 1
<1>1. Holding' = Holding \ {o}
  BY DEF Holding, Goto, TypeOK
<1> QED
  BY <1>1, CountsAreNaturals, FS_RemoveElement

\* A task that goes on with what it holds.
LEMMA HoldingStays ==
    ASSUME TypeOK, NEW o \in Tasks, NEW w \in Places, Goto(o, w),
           o \in Holding <=> w \in {"prepare", "create", "commit", "drop", "decrement"}
    PROVE  Holding' = Holding
BY DEF Holding, Goto, TypeOK

----------------------------------------------------------------------------
(* Spawn and resume. *)

\* Nothing is registered at the start.
LEMMA InitIsInductive == Init => IndInv
<1> SUFFICES ASSUME Init PROVE IndInv
  OBVIOUS
<1>1. TypeOK
  BY AgentAssumption DEF Init, TypeOK, Threads, Places, Calls, NoCall
<1>2. Holding = {} /\ Registered = {}
  BY DEF Init, Holding, Registered
<1>3. SlotsCounted
  BY <1>2, FS_EmptySet DEF SlotsCounted, Init
<1>4. PathsReserved
  BY DEF PathsReserved, Reserving, Init
<1> QED
  BY <1>1, <1>3, <1>4 DEF IndInv, Init, TreeShape, CallShape, Backed

\* A slot is reserved for a call with arguments c.
LEMMA ReservePreserves ==
    ASSUME IndInv, NEW o \in Tasks, Reserve(o),
           NEW c \in Calls, c.id \in Agents \cup {NoAgent},
           call' = [call EXCEPT ![o] = c]
    PROVE  IndInv'
<1> USE DEF IndInv
<1>1. TypeOK'
  BY AgentAssumption DEF TypeOK, Reserve, Goto, Places, history
<1>2. SlotsCounted'
  <2>1. Cardinality(Holding') = Cardinality(Holding) + 1
    BY HoldingEnters DEF Reserve, Holding
  <2>2. Registered' = Registered
    BY DEF Registered, Reserve
  <2> QED
    BY <2>1, <2>2, CountsAreNaturals DEF SlotsCounted, Reserve, history, TypeOK
<1>3. PathsReserved'
  <2>1. \A q \in Tasks, p \in Paths : Reserving(q, p)' <=> Reserving(q, p)
    BY DEF Reserving, Reserve, Goto, TypeOK
  <2> QED
    BY <2>1 DEF PathsReserved, Reserve
<1>4. TreeShape'
  BY DEF TreeShape, Reserve
<1>5. CallShape'
  BY DEF CallShape, Reserve, Goto, TypeOK
<1>6. Backed'
  BY DEF Backed, Reserve, Goto, TypeOK, history
<1> QED
  BY <1>1, <1>2, <1>3, <1>4, <1>5, <1>6

\* The path is reserved, or found taken.
LEMMA PreparePreserves ==
    ASSUME IndInv, NEW o \in Tasks, Prepare(o)
    PROVE  IndInv'
<1> USE DEF IndInv
<1> DEFINE p == call[o].path
           rooted == IF call[o].base = Root /\ RootPath \notin DOMAIN tree
                     THEN Put(RootPath, [id |-> Root, path |-> RootPath]) ELSE tree
<1>1. /\ pc[o] = "prepare" /\ p \in Paths \cup {NoPath} /\ call[o].id \in Agents \cup {NoAgent}
      /\ UNCHANGED <<count, live, parent, leaked, orphaned>>
  BY DEF Prepare, TypeOK, Calls, CallShape, history
<1>2. /\ DOMAIN tree \subseteq DOMAIN rooted /\ DOMAIN rooted \subseteq DOMAIN tree \cup {RootPath}
      /\ \A k \in DOMAIN tree : rooted[k] = tree[k]
      /\ RootPath \in DOMAIN rooted \ DOMAIN tree =>
            rooted[RootPath] = [id |-> Root, path |-> RootPath]
  BY DEF Put
<1>3. \/ /\ tree' = rooted
         /\ \/ p = NoPath /\ Goto(o, "create") /\ UNCHANGED call
            \/ Goto(o, "drop") /\ call' = [call EXCEPT ![o].path = NoPath]
      \/ /\ p \in Paths \ DOMAIN tree /\ Goto(o, "create") /\ UNCHANGED call
         /\ tree' = [k \in DOMAIN rooted \cup {p} |->
                       IF k = p THEN [id |-> NoAgent, path |-> p] ELSE rooted[k]]
  BY <1>1 DEF Prepare
<1>4. /\ \A k \in DOMAIN tree : k \in DOMAIN tree' /\ tree'[k] = tree[k]
      /\ \A k \in DOMAIN tree' \ DOMAIN tree :
            \/ k = RootPath /\ tree'[k] = [id |-> Root, path |-> RootPath]
            \/ /\ k = p /\ p \in Paths /\ tree'[k] = [id |-> NoAgent, path |-> p]
               /\ Goto(o, "create") /\ UNCHANGED call
  BY <1>2, <1>3, AgentAssumption
<1>5. /\ \E w \in {"create", "drop"} : Goto(o, w)
      /\ UNCHANGED call \/ call' = [call EXCEPT ![o].path = NoPath]
  BY <1>3
<1>6. TypeOK'
  <2>1. call' \in [Tasks -> Calls]
    BY <1>5 DEF TypeOK, Calls
  <2>2. DOMAIN tree' \subseteq Keys /\ \A k \in DOMAIN tree' : tree'[k] \in Entries
    BY <1>1, <1>4 DEF TypeOK, Keys, Entries, Threads
  <2> QED
    BY <1>1, <1>5, <2>1, <2>2 DEF TypeOK, Goto, Places
<1>7. SlotsCounted'
  <2>1. Holding' = Holding
    BY <1>1, <1>5, HoldingStays DEF Holding, Places
  <2>2. Registered' = Registered
    BY <1>4, AgentAssumption DEF Registered, Threads
  <2> QED
    BY <1>1, <2>1, <2>2 DEF SlotsCounted
<1>8. PathsReserved'
  <2> SUFFICES ASSUME NEW r \in Paths
               PROVE  /\ \A q \in Tasks : Reserving(q, r)' => r \in DOMAIN tree' /\ tree'[r].id = NoAgent
                      /\ r \in DOMAIN tree' /\ tree'[r].id = NoAgent =>
                            \E q \in Tasks : /\ Reserving(q, r)'
                                             /\ \A s \in Tasks \ {q} : ~Reserving(s, r)'
    BY DEF PathsReserved
  <2>1. \A q \in Tasks \ {o} : Reserving(q, r)' <=> Reserving(q, r)
    BY <1>1, <1>5 DEF Reserving, Goto, TypeOK
  <2>2. ~Reserving(o, r)
    BY <1>1 DEF Reserving
  <2>3. r # RootPath /\ r # NoPath
    BY AgentAssumption
  <2>4. CASE r \in DOMAIN tree
    <3>1. r \in DOMAIN tree' /\ tree'[r] = tree[r]
      BY <1>4, <2>4
    <3>2. ~Reserving(o, r)'
      BY <1>3, <2>3, <2>4 DEF Reserving, TypeOK, Calls
    <3>3. /\ \A q \in Tasks : Reserving(q, r)' <=> Reserving(q, r)
          /\ \A q \in Tasks : Reserving(q, r) => tree[r].id = NoAgent
          /\ tree[r].id = NoAgent =>
                \E q \in Tasks : /\ Reserving(q, r)
                                 /\ \A s \in Tasks \ {q} : ~Reserving(s, r)
      <4> HIDE DEF p
      <4> QED
        BY <2>1, <2>2, <2>4, <3>2 DEF PathsReserved
    <3> QED
      BY <3>1, <3>3
  <2>5. CASE r \notin DOMAIN tree
    <3>1. \A q \in Tasks \ {o} : ~Reserving(q, r)'
      BY <2>1, <2>5 DEF PathsReserved
    <3>2. CASE Reserving(o, r)'
      <4>1. r = p /\ p \in Paths /\ tree' = [k \in DOMAIN rooted \cup {p} |->
                       IF k = p THEN [id |-> NoAgent, path |-> p] ELSE rooted[k]]
        BY <1>1, <1>3, <2>3, <3>2 DEF Reserving, TypeOK, Calls
      <4>2. r \in DOMAIN tree' /\ tree'[r].id = NoAgent
        BY <4>1
      <4> QED
        BY <3>1, <3>2, <4>2
    <3>3. CASE ~Reserving(o, r)'
      <4>1. r \notin DOMAIN tree'
        BY <1>4, <2>3, <2>5, <3>3 DEF Reserving, Goto, TypeOK
      <4> QED
        BY <3>1, <3>3, <4>1
    <3> QED
      BY <3>2, <3>3
  <2> QED
    BY <2>4, <2>5
<1>9. TreeShape'
  BY <1>1, <1>4, AgentAssumption DEF TreeShape
<1>10. CallShape'
  BY <1>1, <1>5 DEF CallShape, Goto, TypeOK, Calls
<1>11. Backed'
  <2>1. \A q \in Tasks : pc[q] = "commit" => pc'[q] = "commit" /\ call'[q].id = call[q].id
    BY <1>1, <1>5 DEF Goto, TypeOK, Calls
  <2> QED
    BY <1>1, <1>4, <2>1 DEF Backed
<1> QED
  BY <1>6, <1>7, <1>8, <1>9, <1>10, <1>11

\* A cancelled task keeps its slot, and a path it reserved, until it drops them.
LEMMA AbandonPreserves ==
    ASSUME IndInv, NEW o \in Tasks, Abandon(o)
    PROVE  IndInv'
<1> USE DEF IndInv
<1>1. TypeOK'
  BY DEF TypeOK, Abandon, Goto, Places, history, Calls
<1>2. SlotsCounted'
  <2>1. Holding' = Holding
    BY HoldingStays DEF Holding, Abandon, Places
  <2>2. Registered' = Registered
    BY DEF Registered, Abandon
  <2> QED
    BY <2>1, <2>2 DEF SlotsCounted, Abandon, history
<1>3. PathsReserved'
  <2>1. \A q \in Tasks, p \in Paths : Reserving(q, p)' <=> Reserving(q, p)
    BY AgentAssumption DEF Reserving, Abandon, Goto, TypeOK, Calls
  <2> QED
    BY <2>1 DEF PathsReserved, Abandon
<1>4. TreeShape' /\ CallShape' /\ Backed'
  BY DEF TreeShape, CallShape, Backed, Abandon, Goto, TypeOK, Calls, history
<1> QED
  BY <1>1, <1>2, <1>3, <1>4

\* The new thread is in the map, its registration is next.
LEMMA CreatePreserves ==
    ASSUME IndInv, NEW o \in Tasks, NEW a \in Agents, Create(o, a)
    PROVE  IndInv'
<1> USE DEF IndInv
<1>1. TypeOK'
  BY DEF TypeOK, Create, Goto, Places, Calls, Threads
<1>2. SlotsCounted'
  <2>1. Holding' = Holding
    BY HoldingStays DEF Holding, Create, Places
  <2>2. Registered' = Registered
    BY DEF Registered, Create
  <2> QED
    BY <2>1, <2>2 DEF SlotsCounted, Create
<1>3. PathsReserved'
  <2>1. \A q \in Tasks, p \in Paths : Reserving(q, p)' <=> Reserving(q, p)
    BY DEF Reserving, Create, Goto, TypeOK, Calls
  <2> QED
    BY <2>1 DEF PathsReserved, Create
<1>4. TreeShape' /\ CallShape' /\ Backed'
  BY DEF TreeShape, CallShape, Backed, Create, Goto, TypeOK, Calls
<1> QED
  BY <1>1, <1>2, <1>3, <1>4

\* The key a commit writes: a path nobody else reserves, or the agent's own id.
LEMMA CommitKey ==
    ASSUME IndInv, NEW o \in Tasks, pc[o] = "commit"
    PROVE  /\ call[o].id \in Agents /\ KeyOf(o) \in Keys
           /\ \/ /\ call[o].path \in Paths /\ KeyOf(o) = call[o].path
                 /\ KeyOf(o) \in DOMAIN tree /\ tree[KeyOf(o)].id = NoAgent
                 /\ \A q \in Tasks \ {o} : ~Reserving(q, KeyOf(o))
              \/ /\ call[o].path = NoPath /\ KeyOf(o) = call[o].id
                 /\ KeyOf(o) \in DOMAIN tree => tree[KeyOf(o)].id = KeyOf(o)
<1>1. call[o].id \in Agents /\ call[o].path \in Paths \cup {NoPath}
  BY DEF IndInv, TypeOK, Calls, CallShape
<1>2. CASE call[o].path = NoPath
  BY <1>1, <1>2 DEF KeyOf, Keys, IndInv, TreeShape
<1>3. CASE call[o].path \in Paths
  <2> DEFINE p == call[o].path
  <2>1. Reserving(o, p)
    BY DEF Reserving
  <2>2. p \in DOMAIN tree /\ tree[p].id = NoAgent
    BY <1>3, <2>1 DEF IndInv, PathsReserved
  <2>3. PICK q \in Tasks : Reserving(q, p) /\ \A s \in Tasks \ {q} : ~Reserving(s, p)
    BY <1>3, <2>2 DEF IndInv, PathsReserved
  <2>4. \A s \in Tasks \ {o} : ~Reserving(s, p)
    BY <2>1, <2>3
  <2>5. KeyOf(o) = p /\ KeyOf(o) \in Keys
    BY <1>3, AgentAssumption DEF KeyOf, Keys
  <2> QED
    BY <1>1, <1>3, <2>2, <2>4, <2>5
<1> QED
  BY <1>1, <1>2, <1>3

\* The slot passes from the task to the entry; over an entry of the same agent it
\* is lost.
LEMMA CommitPreserves ==
    ASSUME IndInv, NEW o \in Tasks, Commit(o)
    PROVE  IndInv'
<1> USE DEF IndInv
<1> DEFINE key == KeyOf(o)
           entry == [id |-> call[o].id, path |-> call[o].path]
           taken == key \in DOMAIN tree /\ tree[key].id # NoAgent
<1>1. /\ pc[o] = "commit" /\ UNCHANGED <<count, live, parent, orphaned>>
      /\ Goto(o, "idle") /\ call' = [call EXCEPT ![o] = NoCall]
      /\ leaked' = IF taken THEN leaked + 1 ELSE leaked
      /\ DOMAIN tree' = DOMAIN tree \cup {key}
      /\ \A k \in DOMAIN tree' : tree'[k] = IF k = key THEN entry ELSE tree[k]
  BY DEF Commit, Return, Goto, Put
<1>2. /\ call[o].id \in Agents /\ key \in Keys
      /\ \/ /\ call[o].path \in Paths /\ key = call[o].path
            /\ key \in DOMAIN tree /\ tree[key].id = NoAgent
            /\ \A q \in Tasks \ {o} : ~Reserving(q, key)
         \/ /\ call[o].path = NoPath /\ key = call[o].id
            /\ key \in DOMAIN tree => tree[key].id = key
  BY <1>1, CommitKey
<1>3. NoAgent \notin Agents /\ Root \notin Agents /\ NoCall \in Calls
  BY AgentAssumption DEF Threads, NoCall, Calls
<1> HIDE DEF key
<1>4. TypeOK'
  <2>1. entry \in Entries
    BY <1>2 DEF Entries, Threads
  <2> QED
    BY <1>1, <1>2, <1>3, <2>1 DEF TypeOK, Goto, Places
<1>5. SlotsCounted'
  <2>1. Cardinality(Holding') = Cardinality(Holding) - 1
    BY <1>1, HoldingLeaves DEF Holding
  <2>2. Registered' = Registered \cup {key}
    BY <1>1, <1>2 DEF Registered
  <2>3. key \in Registered <=> taken
    BY <1>2, <1>3 DEF Registered
  <2>4. Cardinality(Registered') =
          IF taken THEN Cardinality(Registered) ELSE Cardinality(Registered) + 1
    BY <2>2, <2>3, CountsAreNaturals, FS_AddElement
  <2> QED
    BY <1>1, <2>1, <2>4, CountsAreNaturals DEF SlotsCounted, TypeOK
<1>6. PathsReserved'
  <2>1. \A q \in Tasks \ {o}, p \in Paths : Reserving(q, p)' <=> Reserving(q, p)
    BY <1>1 DEF Reserving, Goto, TypeOK
  <2>2. \A p \in Paths : ~Reserving(o, p)'
    BY <1>1 DEF Reserving, Goto, TypeOK
  <2>3. \A p \in Paths : Reserving(o, p) => p = key
    BY <1>1, <1>2, AgentAssumption DEF Reserving
  <2>4. \A q \in Tasks \ {o} : ~Reserving(q, key)
    <3>1. CASE key \in Paths
      BY <1>2, <3>1, AgentAssumption
    <3>2. CASE key \notin Paths
      BY <1>1, <1>2, <3>2, AgentAssumption DEF Reserving, TypeOK, Calls
    <3> QED
      BY <3>1, <3>2
  <2>5. key \in DOMAIN tree' /\ tree'[key].id # NoAgent
    BY <1>1, <1>2, <1>3
  <2> SUFFICES ASSUME NEW r \in Paths
               PROVE  /\ \A q \in Tasks : Reserving(q, r)' => r \in DOMAIN tree' /\ tree'[r].id = NoAgent
                      /\ r \in DOMAIN tree' /\ tree'[r].id = NoAgent =>
                            \E q \in Tasks : /\ Reserving(q, r)'
                                             /\ \A s \in Tasks \ {q} : ~Reserving(s, r)'
    BY DEF PathsReserved
  <2>6. CASE r = key
    BY <2>1, <2>2, <2>4, <2>5, <2>6
  <2>7. CASE r # key
    <3>1. \A q \in Tasks : Reserving(q, r)' <=> Reserving(q, r)
      BY <2>1, <2>2, <2>3, <2>7
    <3>2. /\ r \in DOMAIN tree' <=> r \in DOMAIN tree
          /\ r \in DOMAIN tree => tree'[r] = tree[r]
      BY <1>1, <2>7
    <3> QED
      BY <3>1, <3>2 DEF PathsReserved
  <2> QED
    BY <2>6, <2>7
<1>7. TreeShape'
  BY <1>1, <1>2, AgentAssumption DEF TreeShape
<1>8. CallShape'
  BY <1>1 DEF CallShape, Goto, TypeOK
<1>9. Backed'
  <2> SUFFICES ASSUME NEW a \in live \ ({Root} \cup orphaned)
               PROVE  \/ \E k \in DOMAIN tree' : tree'[k].id = a
                      \/ \E q \in Tasks : pc'[q] = "commit" /\ call'[q].id = a
    BY <1>1 DEF Backed
  <2>1. a # NoAgent
    BY AgentAssumption DEF TypeOK
  <2>2. CASE \E k \in DOMAIN tree : tree[k].id = a
    <3>1. PICK k \in DOMAIN tree : tree[k].id = a
      BY <2>2
    <3>2. tree'[k].id = a
      BY <1>1, <1>2, <2>1, <3>1
    <3> QED
      BY <1>1, <3>2
  <2>3. CASE \E q \in Tasks : pc[q] = "commit" /\ call[q].id = a
    BY <1>1, <2>3 DEF Goto, TypeOK
  <2> QED
    BY <2>2, <2>3 DEF Backed
<1> QED
  BY <1>4, <1>5, <1>6, <1>7, <1>8, <1>9

\* A failed spawn removes the entry it reserved, and no other.
LEMMA DropPreserves ==
    ASSUME IndInv, NEW o \in Tasks, DropReservation(o)
    PROVE  IndInv'
<1> USE DEF IndInv
<1> DEFINE p == call[o].path
<1>1. /\ pc[o] = "drop" /\ p \in Paths \cup {NoPath}
      /\ UNCHANGED <<count, live, parent, leaked, orphaned>>
      /\ Goto(o, "decrement")
      /\ call' = [call EXCEPT ![o].path = NoPath]
      /\ tree' = IF p \in DOMAIN tree /\ tree[p].id = NoAgent THEN Without(p) ELSE tree
  BY DEF DropReservation, history, TypeOK, Calls
<1>2. /\ DOMAIN tree' \subseteq DOMAIN tree
      /\ \A k \in DOMAIN tree' : tree'[k] = tree[k]
      /\ \A k \in DOMAIN tree \ DOMAIN tree' : k = p /\ tree[k].id = NoAgent
      /\ p \in DOMAIN tree' => tree[p].id # NoAgent
  BY <1>1 DEF Without
<1>3. call' \in [Tasks -> Calls]
  BY <1>1 DEF TypeOK, Calls
<1>4. TypeOK'
  BY <1>1, <1>2, <1>3 DEF TypeOK, Goto, Places
<1>5. SlotsCounted'
  <2>1. Holding' = Holding
    BY <1>1, HoldingStays DEF Holding, Places
  <2>2. NoAgent \notin Agents
    BY AgentAssumption DEF Threads
  <2>3. Registered' = Registered
    BY <1>2, <2>2 DEF Registered
  <2> QED
    BY <1>1, <2>1, <2>3 DEF SlotsCounted
<1>6. PathsReserved'
  <2>1. \A q \in Tasks \ {o}, r \in Paths : Reserving(q, r)' <=> Reserving(q, r)
    BY <1>1 DEF Reserving, Goto, TypeOK
  <2>2. \A r \in Paths : ~Reserving(o, r)' /\ (Reserving(o, r) <=> r = p)
    BY <1>1 DEF Reserving, Goto, TypeOK
  <2> HIDE DEF p
  <2> SUFFICES ASSUME NEW r \in Paths
               PROVE  /\ \A q \in Tasks : Reserving(q, r)' => r \in DOMAIN tree' /\ tree'[r].id = NoAgent
                      /\ r \in DOMAIN tree' /\ tree'[r].id = NoAgent =>
                            \E q \in Tasks : /\ Reserving(q, r)'
                                             /\ \A s \in Tasks \ {q} : ~Reserving(s, r)'
    BY DEF PathsReserved
  <2>3. CASE r = p
    <3>1. r \in DOMAIN tree /\ tree[r].id = NoAgent /\ Reserving(o, r)
      BY <2>2, <2>3 DEF PathsReserved
    <3>2. PICK q \in Tasks : Reserving(q, r) /\ \A s \in Tasks \ {q} : ~Reserving(s, r)
      BY <3>1 DEF PathsReserved
    <3>3. \A s \in Tasks : ~Reserving(s, r)'
      BY <2>1, <2>2, <3>1, <3>2
    <3>4. r \in DOMAIN tree' => tree'[r].id # NoAgent
      BY <1>2, <2>3
    <3> QED
      BY <3>3, <3>4
  <2>4. CASE r # p
    <3>1. \A q \in Tasks : Reserving(q, r)' <=> Reserving(q, r)
      BY <2>1, <2>2, <2>4
    <3>2. /\ r \in DOMAIN tree' <=> r \in DOMAIN tree
          /\ r \in DOMAIN tree => tree'[r] = tree[r]
      BY <1>2, <2>4
    <3> QED
      BY <3>1, <3>2 DEF PathsReserved
  <2> QED
    BY <2>3, <2>4
<1>7. TreeShape'
  BY <1>2 DEF TreeShape
<1>8. CallShape'
  BY <1>1 DEF CallShape, Goto, TypeOK
<1>9. Backed'
  <2>1. \A q \in Tasks : pc[q] = "commit" => pc'[q] = "commit" /\ call'[q] = call[q]
    BY <1>1 DEF Goto, TypeOK
  <2>2. NoAgent \notin live
    BY AgentAssumption DEF TypeOK
  <2> QED
    BY <1>1, <1>2, <2>1, <2>2 DEF Backed
<1> QED
  BY <1>4, <1>5, <1>6, <1>7, <1>8, <1>9

----------------------------------------------------------------------------
(* Send and close. *)

\* A step of a task that has no reservation, to another such place.
Closing(o, w) ==
    /\ pc[o] \in {"idle", "decrement", "shutdown", "release"}
    /\ w \in {"idle", "decrement", "shutdown", "release"}
    /\ Goto(o, w)
    /\ call' \in [Tasks -> Calls] /\ \A q \in Tasks \ {o} : call'[q] = call[q]
    /\ w = "idle" => call'[o] = NoCall
    /\ w \in {"shutdown", "release"} => call'[o].id \in Threads

\* Such a step keeps the calls well formed, and every reservation.
LEMMA ClosingStep ==
    ASSUME IndInv, NEW o \in Tasks, NEW w, Closing(o, w)
    PROVE  /\ CallShape' /\ pc' \in [Tasks -> Places] /\ call' \in [Tasks -> Calls]
           /\ \A q \in Tasks, p \in Paths : Reserving(q, p)' <=> Reserving(q, p)
           /\ \A q \in Tasks : pc[q] = "commit" => pc'[q] = "commit" /\ call'[q] = call[q]
           /\ w \in Places
<1> USE DEF IndInv
<1>1. pc \in [Tasks -> Places] /\ call \in [Tasks -> Calls]
  BY DEF TypeOK
<1>2. /\ pc' \in [Tasks -> Places] /\ call' \in [Tasks -> Calls] /\ pc'[o] = w
      /\ w \in Places
      /\ \A q \in Tasks \ {o} : pc'[q] = pc[q] /\ call'[q] = call[q]
  BY <1>1 DEF Closing, Goto, Places
<1>3. CallShape'
  BY <1>1, <1>2 DEF CallShape, Closing
<1>4. \A p \in Paths : ~Reserving(o, p) /\ ~Reserving(o, p)'
  BY <1>2 DEF Reserving, Closing
<1>5. \A q \in Tasks, p \in Paths : Reserving(q, p)' <=> Reserving(q, p)
  BY <1>2, <1>4 DEF Reserving
<1> QED
  BY <1>2, <1>3, <1>5 DEF Closing

\* Going on with the close is such a step.
LEMMA ContinueIsClosing ==
    ASSUME IndInv, NEW o \in Tasks, pc[o] \in {"decrement", "shutdown", "release"},
           Continue(o)
    PROVE  \E w \in {"idle", "shutdown"} : Closing(o, w)
<1>1. call \in [Tasks -> Calls] /\ NoCall \in Calls
  BY AgentAssumption DEF IndInv, TypeOK, NoCall, Calls
<1>2. CASE Return(o)
  <2>1. Closing(o, "idle")
    BY <1>1, <1>2 DEF Return, Closing, Goto
  <2> QED
    BY <2>1
<1>3. CASE \E a \in call[o].todo :
              /\ call' = [call EXCEPT ![o].id = a, ![o].todo = @ \ {a}]
              /\ Goto(o, "shutdown")
  <2>1. PICK a \in call[o].todo :
              /\ call' = [call EXCEPT ![o].id = a, ![o].todo = @ \ {a}]
              /\ Goto(o, "shutdown")
    BY <1>3
  <2>2. a \in Threads
    BY <1>1 DEF Calls
  <2>3. call' \in [Tasks -> Calls] /\ call'[o].id = a
    BY <1>1, <2>1, <2>2 DEF Calls
  <2>4. \A q \in Tasks \ {o} : call'[q] = call[q]
    BY <1>1, <2>1
  <2>5. Closing(o, "shutdown")
    BY <2>1, <2>2, <2>3, <2>4 DEF Closing
  <2> QED
    BY <2>5
<1> QED
  BY <1>2, <1>3 DEF Continue

\* A step of a close that touches neither the registry nor the counter, and at most
\* takes threads out of the map.
LEMMA ClosePreserves ==
    ASSUME IndInv, NEW o \in Tasks, NEW w, Closing(o, w),
           o \notin Holding, w # "decrement",
           UNCHANGED <<count, tree, parent, leaked>>,
           \/ UNCHANGED <<live, orphaned>>
           \/ \E t \in Threads : RemoveThread(t)
    PROVE  IndInv'
<1> USE DEF IndInv
<1>1. /\ CallShape' /\ pc' \in [Tasks -> Places] /\ call' \in [Tasks -> Calls]
      /\ \A q \in Tasks, p \in Paths : Reserving(q, p)' <=> Reserving(q, p)
      /\ \A q \in Tasks : pc[q] = "commit" => pc'[q] = "commit" /\ call'[q] = call[q]
      /\ w \in Places
  BY ClosingStep
<1>2. /\ live' \subseteq live /\ orphaned' \subseteq orphaned
      /\ live' \ orphaned' \subseteq live \ orphaned
  BY DEF RemoveThread
<1>3. TypeOK'
  BY <1>1, <1>2 DEF TypeOK
<1>4. SlotsCounted'
  <2>1. Holding' = Holding
    BY <1>1, HoldingStays DEF Closing
  <2>2. Registered' = Registered
    BY DEF Registered
  <2> QED
    BY <2>1, <2>2 DEF SlotsCounted
<1>5. PathsReserved' /\ TreeShape'
  BY <1>1 DEF PathsReserved, TreeShape
<1>6. Backed'
  <2> SUFFICES ASSUME NEW a \in live' \ ({Root} \cup orphaned')
               PROVE  \/ \E k \in DOMAIN tree : tree[k].id = a
                      \/ \E q \in Tasks : pc'[q] = "commit" /\ call'[q].id = a
    BY DEF Backed
  <2>1. \/ \E k \in DOMAIN tree : tree[k].id = a
        \/ \E q \in Tasks : pc[q] = "commit" /\ call[q].id = a
    BY <1>2 DEF Backed
  <2> QED
    BY <1>1, <2>1
<1> QED
  BY <1>1, <1>3, <1>4, <1>5, <1>6

\* SendToDead, CloseAgent, Shutdown, FlushFails and CancelClose are such steps.
LEMMA CloseActionsPreserve ==
    ASSUME IndInv, NEW o \in Tasks,
           \/ \E t \in Threads : SendToDead(o, t)
           \/ \E a \in Agents : CloseAgent(o, a)
           \/ Shutdown(o) \/ FlushFails(o) \/ CancelClose(o)
    PROVE  IndInv'
<1>1. call \in [Tasks -> Calls] /\ NoCall \in Calls /\ pc \in [Tasks -> Places]
  BY AgentAssumption DEF IndInv, TypeOK, NoCall, Calls
<1>2. ASSUME NEW t \in Threads, SendToDead(o, t)
      PROVE  IndInv'
  <2>1. Closing(o, "release")
    BY <1>1, <1>2 DEF SendToDead, Closing, NoCall, Calls
  <2> QED
    BY <1>2, <2>1, ClosePreserves DEF SendToDead, Holding
<1>3. ASSUME NEW a \in Agents, CloseAgent(o, a)
      PROVE  IndInv'
  <2>1. Children({a}) \cup Children(Children({a})) \subseteq Threads /\ a \in Threads
    BY DEF Children, Threads
  <2>2. Closing(o, "shutdown")
    BY <1>1, <1>3, <2>1 DEF CloseAgent, Closing, NoCall, Calls
  <2> QED
    BY <1>3, <2>2, ClosePreserves DEF CloseAgent, Holding, history
<1>4. CASE Shutdown(o)
  <2>1. call[o].id \in Threads
    BY <1>4 DEF IndInv, CallShape, Shutdown
  <2>2. Closing(o, "release")
    BY <1>1, <1>4, <2>1 DEF Shutdown, Closing
  <2> QED
    BY <1>4, <2>1, <2>2, ClosePreserves DEF Shutdown, Holding
<1>5. CASE FlushFails(o)
  <2>1. \E w \in {"idle", "shutdown"} : Closing(o, w)
    <3>1. CASE Continue(o)
      BY <1>5, <3>1, ContinueIsClosing DEF FlushFails
    <3>2. CASE Return(o)
      BY <1>1, <1>5, <3>2 DEF FlushFails, Return, Closing, Goto
    <3> QED
      BY <1>5, <3>1, <3>2 DEF FlushFails
  <2> QED
    BY <1>5, <2>1, ClosePreserves DEF FlushFails, Holding, history
<1>6. CASE CancelClose(o)
  <2>1. Closing(o, "idle")
    BY <1>1, <1>6 DEF CancelClose, Return, Closing, Goto
  <2> QED
    BY <1>6, <2>1, ClosePreserves DEF CancelClose, Holding, history
<1> QED
  BY <1>2, <1>3, <1>4, <1>5, <1>6

\* The release of a thread removes one of its entries; the slot of a sub-agent's
\* entry passes to the task, which gives it back.
LEMMA ReleasePreserves ==
    ASSUME IndInv, NEW o \in Tasks, Release(o)
    PROVE  IndInv'
<1> USE DEF IndInv
<1> DEFINE t == call[o].id
<1>1. /\ pc[o] = "release" /\ t \in Threads /\ o \notin Holding
      /\ UNCHANGED <<count, live, parent, leaked>>
  BY DEF Release, CallShape, Holding
<1>2. CASE KeysOf(t) = {}
  <2>1. Continue(o) /\ UNCHANGED <<tree, orphaned>>
    BY <1>2 DEF Release
  <2>2. \E w \in {"idle", "shutdown"} : Closing(o, w)
    BY <1>1, <2>1, ContinueIsClosing
  <2> QED
    BY <1>1, <2>1, <2>2, ClosePreserves
<1>3. CASE KeysOf(t) # {}
  <2>1. PICK k \in KeysOf(t) :
            /\ tree' = Without(k)
            /\ orphaned' = orphaned \cup (live \cap {t})
            /\ IF tree[k].path = RootPath THEN Continue(o)
               ELSE Goto(o, "decrement") /\ UNCHANGED call
    BY <1>3 DEF Release
  <2>2. /\ k \in DOMAIN tree /\ tree[k].id = t
        /\ DOMAIN tree' = DOMAIN tree \ {k}
        /\ \A j \in DOMAIN tree' : tree'[j] = tree[j]
    BY <2>1 DEF KeysOf, Without
  <2>3. t # NoAgent
    BY <1>1, AgentAssumption
  <2>4. PICK w \in {"idle", "shutdown", "decrement"} :
            Closing(o, w) /\ (w = "decrement" <=> t \in Agents)
    <3>1. CASE k = RootPath
      <4>1. tree[k].path = RootPath /\ t = Root
        BY <2>2, <3>1 DEF TreeShape
      <4>2. \E w \in {"idle", "shutdown"} : Closing(o, w)
        BY <1>1, <2>1, <4>1, ContinueIsClosing
      <4> QED
        BY <4>1, <4>2, AgentAssumption
    <3>2. CASE k # RootPath
      <4>1. t \in Agents /\ tree[k].path # RootPath
        BY <2>2, <2>3, <3>2, AgentAssumption DEF TreeShape, TypeOK, Keys
      <4>2. Closing(o, "decrement")
        BY <1>1, <2>1, <4>1 DEF Closing, TypeOK
      <4> QED
        BY <4>1, <4>2
    <3> QED
      BY <3>1, <3>2
  <2>5. /\ CallShape' /\ pc' \in [Tasks -> Places] /\ call' \in [Tasks -> Calls]
        /\ \A q \in Tasks, p \in Paths : Reserving(q, p)' <=> Reserving(q, p)
        /\ \A q \in Tasks : pc[q] = "commit" => pc'[q] = "commit" /\ call'[q] = call[q]
        /\ w \in Places
    BY <2>4, ClosingStep
  <2>6. TypeOK'
    BY <1>1, <2>1, <2>2, <2>5 DEF TypeOK
  <2>7. SlotsCounted'
    <3>1. CASE t \in Agents
      <4>1. Cardinality(Holding') = Cardinality(Holding) + 1
        BY <1>1, <2>4, <3>1, HoldingEnters DEF Closing
      <4>2. Registered' = Registered \ {k} /\ k \in Registered
        BY <2>2, <3>1 DEF Registered
      <4>3. Cardinality(Registered') = Cardinality(Registered) - 1
        BY <4>2, CountsAreNaturals, FS_RemoveElement
      <4> QED
        BY <1>1, <4>1, <4>3, CountsAreNaturals DEF SlotsCounted, TypeOK
    <3>2. CASE t \notin Agents
      <4>1. Holding' = Holding
        BY <1>1, <2>4, <2>5, <3>2, HoldingStays DEF Closing
      <4>2. Registered' = Registered
        BY <2>2, <3>2 DEF Registered
      <4> QED
        BY <1>1, <4>1, <4>2 DEF SlotsCounted
    <3> QED
      BY <3>1, <3>2
  <2>8. PathsReserved'
    <3>1. \A p \in Paths : p \in DOMAIN tree /\ tree[p].id = NoAgent
                              <=> p \in DOMAIN tree' /\ tree'[p].id = NoAgent
      BY <2>2, <2>3
    <3> QED
      BY <2>5, <3>1 DEF PathsReserved
  <2>9. TreeShape'
    BY <2>2 DEF TreeShape
  <2>10. Backed'
    BY <1>1, <2>1, <2>2, <2>5 DEF Backed
  <2> QED
    BY <2>5, <2>6, <2>7, <2>8, <2>9, <2>10
<1> QED
  BY <1>2, <1>3

\* The counter is at least one when a task decrements it.
LEMMA DecrementPreserves ==
    ASSUME IndInv, NEW o \in Tasks, Decrement(o)
    PROVE  IndInv'
<1> USE DEF IndInv
<1>1. /\ pc[o] = "decrement" /\ o \in Holding /\ count' = count - 1
      /\ UNCHANGED <<tree, live, parent, leaked, orphaned>>
  BY DEF Decrement, Holding, history
<1>2. PICK w \in {"idle", "shutdown"} : Closing(o, w)
  BY ContinueIsClosing, <1>1 DEF Decrement
<1>3. /\ CallShape' /\ pc' \in [Tasks -> Places] /\ call' \in [Tasks -> Calls]
      /\ \A q \in Tasks, p \in Paths : Reserving(q, p)' <=> Reserving(q, p)
      /\ \A q \in Tasks : pc[q] = "commit" => pc'[q] = "commit" /\ call'[q] = call[q]
  BY <1>2, ClosingStep
<1>4. Cardinality(Holding') = Cardinality(Holding) - 1
  BY <1>1, <1>2, HoldingLeaves DEF Closing
<1>5. Cardinality(Holding) # 0
  BY <1>1, CountsAreNaturals, FS_EmptySet
<1>6. Registered' = Registered
  BY <1>1 DEF Registered
<1>7. count \in 1..MaxThreads /\ SlotsCounted'
  BY <1>1, <1>4, <1>5, <1>6, CountsAreNaturals, AgentAssumption DEF SlotsCounted, TypeOK
<1>8. TypeOK'
  BY <1>1, <1>3, <1>7, AgentAssumption DEF TypeOK
<1>9. PathsReserved' /\ TreeShape' /\ Backed'
  BY <1>1, <1>3 DEF PathsReserved, TreeShape, Backed
<1> QED
  BY <1>3, <1>7, <1>8, <1>9

\* A thread is unloaded behind the registry's back.
LEMMA UnloadPreserves ==
    ASSUME IndInv, NEW a \in Agents, Unload(a)
    PROVE  IndInv'
<1> USE DEF IndInv
<1>1. UNCHANGED <<count, tree, parent, pc, call, leaked>> /\ RemoveThread(a)
  BY DEF Unload, taskVars
<1>2. TypeOK' /\ TreeShape' /\ CallShape'
  BY <1>1 DEF TypeOK, TreeShape, CallShape, RemoveThread
<1>3. SlotsCounted' /\ PathsReserved'
  BY <1>1 DEF SlotsCounted, Holding, Registered, PathsReserved, Reserving
<1>4. Backed'
  BY <1>1 DEF Backed, RemoveThread
<1> QED
  BY <1>2, <1>3, <1>4

----------------------------------------------------------------------------
(* The results. *)

\* No step of any task breaks the invariant.
LEMMA NextPreserves == IndInv /\ [Next]_vars => IndInv'
<1> SUFFICES ASSUME IndInv, [Next]_vars PROVE IndInv'
  OBVIOUS
<1>1. NoCall \in Calls
  BY AgentAssumption DEF NoCall, Calls
<1>2. ASSUME NEW o \in Tasks, Step(o)
      PROVE  IndInv'
  <2>1. ASSUME NEW p \in Paths \cup {NoPath}, NEW by \in Threads, Spawn(o, p, by)
        PROVE  IndInv'
    <3> DEFINE c == [NoCall EXCEPT !.path = p, !.base = by]
    <3>1. c \in Calls /\ c.id \in Agents \cup {NoAgent}
      BY <1>1 DEF Calls, NoCall
    <3> HIDE DEF c
    <3> QED
      BY <2>1, <3>1, ReservePreserves DEF Spawn, c
  <2>2. ASSUME NEW a \in Agents, NEW by \in Threads, ResumeAgent(o, a, by)
        PROVE  IndInv'
    <3> DEFINE c == [NoCall EXCEPT !.id = a, !.base = by]
    <3>1. c \in Calls /\ c.id \in Agents \cup {NoAgent}
      BY <1>1 DEF Calls, NoCall, Threads
    <3> HIDE DEF c
    <3> QED
      BY <2>2, <3>1, ReservePreserves DEF ResumeAgent, c
  <2>3. CASE Prepare(o)
    BY <2>3, PreparePreserves
  <2>4. CASE Abandon(o)
    BY <2>4, AbandonPreserves
  <2>5. CASE Commit(o)
    BY <2>5, CommitPreserves
  <2>6. CASE DropReservation(o)
    BY <2>6, DropPreserves
  <2>7. CASE \E a \in Agents : Create(o, a)
    BY <2>7, CreatePreserves
  <2>8. CASE \/ \E t \in Threads : SendToDead(o, t)
             \/ \E a \in Agents : CloseAgent(o, a)
             \/ Shutdown(o) \/ FlushFails(o) \/ CancelClose(o)
    BY <2>8, CloseActionsPreserve
  <2>9. CASE Release(o)
    BY <2>9, ReleasePreserves
  <2>10. CASE Decrement(o)
    BY <2>10, DecrementPreserves
  <2> QED
    BY <1>2, <2>1, <2>2, <2>3, <2>4, <2>5, <2>6, <2>7, <2>8, <2>9, <2>10 DEF Step
<1>3. CASE \E a \in Agents : Unload(a)
  BY <1>3, UnloadPreserves
<1>4. CASE UNCHANGED vars
  BY <1>4 DEF vars, IndInv, TypeOK, SlotsCounted, Holding, Registered, PathsReserved,
     Reserving, TreeShape, CallShape, Backed
<1> QED
  BY <1>2, <1>3, <1>4 DEF Next

\* The loaded sub-agents are found among the slots counted.
LEMMA CountBoundsLive == IndInv => LiveBounded
<1> SUFFICES ASSUME IndInv PROVE LiveBounded
  OBVIOUS
<1> USE DEF IndInv
<1> DEFINE L == live \ ({Root} \cup orphaned)
           committing == {o \in Holding : pc[o] = "commit"}
           named == {tree[k].id : k \in Registered}
           coming == {call[o].id : o \in committing}
<1>1. /\ IsFiniteSet(Holding) /\ Cardinality(Holding) \in Nat
      /\ IsFiniteSet(Registered) /\ Cardinality(Registered) \in Nat
  BY CountsAreNaturals
<1>2. IsFiniteSet(committing) /\ Cardinality(committing) <= Cardinality(Holding)
  <2>1. committing \in SUBSET Holding
    OBVIOUS
  <2> QED
    BY <1>1, <2>1, FS_Subset
<1>3. IsFiniteSet(named) /\ Cardinality(named) <= Cardinality(Registered)
  <2> DEFINE f == [k \in Registered |-> tree[k].id]
  <2>1. f \in Surjection(Registered, named)
    BY DEF Surjection
  <2> QED
    BY <1>1, <2>1, FS_Surjection
<1>4. IsFiniteSet(coming) /\ Cardinality(coming) <= Cardinality(committing)
  <2> DEFINE f == [o \in committing |-> call[o].id]
  <2>1. f \in Surjection(committing, coming)
    BY DEF Surjection
  <2> QED
    BY <1>2, <2>1, FS_Surjection
<1>5. L \subseteq named \cup coming
  <2> SUFFICES ASSUME NEW a \in L PROVE a \in named \cup coming
    OBVIOUS
  <2>1. a \in Agents
    BY DEF TypeOK, Threads
  <2>2. CASE \E k \in DOMAIN tree : tree[k].id = a
    BY <2>1, <2>2 DEF Registered
  <2>3. CASE \E o \in Tasks : pc[o] = "commit" /\ call[o].id = a
    BY <2>3 DEF Holding
  <2> QED
    BY <2>2, <2>3 DEF Backed
<1>6. /\ IsFiniteSet(named \cup coming)
      /\ Cardinality(named \cup coming) =
            Cardinality(named) + Cardinality(coming) - Cardinality(named \cap coming)
  BY <1>3, <1>4, FS_Union
<1>7. Cardinality(named \cap coming) \in Nat
  BY <1>3, FS_Intersection, FS_CardinalityType
<1>8. Cardinality(L) <= Cardinality(named \cup coming)
  BY <1>5, <1>6, FS_Subset
<1>9. /\ Cardinality(named) \in Nat /\ Cardinality(coming) \in Nat
      /\ Cardinality(committing) \in Nat /\ Cardinality(named \cup coming) \in Nat
      /\ IsFiniteSet(L) /\ Cardinality(L) \in Nat
  <2>1. IsFiniteSet(L)
    BY <1>5, <1>6, FS_Subset
  <2> QED
    BY <1>2, <1>3, <1>4, <1>6, <2>1, FS_CardinalityType
<1> HIDE DEF L, named, coming, committing
<1>10. Cardinality(L) <= Cardinality(Registered) + Cardinality(Holding)
  BY <1>1, <1>2, <1>3, <1>4, <1>6, <1>7, <1>8, <1>9
<1>11. Cardinality(L) <= MaxThreads
  BY <1>1, <1>9, <1>10, AgentAssumption DEF SlotsCounted, TypeOK
<1> QED
  BY <1>11 DEF LiveBounded, L

\* The invariant holds throughout, whatever the tasks do and however they interleave.
THEOREM Inductive == Spec => []IndInv
<1>1. Init => IndInv
  BY InitIsInductive
<1>2. IndInv /\ [Next]_vars => IndInv'
  BY NextPreserves
<1> QED
  BY <1>1, <1>2, PTL DEF Spec

\* Types; in particular total_count neither wraps below zero nor exceeds
\* agent_max_threads.
THEOREM TypeCorrect == Spec => []TypeOK
<1>1. IndInv => TypeOK
  BY DEF IndInv
<1> QED
  BY <1>1, Inductive, PTL

\* total_count is the reservations and the registered agents, plus the slots lost
\* when an agent was registered over itself.
THEOREM SlotsAreCounted == Spec => []SlotsCounted
<1>1. IndInv => SlotsCounted
  BY DEF IndInv
<1> QED
  BY <1>1, Inductive, PTL

\* A reserved path belongs to exactly one task until that task commits or drops it.
THEOREM PathsAreReserved == Spec => []PathsReserved
<1>1. IndInv => PathsReserved
  BY DEF IndInv
<1> QED
  BY <1>1, Inductive, PTL

\* agent_max_threads bounds the sub-agent threads that are loaded, except those whose
\* entry a late release took.
THEOREM LiveIsBounded == Spec => []LiveBounded
<1>1. IndInv => LiveBounded
  BY CountBoundsLive
<1> QED
  BY <1>1, Inductive, PTL
============================================================================
