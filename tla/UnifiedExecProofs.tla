-------------------------- MODULE UnifiedExecProofs --------------------------
(***************************************************************************)
(* Commands, registrations and network prompts for any number of calls,    *)
(* requests and hosts and any size of the process store.                   *)
(***************************************************************************)
EXTENDS UnifiedExec, SequenceTheorems, FiniteSetTheorems, WellFoundedInduction, TLAPS

----------------------------------------------------------------------------
(* The store. *)

\* A set of numbers has a least one.
LEMMA LeastNumber ==
    ASSUME NEW S \in SUBSET Nat, S # {}
    PROVE  \E n \in S : \A m \in S : n <= m
<1>1. PICK n \in S : \A m \in S : <<m, n>> \notin OpToRel(<, Nat)
  BY NatLessThanWellFounded, WFMin
<1>2. ASSUME NEW m \in S PROVE n <= m
  <2>1. ~(m < n)
    BY <1>1 DEF OpToRel
  <2> QED
    BY <2>1
<1> QED
  BY <1>2

\* A function on 1..n is a sequence of length n.
LEMMA LenOfFunction ==
    ASSUME NEW S, NEW n \in Nat, NEW f \in [1..n -> S]
    PROVE  f \in Seq(S) /\ Len(f) = n
<1>1. f \in Seq(S)
  BY SeqDef
<1>2. Len(f) \in Nat /\ 1..Len(f) = 1..n
  BY <1>1, LenProperties
<1>3. CASE n = 0
  <2>1. ASSUME Len(f) # 0 PROVE FALSE
    <3>1. 1 \in 1..Len(f)
      BY <1>2, <2>1
    <3> QED
      BY <1>2, <1>3, <3>1
  <2> QED
    BY <1>1, <1>3, <2>1
<1>4. CASE n # 0
  <2>1. n \in 1..Len(f)
    BY <1>2, <1>4
  <2>2. Len(f) \in 1..Len(f)
    BY <1>2, <2>1
  <2>3. Len(f) \in 1..n
    BY <1>2, <2>2
  <2> QED
    BY <1>1, <1>2, <2>1, <2>3
<1> QED
  BY <1>3, <1>4

\* What a removal leaves.
LEMMA WithoutIsStore ==
    ASSUME NEW S, NEW s \in Seq(S), Distinct(s), NEW c
    PROVE  /\ Without(s, c) \in Seq(S) /\ Distinct(Without(s, c))
           /\ \A d : Has(Without(s, c), d) <=> Has(s, d) /\ d # c
           /\ Len(Without(s, c)) = IF Has(s, c) THEN Len(s) - 1 ELSE Len(s)
<1> DEFINE w == Without(s, c)
<1>1. Len(s) \in Nat /\ \A k \in 1..Len(s) : s[k] \in S
  BY LenProperties, ElementOfSeq
<1>2. CASE ~Has(s, c)
  <2>1. w = s
    BY <1>2 DEF Without
  <2> QED
    BY <1>2, <2>1 DEF Has
<1>3. CASE Has(s, c)
  <2> DEFINE i == CHOOSE k \in 1..Len(s) : s[k] = c
             n == Len(s) - 1
  <2>1. i \in 1..Len(s) /\ s[i] = c
    BY <1>3 DEF Has
  <2>2. w = [k \in 1..n |-> IF k < i THEN s[k] ELSE s[k + 1]]
    BY <1>3 DEF Without
  <2> HIDE DEF i
  <2>3. n \in Nat
    BY <1>1, <2>1
  <2>4. Len(s) = n + 1
    BY <1>1
  <2> HIDE DEF w, n
  <2>5. \A k \in 1..n : (IF k < i THEN s[k] ELSE s[k + 1]) \in S
    <3> TAKE k \in 1..n
    <3>1. k \in 1..Len(s) /\ k + 1 \in 1..Len(s)
      BY <2>3, <2>4
    <3> QED
      BY <1>1, <3>1
  <2>6. w \in [1..n -> S]
    BY <2>2, <2>5
  <2>7. w \in Seq(S) /\ Len(w) = n
    BY <2>3, <2>6, LenOfFunction
  <2>8. ASSUME NEW k \in 1..n
        PROVE  /\ k < i => w[k] = s[k]
               /\ ~(k < i) => w[k] = s[k + 1]
    BY <2>2
  <2>9. Distinct(w)
    <3> SUFFICES ASSUME NEW j \in 1..n, NEW k \in 1..n, w[j] = w[k] PROVE j = k
      BY <2>7 DEF Distinct
    <3>1. /\ j \in 1..Len(s) /\ j + 1 \in 1..Len(s) /\ k \in 1..Len(s) /\ k + 1 \in 1..Len(s)
      BY <2>3, <2>4
    <3>2. \A a, b \in 1..Len(s) : s[a] = s[b] => a = b
      BY DEF Distinct
    <3>3. CASE j < i /\ k < i
      BY <2>8, <3>1, <3>2, <3>3
    <3>4. CASE j < i /\ ~(k < i)
      <4>1. j = k + 1
        BY <2>8, <3>1, <3>2, <3>4
      <4> QED
        BY <2>1, <2>3, <2>4, <3>4, <4>1
    <3>5. CASE ~(j < i) /\ k < i
      <4>1. j + 1 = k
        BY <2>8, <3>1, <3>2, <3>5
      <4> QED
        BY <2>1, <2>3, <2>4, <3>5, <4>1
    <3>6. CASE ~(j < i) /\ ~(k < i)
      <4>1. j + 1 = k + 1
        BY <2>8, <3>1, <3>2, <3>6
      <4> QED
        BY <2>3, <4>1
    <3> QED
      BY <3>3, <3>4, <3>5, <3>6
  <2>10. ASSUME NEW d PROVE Has(w, d) <=> Has(s, d) /\ d # c
    <3>1. ASSUME Has(w, d) PROVE Has(s, d) /\ d # c
      <4>1. PICK k \in 1..n : w[k] = d
        BY <2>7, <3>1 DEF Has
      <4>2. k \in 1..Len(s) /\ k + 1 \in 1..Len(s)
        BY <2>3, <2>4
      <4>3. \A a, b \in 1..Len(s) : s[a] = s[b] => a = b
        BY DEF Distinct
      <4>4. CASE k < i
        <5>1. s[k] = d /\ k # i
          BY <2>1, <2>4, <2>3, <2>8, <4>1, <4>4
        <5> QED
          BY <2>1, <4>2, <4>3, <5>1 DEF Has
      <4>5. CASE ~(k < i)
        <5>1. s[k + 1] = d /\ k + 1 # i
          BY <2>1, <2>4, <2>3, <2>8, <4>1, <4>5
        <5> QED
          BY <2>1, <4>2, <4>3, <5>1 DEF Has
      <4> QED
        BY <4>4, <4>5
    <3>2. ASSUME Has(s, d), d # c PROVE Has(w, d)
      <4>1. PICK k \in 1..Len(s) : s[k] = d
        BY <3>2 DEF Has
      <4>2. k # i
        BY <2>1, <3>2, <4>1
      <4>3. CASE k < i
        <5>1. k \in 1..n
          BY <2>1, <2>3, <2>4, <4>3
        <5> QED
          BY <2>7, <2>8, <4>1, <4>3, <5>1 DEF Has
      <4>4. CASE ~(k < i)
        <5>1. k - 1 \in 1..n /\ ~(k - 1 < i) /\ k - 1 + 1 = k
          BY <2>1, <2>3, <2>4, <4>2, <4>4
        <5>2. w[k - 1] = s[k - 1 + 1]
          BY <2>8, <5>1
        <5> QED
          BY <2>7, <4>1, <5>1, <5>2 DEF Has
      <4> QED
        BY <4>3, <4>4
    <3> QED
      BY <3>1, <3>2
  <2> QED
    BY <1>3, <2>7, <2>9, <2>10 DEF w, n
<1> QED
  BY <1>2, <1>3

\* What an insertion makes of a store that has no such entry.
LEMMA AppendIsStore ==
    ASSUME NEW S, NEW s \in Seq(S), Distinct(s), NEW c \in S, ~Has(s, c)
    PROVE  /\ Append(s, c) \in Seq(S) /\ Distinct(Append(s, c))
           /\ \A d : Has(Append(s, c), d) <=> Has(s, d) \/ d = c
           /\ Len(Append(s, c)) = Len(s) + 1
<1> DEFINE w == Append(s, c)
<1>1. /\ Len(s) \in Nat /\ w \in Seq(S) /\ Len(w) = Len(s) + 1 /\ w[Len(s) + 1] = c
      /\ \A k \in 1..Len(s) : w[k] = s[k]
  BY LenProperties, AppendProperties
<1> HIDE DEF w
<1>2. \A k \in 1..(Len(s) + 1) : k \in 1..Len(s) \/ k = Len(s) + 1
  <2>1. Len(s) \in Nat
    BY <1>1
  <2> QED
    BY <2>1
<1>3. Distinct(w)
  <2> SUFFICES ASSUME NEW j \in 1..(Len(s) + 1), NEW k \in 1..(Len(s) + 1), w[j] = w[k]
               PROVE  j = k
    BY <1>1 DEF Distinct
  <2>1. CASE j \in 1..Len(s) /\ k \in 1..Len(s)
    BY <1>1, <2>1 DEF Distinct
  <2>2. CASE j \in 1..Len(s) /\ k = Len(s) + 1
    BY <1>1, <2>2 DEF Has
  <2>3. CASE j = Len(s) + 1 /\ k \in 1..Len(s)
    BY <1>1, <2>3 DEF Has
  <2>4. CASE j = Len(s) + 1 /\ k = Len(s) + 1
    BY <2>4
  <2> QED
    BY <1>2, <2>1, <2>2, <2>3, <2>4
<1>4. ASSUME NEW d PROVE Has(w, d) <=> Has(s, d) \/ d = c
  <2>1. ASSUME Has(w, d) PROVE Has(s, d) \/ d = c
    <3>1. PICK k \in 1..(Len(s) + 1) : w[k] = d
      BY <1>1, <2>1 DEF Has
    <3> QED
      BY <1>1, <1>2, <3>1 DEF Has
  <2>2. ASSUME Has(s, d) PROVE Has(w, d)
    <3>1. PICK k \in 1..Len(s) : s[k] = d
      BY <2>2 DEF Has
    <3>2. k \in 1..Len(w)
      BY <1>1
    <3> QED
      BY <1>1, <3>1, <3>2 DEF Has
  <2>3. ASSUME d = c PROVE Has(w, d)
    <3>1. Len(s) + 1 \in 1..Len(w)
      BY <1>1
    <3> QED
      BY <1>1, <2>3, <3>1 DEF Has
  <2> QED
    BY <2>1, <2>2, <2>3
<1> QED
  BY <1>1, <1>3, <1>4 DEF w

\* Pruning takes an entry of a full store, and none otherwise.
LEMMA PrunedIsStored ==
    ASSUME table \in Seq(Execs), Len(table) <= MaxProcesses
    PROVE  \/ Len(table) < MaxProcesses /\ Pruned = None
           \/ Len(table) = MaxProcesses /\ Pruned \in Execs /\ Has(table, Pruned)
<1>1. Len(table) \in Nat /\ MaxProcesses \in Nat /\ Protected \in 0..(MaxProcesses - 1)
  BY LenProperties, ExecAssumption
<1>2. CASE Len(table) < MaxProcesses
  BY <1>2 DEF Pruned
<1>3. CASE ~(Len(table) < MaxProcesses)
  <2> DEFINE S == IF Exited # {} THEN Exited ELSE Prunable
  <2>1. Len(table) = MaxProcesses /\ 1 \in Prunable /\ Prunable \subseteq 1..Len(table)
    <3>1. Len(table) = MaxProcesses
      BY <1>1, <1>3
    <3>2. Len(table) - Protected \in Int /\ 1 <= Len(table) - Protected
          /\ Len(table) - Protected <= Len(table)
      BY <1>1, <3>1
    <3>3. 1 \in Prunable
      BY <3>2 DEF Prunable
    <3>4. ASSUME NEW i \in Prunable PROVE i \in 1..Len(table)
      BY <1>1, <3>2 DEF Prunable
    <3> QED
      BY <3>1, <3>3, <3>4
  <2>2. S \in SUBSET Nat /\ S # {} /\ S \subseteq 1..Len(table)
    <3>1. Exited \subseteq Prunable
      BY DEF Exited
    <3>2. 1..Len(table) \subseteq Nat
      OBVIOUS
    <3> QED
      BY <2>1, <3>1, <3>2
  <2>3. Pruned = table[Oldest(S)]
    BY <1>3 DEF Pruned
  <2> HIDE DEF S
  <2>4. Oldest(S) \in S
    <3>1. \E n \in S : \A m \in S : n <= m
      BY <2>2, LeastNumber
    <3> QED
      BY <3>1 DEF Oldest
  <2>5. Oldest(S) \in 1..Len(table)
    BY <2>2, <2>4
  <2> QED
    BY <2>1, <2>3, <2>5, ElementOfSeq DEF Has
<1> QED
  BY <1>2, <1>3

----------------------------------------------------------------------------
(* Requests and their plans. *)

\* Every plan is in sequence, and none begins with a write to a cache.
LEMMA PlanShape ==
    ASSUME NEW a \in DOMAIN Plan
    PROVE  /\ Plan[a] \in Seq(Steps) /\ Plan[a] # <<>> /\ InSequence(Plan[a])
           /\ Plan[a][1] \notin {"approve", "deny"}
           /\ Verdict[a] \in Verdicts
<1> USE DEF Steps, OwnerSteps
<1>1. CASE a = "policy"
  BY <1>1 DEF Plan, Verdict, Verdicts, InSequence
<1>2. CASE a = "hookAllow"
  BY <1>2 DEF Plan, Verdict, Verdicts, InSequence
<1>3. CASE a = "hookDeny"
  BY <1>3 DEF Plan, Verdict, Verdicts, InSequence
<1>4. CASE a = "once"
  BY <1>4 DEF Plan, Verdict, Verdicts, InSequence
<1>5. CASE a = "session"
  BY <1>5 DEF Plan, Verdict, Verdicts, InSequence
<1>6. CASE a = "denySession"
  BY <1>6 DEF Plan, Verdict, Verdicts, InSequence
<1>7. CASE a = "denied"
  BY <1>7 DEF Plan, Verdict, Verdicts, InSequence
<1>8. CASE a = "guardian"
  BY <1>8 DEF Plan, Verdict, Verdicts, InSequence
<1> QED
  BY <1>1, <1>2, <1>3, <1>4, <1>5, <1>6, <1>7, <1>8 DEF Plan

\* What follows the first step of a plan.
LEMMA RestOfPlan ==
    ASSUME NEW p \in Seq(Steps), p # <<>>, InSequence(p)
    PROVE  /\ Tail(p) \in Seq(Steps) /\ InSequence(Tail(p)) /\ Head(p) = p[1]
           /\ (\E i \in 1..Len(Tail(p)) : Tail(p)[i] \in OwnerSteps) =>
                 (\E i \in 1..Len(p) : p[i] \in OwnerSteps) /\ p[1] # "forget"
           /\ Tail(p) # <<>> => /\ Tail(p)[1] = "approve" => p[1] = "undeny"
                                /\ Tail(p)[1] = "deny" => p[1] = "unapprove"
<1> DEFINE t == Tail(p)
<1>1. /\ t \in Seq(Steps) /\ Len(p) \in Nat /\ Len(p) > 0 /\ Len(t) = Len(p) - 1
      /\ \A i \in 1..Len(t) : t[i] = p[i + 1]
      /\ Head(p) = p[1]
  BY EmptySeq, LenProperties, HeadTailProperties
<1> HIDE DEF t
<1>2. \A i \in 1..Len(t) : i + 1 \in 1..Len(p) /\ i + 1 \in 2..Len(p) /\ i + 1 - 1 = i /\ 1 < i + 1
  BY <1>1
<1>3. \A i, j \in 1..Len(t) : i < j /\ t[i] = "forget" => t[j] \notin OwnerSteps
  <2> SUFFICES ASSUME NEW i \in 1..Len(t), NEW j \in 1..Len(t), i < j, t[i] = "forget"
               PROVE  t[j] \notin OwnerSteps
    OBVIOUS
  <2>1. i + 1 \in 1..Len(p) /\ j + 1 \in 1..Len(p) /\ i + 1 < j + 1 /\ p[i + 1] = "forget"
    BY <1>1, <1>2
  <2>2. p[j + 1] \notin OwnerSteps
    BY <2>1 DEF InSequence
  <2> QED
    BY <1>1, <2>2
<1>4. \A i \in 2..Len(t) : /\ t[i] = "approve" => t[i - 1] = "undeny"
                           /\ t[i] = "deny" => t[i - 1] = "unapprove"
  <2> TAKE i \in 2..Len(t)
  <2>1. i \in 1..Len(t) /\ i - 1 \in 1..Len(t) /\ i - 1 + 1 = i
    BY <1>1
  <2>2. t[i] = p[i + 1] /\ t[i - 1] = p[i + 1 - 1] /\ i + 1 \in 2..Len(p)
    BY <1>1, <1>2, <2>1
  <2> QED
    BY <2>2 DEF InSequence
<1>5. InSequence(t)
  BY <1>3, <1>4 DEF InSequence
<1>6. ASSUME NEW i \in 1..Len(t), t[i] \in OwnerSteps
      PROVE  (\E j \in 1..Len(p) : p[j] \in OwnerSteps) /\ p[1] # "forget"
  <2>1. i + 1 \in 1..Len(p) /\ 1 \in 1..Len(p) /\ 1 < i + 1 /\ p[i + 1] \in OwnerSteps
    BY <1>1, <1>2, <1>6
  <2> QED
    BY <2>1 DEF InSequence
<1>7. ASSUME t # <<>>
      PROVE  /\ t[1] = "approve" => p[1] = "undeny"
             /\ t[1] = "deny" => p[1] = "unapprove"
  <2>1. 1 \in 1..Len(t)
    BY <1>1, <1>7, EmptySeq
  <2>2. t[1] = p[2] /\ 2 \in 2..Len(p) /\ 2 - 1 = 1
    BY <1>1, <1>2, <2>1
  <2>3. /\ p[2] = "approve" => p[2 - 1] = "undeny"
        /\ p[2] = "deny" => p[2 - 1] = "unapprove"
    BY <2>2 DEF InSequence
  <2> QED
    BY <2>2, <2>3
<1> QED
  BY <1>1, <1>5, <1>6, <1>7 DEF t

\* Another request is not touched by what the owner of h does to the prompt of h, and to h
\* in the caches.
LEMMA OtherRequest ==
    ASSUME NEW o, NEW r, NEW h \in Hosts,
           NEW pend, NEW app, NEW den, NEW pend2, NEW app2, NEW den2,
           RequestInv(o, r, pend, app, den), pend[h] # o,
           \A x \in Hosts : x # h => /\ pend2[x] = pend[x]
                                     /\ x \in app2 <=> x \in app
                                     /\ x \in den2 <=> x \in den,
           r.plan \in Seq(Steps)
    PROVE  RequestInv(o, r, pend2, app2, den2)
<1>1. ASSUME r.plan # <<>> PROVE 1 \in 1..Len(r.plan)
  BY <1>1, EmptySeq
<1> QED
  BY <1>1 DEF RequestInv, OwnerSteps

\* The request itself, one step of its plan further.
LEMMA NextStep ==
    ASSUME NEW q, NEW r, NEW s, NEW pend, NEW app, NEW den, NEW pend2, NEW app2, NEW den2,
           RequestInv(q, r, pend, app, den), r.plan \in Seq(Steps), r.pc = "plan",
           \/ Tail(r.plan) = <<>> /\ s.pc = "done" /\ s.plan = <<>>
           \/ /\ Tail(r.plan) # <<>> /\ s.pc = "plan" /\ s.plan = Tail(r.plan)
              /\ s.host = r.host,
           r.plan[1] = "forget" \/ pend2 = pend,
           r.plan[1] = "undeny" => r.host \notin den2,
           r.plan[1] = "unapprove" => r.host \notin app2
    PROVE  RequestInv(q, s, pend2, app2, den2)
<1>1. r.plan # <<>> /\ InSequence(r.plan)
  BY DEF RequestInv
<1>2. CASE Tail(r.plan) = <<>>
  <2>1. s.pc = "done" /\ s.plan = <<>>
    BY <1>2
  <2>2. Len(s.plan) = 0
    BY <2>1, EmptySeq
  <2> QED
    BY <2>1, <2>2 DEF RequestInv, InSequence
<1>3. CASE Tail(r.plan) # <<>>
  <2>1. s.pc = "plan" /\ s.plan = Tail(r.plan) /\ s.host = r.host
    BY <1>3
  <2> QED
    BY <1>1, <1>3, <2>1, RestOfPlan DEF RequestInv
<1> QED
  BY <1>2, <1>3

\* A host about to be cached is not in the other cache.
LEMMA CacheIsClear ==
    ASSUME NEW q, NEW r, NEW pend, NEW app, NEW den,
           RequestInv(q, r, pend, app, den), r.plan # <<>>
    PROVE  /\ r.plan[1] = "approve" => r.host \notin den
           /\ r.plan[1] = "deny" => r.host \notin app
BY DEF RequestInv

\* A request without a plan.
LEMMA NoPlan ==
    ASSUME NEW q, NEW s, NEW pend, NEW app, NEW den,
           s.plan = <<>>, s.pc # "plan",
           s.pc \in {"checkDenied", "checkApproved", "join"} => s.host \in Hosts,
           s.pc \in {"own", "prompt"} => s.host \in Hosts /\ pend[s.host] = q
    PROVE  RequestInv(q, s, pend, app, den)
<1>1. Len(s.plan) = 0
  BY EmptySeq
<1> QED
  BY <1>1 DEF RequestInv, InSequence

----------------------------------------------------------------------------
(* The steps of a request. *)

\* One request moves to the state s.
LEMMA RequestPreserves ==
    ASSUME NetworkInv, NEW q \in Requests, NEW s \in RequestStates,
           req' = [req EXCEPT ![q] = s],
           UNCHANGED <<made, active>>,
           outcomes' \in [Calls -> {None, "user", "policy"}],
           pending' \in [Hosts -> Requests \cup {None}],
           decision' \in [Requests -> Verdicts \cup {None}],
           approved' \subseteq Hosts, denied' \subseteq Hosts, woken' \subseteq Requests,
           approved' \cap denied' = {},
           RequestInv(q, s, pending', approved', denied'),
           \A o \in Requests : o # q => RequestInv(o, req[o], pending', approved', denied')
    PROVE  NetworkInv'
<1>1. req' \in [Requests -> RequestStates]
  BY DEF NetworkInv, NetworkTypeOK
<1>2. NetworkTypeOK'
  BY <1>1 DEF NetworkInv, NetworkTypeOK
<1>3. ASSUME NEW o \in Requests PROVE RequestInv(o, req'[o], pending', approved', denied')
  <2>1. req'[o] = IF o = q THEN s ELSE req[o]
    BY DEF NetworkInv, NetworkTypeOK
  <2> QED
    BY <2>1
<1> QED
  BY <1>2, <1>3 DEF NetworkInv, DecisionsExclusive

\* The same, where neither the prompts nor the caches change.
LEMMA LocalPreserves ==
    ASSUME NetworkInv, NEW q \in Requests, NEW s \in RequestStates,
           req' = [req EXCEPT ![q] = s],
           UNCHANGED <<made, active, pending, caches>>,
           outcomes' \in [Calls -> {None, "user", "policy"}],
           decision' \in [Requests -> Verdicts \cup {None}],
           woken' \subseteq Requests,
           RequestInv(q, s, pending, approved, denied)
    PROVE  NetworkInv'
<1>1. UNCHANGED <<made, active, pending, approved, denied>>
  BY DEF caches
<1>2. /\ pending \in [Hosts -> Requests \cup {None}] /\ approved \subseteq Hosts
      /\ denied \subseteq Hosts /\ approved \cap denied = {}
      /\ \A o \in Requests : RequestInv(o, req[o], pending, approved, denied)
  BY DEF NetworkInv, NetworkTypeOK, DecisionsExclusive
<1>3. /\ pending' \in [Hosts -> Requests \cup {None}] /\ approved' \subseteq Hosts
      /\ denied' \subseteq Hosts /\ approved' \cap denied' = {}
      /\ RequestInv(q, s, pending', approved', denied')
      /\ \A o \in Requests : RequestInv(o, req[o], pending', approved', denied')
  BY <1>1, <1>2
<1> QED
  BY <1>1, <1>3, RequestPreserves

\* resolve_single_active_call returns a registered call, or none.
LEMMA SingleIsCall ==
    ASSUME NetworkTypeOK
    PROVE  SingleActiveCall \in Calls \cup {None}
<1>1. CASE Cardinality(active) = 1
  <2>1. active # {}
    BY <1>1, FS_EmptySet
  <2>2. (CHOOSE c \in active : TRUE) \in active
    BY <2>1
  <2> QED
    BY <1>1, <2>2 DEF SingleActiveCall, NetworkTypeOK
<1>2. CASE Cardinality(active) # 1
  BY <1>2 DEF SingleActiveCall
<1> QED
  BY <1>1, <1>2

\* Requests that come, look at the caches, wait or end.
LEMMA WaitingPreserves ==
    ASSUME NetworkInv, NEW q \in Requests, UNCHANGED <<made, active>>,
           \/ \E h \in Hosts : Arrive(q, h)
           \/ CheckDenied(q) \/ CheckApproved(q) \/ Listen(q) \/ ReadDecision(q)
           \/ Park(q) \/ Wake(q) \/ Drop(q)
    PROVE  NetworkInv'
<1>1. /\ req \in [Requests -> RequestStates] /\ req[q] \in RequestStates
      /\ outcomes \in [Calls -> {None, "user", "policy"}]
      /\ decision \in [Requests -> Verdicts \cup {None}] /\ woken \subseteq Requests
      /\ RequestInv(q, req[q], pending, approved, denied)
  BY DEF NetworkInv, NetworkTypeOK
<1>2. ASSUME NEW s \in RequestStates, s.plan = <<>>, req' = [req EXCEPT ![q] = s],
             s.pc \notin {"plan", "own", "prompt"},
             s.pc \in {"checkDenied", "checkApproved", "join"} => s.host \in Hosts,
             woken' \subseteq Requests,
             UNCHANGED <<outcomes, pending, decision, caches>>
      PROVE  NetworkInv'
  <2>1. RequestInv(q, s, pending, approved, denied)
    BY <1>2, NoPlan
  <2> QED
    BY <1>1, <1>2, <2>1, LocalPreserves
<1>3. <<>> \in Seq(Steps)
  BY EmptySeq
<1>4. req[q].pc # "plan" => req[q].plan = <<>>
  BY <1>1 DEF RequestInv
<1>5. ASSUME NEW w \in Stages, Goto(q, w), req[q].pc # "plan", w \notin {"plan", "own", "prompt"},
             w \in {"checkDenied", "checkApproved", "join"} => req[q].host \in Hosts,
             woken' \subseteq Requests,
             UNCHANGED <<outcomes, pending, decision, caches>>
      PROVE  NetworkInv'
  <2> DEFINE s == [req[q] EXCEPT !.pc = w]
  <2>1. s \in RequestStates /\ s.plan = <<>> /\ s.pc = w /\ s.host = req[q].host
    BY <1>1, <1>4, <1>5 DEF RequestStates
  <2>2. req' = [req EXCEPT ![q] = s]
    BY <1>1, <1>5 DEF Goto
  <2> HIDE DEF s
  <2> QED
    BY <1>2, <1>5, <2>1, <2>2
<1>6. ASSUME NEW w \in {"done", "dropped"},
             req' = [req EXCEPT ![q] = [NoRequest EXCEPT !.pc = w]],
             UNCHANGED <<outcomes, pending, decision, caches, woken>>
      PROVE  NetworkInv'
  <2> DEFINE s == [NoRequest EXCEPT !.pc = w]
  <2>1. s \in RequestStates /\ s.plan = <<>> /\ s.pc = w
    BY <1>3, <1>6 DEF RequestStates, NoRequest, Stages
  <2> HIDE DEF s
  <2> QED
    BY <1>1, <1>2, <1>6, <2>1 DEF s
<1>7. ASSUME NEW h \in Hosts, Arrive(q, h) PROVE NetworkInv'
  <2> DEFINE s == [req[q] EXCEPT !.pc = "checkDenied", !.host = h]
  <2>1. s \in RequestStates /\ s.plan = <<>> /\ s.pc = "checkDenied" /\ s.host = h
    BY <1>1, <1>4, <1>7 DEF RequestStates, Arrive, Stages
  <2>2. req' = [req EXCEPT ![q] = s] /\ UNCHANGED <<outcomes, pending, decision, caches, woken>>
    BY <1>1, <1>7 DEF Arrive
  <2> HIDE DEF s
  <2> QED
    BY <1>1, <1>2, <2>1, <2>2
<1>8. req[q].pc \in {"checkDenied", "checkApproved", "join"} => req[q].host \in Hosts
  BY <1>1 DEF RequestInv
<1>9. CASE CheckDenied(q)
  BY <1>1, <1>5, <1>6, <1>8, <1>9 DEF CheckDenied, Return, Stages
<1>10. CASE CheckApproved(q)
  BY <1>1, <1>5, <1>6, <1>8, <1>10 DEF CheckApproved, Return, Stages
<1>11. CASE Listen(q)
  <2>1. woken' \subseteq Requests
    BY <1>1, <1>11 DEF Listen
  <2> QED
    BY <1>5, <1>11, <2>1 DEF Listen, Stages
<1>12. CASE ReadDecision(q)
  BY <1>1, <1>5, <1>6, <1>12 DEF ReadDecision, Return, Stages
<1>13. CASE Park(q) \/ Wake(q)
  BY <1>1, <1>5, <1>13 DEF Park, Wake, Stages
<1>14. CASE Drop(q)
  BY <1>6, <1>14 DEF Drop
<1> QED
  BY <1>7, <1>9, <1>10, <1>11, <1>12, <1>13, <1>14

\* get_or_create_pending_approval: a new owner, or one more waiter.
LEMMA JoinPreserves ==
    ASSUME NetworkInv, NEW q \in Requests, UNCHANGED <<made, active>>, GetOrCreatePending(q)
    PROVE  NetworkInv'
<1> DEFINE h == req[q].host
<1>1. /\ req \in [Requests -> RequestStates] /\ req[q] \in RequestStates
      /\ outcomes \in [Calls -> {None, "user", "policy"}]
      /\ pending \in [Hosts -> Requests \cup {None}]
      /\ decision \in [Requests -> Verdicts \cup {None}] /\ woken \subseteq Requests
      /\ approved \subseteq Hosts /\ denied \subseteq Hosts /\ approved \cap denied = {}
      /\ \A o \in Requests : RequestInv(o, req[o], pending, approved, denied)
      /\ \A o \in Requests : req[o].plan \in Seq(Steps)
  BY DEF NetworkInv, NetworkTypeOK, DecisionsExclusive, RequestStates
<1>2. /\ req[q].pc = "join" /\ req[q].plan = <<>> /\ h \in Hosts
      /\ UNCHANGED <<outcomes, decision, approved, denied, woken>>
  BY <1>1 DEF GetOrCreatePending, RequestInv, caches
<1>3. CASE pending[h] = None
  <2> DEFINE s == [req[q] EXCEPT !.pc = "own", !.owner = q]
  <2>1. s \in RequestStates /\ s.plan = <<>> /\ s.pc = "own" /\ s.host = h
    BY <1>1, <1>2 DEF RequestStates, Stages
  <2>2. req' = [req EXCEPT ![q] = s] /\ pending' = [pending EXCEPT ![h] = q]
    BY <1>1, <1>3 DEF GetOrCreatePending
  <2> HIDE DEF s, h
  <2>3. pending' \in [Hosts -> Requests \cup {None}] /\ pending'[h] = q
        /\ \A x \in Hosts : x # h => pending'[x] = pending[x]
    BY <1>1, <1>2, <2>2
  <2>4. RequestInv(q, s, pending', approved', denied')
    BY <2>1, <1>2, <2>3, NoPlan
  <2>5. ASSUME NEW o \in Requests, o # q
        PROVE  RequestInv(o, req[o], pending', approved', denied')
    <3>1. pending[h] # o
      BY <1>3, NetworkAssumption
    <3>2. RequestInv(o, req[o], pending, approved, denied) /\ req[o].plan \in Seq(Steps)
      BY <1>1
    <3> QED
      BY <1>2, <2>3, <3>1, <3>2, OtherRequest
  <2> QED
    BY <1>1, <1>2, <2>1, <2>2, <2>3, <2>4, <2>5, RequestPreserves
<1>4. CASE pending[h] # None
  <2> DEFINE s == [req[q] EXCEPT !.pc = "listen", !.owner = pending[h]]
  <2>1. s \in RequestStates /\ s.plan = <<>> /\ s.pc = "listen"
    BY <1>1, <1>2 DEF RequestStates, Stages
  <2>2. req' = [req EXCEPT ![q] = s] /\ pending' = pending
    BY <1>1, <1>4 DEF GetOrCreatePending
  <2> HIDE DEF s
  <2>3. RequestInv(q, s, pending, approved, denied)
    BY <2>1, NoPlan
  <2> QED
    BY <1>1, <1>2, <2>1, <2>2, <2>3, LocalPreserves DEF caches
<1> QED
  BY <1>3, <1>4

\* The owner's prompt and its answer, and a request that policy blocked.
LEMMA PromptPreserves ==
    ASSUME NetworkInv, NEW q \in Requests, UNCHANGED <<made, active>>,
           \/ PolicyDenies(q) \/ Prompt(q) \/ Blocked(q)
           \/ \E answer \in DOMAIN Plan \ {"policy"} : Answer(q, answer)
    PROVE  NetworkInv'
<1>1. /\ req \in [Requests -> RequestStates] /\ req[q] \in RequestStates
      /\ outcomes \in [Calls -> {None, "user", "policy"}]
      /\ decision \in [Requests -> Verdicts \cup {None}] /\ woken \subseteq Requests
      /\ RequestInv(q, req[q], pending, approved, denied)
      /\ SingleActiveCall \in Calls \cup {None}
  BY SingleIsCall DEF NetworkInv, NetworkTypeOK
<1>2. ASSUME NEW a \in DOMAIN Plan, Follow(q, a), req[q].pc \in {"own", "prompt"},
             UNCHANGED <<outcomes, pending, decision, caches, woken>>
      PROVE  NetworkInv'
  <2> DEFINE s == [req[q] EXCEPT !.pc = "plan", !.plan = Plan[a], !.verdict = Verdict[a]]
  <2>1. /\ Plan[a] \in Seq(Steps) /\ Plan[a] # <<>> /\ InSequence(Plan[a])
        /\ Plan[a][1] \notin {"approve", "deny"} /\ Verdict[a] \in Verdicts
    BY PlanShape
  <2>2. s \in RequestStates /\ s.plan = Plan[a] /\ s.pc = "plan" /\ s.host = req[q].host
    BY <1>1, <2>1 DEF RequestStates, Stages
  <2>3. req' = [req EXCEPT ![q] = s]
    BY <1>1, <1>2 DEF Follow
  <2> HIDE DEF s
  <2>4. RequestInv(q, s, pending, approved, denied)
    BY <1>1, <1>2, <2>1, <2>2 DEF RequestInv
  <2> QED
    BY <1>1, <1>2, <2>2, <2>3, <2>4, LocalPreserves
<1>3. CASE PolicyDenies(q)
  BY <1>2, <1>3 DEF PolicyDenies, Plan
<1>4. CASE \E answer \in DOMAIN Plan \ {"policy"} : Answer(q, answer)
  BY <1>2, <1>4 DEF Answer
<1>5. CASE Prompt(q)
  <2> DEFINE s == [req[q] EXCEPT !.pc = "prompt", !.call = SingleActiveCall]
  <2>1. /\ s \in RequestStates /\ s.plan = req[q].plan /\ s.pc = "prompt"
        /\ s.host = req[q].host
    BY <1>1 DEF RequestStates, Stages
  <2>2. /\ req' = [req EXCEPT ![q] = s] /\ req[q].pc = "own"
        /\ UNCHANGED <<outcomes, pending, decision, caches, woken>>
    BY <1>1, <1>5 DEF Prompt
  <2> HIDE DEF s
  <2>3. RequestInv(q, s, pending, approved, denied)
    BY <1>1, <2>1, <2>2 DEF RequestInv
  <2> QED
    BY <1>1, <2>1, <2>2, <2>3, LocalPreserves
<1>6. CASE Blocked(q)
  <2> DEFINE p == <<"resolve", "blamePolicy">>
             s == [req[q] EXCEPT !.pc = "plan", !.plan = p, !.verdict = "deny"]
  <2>1. /\ p \in Seq(Steps) /\ p # <<>> /\ Len(p) = 2
        /\ p[1] = "resolve" /\ p[2] = "blamePolicy"
    BY DEF Steps
  <2> HIDE DEF p
  <2>2. \A i \in 1..Len(p) : p[i] \in {"resolve", "blamePolicy"}
    BY <2>1
  <2>3. InSequence(p) /\ \A i \in 1..Len(p) : p[i] \notin OwnerSteps
    BY <2>1, <2>2 DEF InSequence, OwnerSteps
  <2>4. s \in RequestStates /\ s.plan = p /\ s.pc = "plan"
    BY <1>1, <2>1 DEF RequestStates, Stages, Verdicts
  <2>5. req' = [req EXCEPT ![q] = s] /\ UNCHANGED <<outcomes, pending, decision, caches, woken>>
    BY <1>1, <1>6 DEF Blocked, p
  <2> HIDE DEF s
  <2>6. RequestInv(q, s, pending, approved, denied)
    BY <2>1, <2>3, <2>4 DEF RequestInv
  <2> QED
    BY <1>1, <2>4, <2>5, <2>6, LocalPreserves
<1> QED
  BY <1>3, <1>4, <1>5, <1>6

\* The owner does the next step of its plan, s being its state after it.
LEMMA StepPreserves ==
    ASSUME NetworkInv, NEW q \in Requests, UNCHANGED <<made, active>>,
           NEW s \in RequestStates, req' = [req EXCEPT ![q] = s],
           NEW step \in OwnerSteps, Doing(q, step),
           \/ Tail(req[q].plan) = <<>> /\ s.pc = "done" /\ s.plan = <<>>
           \/ /\ Tail(req[q].plan) # <<>> /\ s.pc = "plan" /\ s.plan = Tail(req[q].plan)
              /\ s.host = req[q].host,
           outcomes' = outcomes,
           decision' \in [Requests -> Verdicts \cup {None}], woken' \subseteq Requests,
           pending' = IF step = "forget" THEN [pending EXCEPT ![req[q].host] = None] ELSE pending,
           approved' = IF step = "approve" THEN approved \cup {req[q].host}
                       ELSE IF step = "unapprove" THEN approved \ {req[q].host} ELSE approved,
           denied' = IF step = "deny" THEN denied \cup {req[q].host}
                     ELSE IF step = "undeny" THEN denied \ {req[q].host} ELSE denied
    PROVE  NetworkInv'
<1> DEFINE r == req[q]
           h == r.host
<1>1. /\ r \in RequestStates /\ outcomes \in [Calls -> {None, "user", "policy"}]
      /\ pending \in [Hosts -> Requests \cup {None}]
      /\ approved \subseteq Hosts /\ denied \subseteq Hosts /\ approved \cap denied = {}
      /\ \A o \in Requests : RequestInv(o, req[o], pending, approved, denied)
      /\ \A o \in Requests : req[o].plan \in Seq(Steps)
  BY DEF NetworkInv, NetworkTypeOK, DecisionsExclusive, RequestStates
<1>2. /\ r.pc = "plan" /\ r.plan # <<>> /\ r.plan[1] = step
      /\ 1 \in 1..Len(r.plan)
  <2>1. r.pc = "plan" /\ r.plan # <<>> /\ Head(r.plan) = step
    BY <1>1 DEF Doing, RequestInv
  <2> QED
    BY <1>1, <2>1, EmptySeq
<1>3. h \in Hosts /\ pending[h] = q
  BY <1>1, <1>2 DEF RequestInv
<1>4. /\ step = "approve" => h \notin denied
      /\ step = "deny" => h \notin approved
  <2>1. RequestInv(q, r, pending, approved, denied)
    BY <1>1
  <2>2. /\ r.plan[1] = "approve" => h \notin denied
        /\ r.plan[1] = "deny" => h \notin approved
    BY <1>2, <2>1, CacheIsClear
  <2> QED
    BY <1>2, <2>2
<1> HIDE DEF h
<1>5. /\ \A x \in Hosts : x # h => /\ pending'[x] = pending[x]
                                   /\ x \in approved' <=> x \in approved
                                   /\ x \in denied' <=> x \in denied
      /\ pending' \in [Hosts -> Requests \cup {None}]
      /\ approved' \subseteq Hosts /\ denied' \subseteq Hosts
  BY <1>1, <1>3 DEF h
<1>6. approved' \cap denied' = {}
  <2>1. CASE step = "approve"
    BY <1>1, <1>4, <2>1 DEF h
  <2>2. CASE step = "deny"
    BY <1>1, <1>4, <2>2 DEF h
  <2>3. CASE step \notin {"approve", "deny"}
    BY <1>1, <2>3
  <2> QED
    BY <2>1, <2>2, <2>3
<1>7. RequestInv(q, s, pending', approved', denied')
  <2>1. step = "forget" \/ pending' = pending
    OBVIOUS
  <2>2. (step = "undeny" => h \notin denied') /\ (step = "unapprove" => h \notin approved')
    BY DEF h
  <2>3. RequestInv(q, r, pending, approved, denied) /\ r.plan \in Seq(Steps)
    BY <1>1
  <2> HIDE DEF r
  <2> QED
    BY <1>2, <2>1, <2>2, <2>3, NextStep DEF h, r
<1>8. ASSUME NEW o \in Requests, o # q
      PROVE  RequestInv(o, req[o], pending', approved', denied')
  <2>1. pending[h] # o /\ RequestInv(o, req[o], pending, approved, denied)
        /\ req[o].plan \in Seq(Steps)
    BY <1>1, <1>3, <1>8
  <2> QED
    BY <1>3, <1>5, <2>1, OtherRequest
<1> QED
  BY <1>1, <1>5, <1>6, <1>7, <1>8, RequestPreserves

\* The steps of a plan, one lock each.
LEMMA PlanPreserves ==
    ASSUME NetworkInv, NEW q \in Requests, UNCHANGED <<made, active>>,
           \/ Undeny(q) \/ Approve(q) \/ Unapprove(q) \/ Deny(q)
           \/ Decide(q) \/ NotifyWaiters(q) \/ Forget(q)
           \/ Resolve(q) \/ Blame(q, "blameUser", "user") \/ Blame(q, "blamePolicy", "policy")
    PROVE  NetworkInv'
<1> DEFINE r == req[q]
           s == Advanced(q)
<1>1. /\ req \in [Requests -> RequestStates] /\ r \in RequestStates
      /\ outcomes \in [Calls -> {None, "user", "policy"}]
      /\ decision \in [Requests -> Verdicts \cup {None}] /\ woken \subseteq Requests
      /\ RequestInv(q, r, pending, approved, denied)
      /\ SingleActiveCall \in Calls \cup {None}
      /\ r.plan \in Seq(Steps) /\ r.verdict \in Verdicts \cup {None} /\ r.call \in Calls \cup {None}
  BY SingleIsCall DEF NetworkInv, NetworkTypeOK, RequestStates
<1>2. r.pc = "plan" /\ r.plan # <<>> /\ InSequence(r.plan)
  BY <1>1 DEF Undeny, Approve, Unapprove, Deny, Decide, NotifyWaiters, Forget, Resolve, Blame,
     Doing, RequestInv
<1>3. Tail(r.plan) \in Seq(Steps) /\ <<>> \in Seq(Steps)
  BY <1>1, <1>2, RestOfPlan, EmptySeq
<1>4. /\ s \in RequestStates
      /\ \/ Tail(r.plan) = <<>> /\ s.pc = "done" /\ s.plan = <<>>
         \/ /\ Tail(r.plan) # <<>> /\ s.pc = "plan" /\ s.plan = Tail(r.plan)
            /\ s.host = r.host
  <2>1. CASE Tail(r.plan) = <<>>
    <3>1. s = [NoRequest EXCEPT !.pc = "done"]
      BY <2>1 DEF Advanced
    <3> QED
      BY <1>3, <2>1, <3>1 DEF RequestStates, NoRequest, Stages
  <2>2. CASE Tail(r.plan) # <<>>
    <3>1. s = [r EXCEPT !.plan = Tail(r.plan)]
      BY <2>2 DEF Advanced
    <3> QED
      BY <1>1, <1>2, <1>3, <2>2, <3>1 DEF RequestStates
  <2> QED
    BY <2>1, <2>2
<1> HIDE DEF s
<1>5. ASSUME NEW step \in OwnerSteps, Doing(q, step), Advance(q),
             outcomes' = outcomes,
             decision' \in [Requests -> Verdicts \cup {None}], woken' \subseteq Requests,
             pending' = IF step = "forget" THEN [pending EXCEPT ![r.host] = None] ELSE pending,
             approved' = IF step = "approve" THEN approved \cup {r.host}
                         ELSE IF step = "unapprove" THEN approved \ {r.host} ELSE approved,
             denied' = IF step = "deny" THEN denied \cup {r.host}
                       ELSE IF step = "undeny" THEN denied \ {r.host} ELSE denied
      PROVE  NetworkInv'
  <2>1. req' = [req EXCEPT ![q] = s]
    BY <1>5 DEF Advance, s
  <2> QED
    BY <1>4, <1>5, <2>1, StepPreserves
<1> USE DEF OwnerSteps, caches
<1>6. CASE Undeny(q)
  BY <1>1, <1>5, <1>6 DEF Undeny
<1>7. CASE Approve(q)
  BY <1>1, <1>5, <1>7 DEF Approve
<1>8. CASE Unapprove(q)
  BY <1>1, <1>5, <1>8 DEF Unapprove
<1>9. CASE Deny(q)
  BY <1>1, <1>5, <1>9 DEF Deny
<1>10. CASE Decide(q)
  <2>1. decision' \in [Requests -> Verdicts \cup {None}]
    BY <1>1, <1>10 DEF Decide
  <2> QED
    BY <1>1, <1>5, <1>10, <2>1 DEF Decide
<1>11. CASE NotifyWaiters(q)
  <2>1. woken' \subseteq Requests
    BY <1>1, <1>11 DEF NotifyWaiters, Waiting
  <2> QED
    BY <1>1, <1>5, <1>11, <2>1 DEF NotifyWaiters
<1>12. CASE Forget(q)
  BY <1>1, <1>5, <1>12 DEF Forget
<1>13. ASSUME NEW t \in RequestStates, req' = [req EXCEPT ![q] = t],
              t.pc = s.pc, t.plan = s.plan, t.host = s.host,
              r.plan[1] \notin OwnerSteps,
              outcomes' \in [Calls -> {None, "user", "policy"}],
              UNCHANGED <<pending, decision, caches, woken>>
       PROVE  NetworkInv'
  <2>1. RequestInv(q, t, pending, approved, denied)
    BY <1>1, <1>2, <1>4, <1>13, NextStep
  <2> QED
    BY <1>1, <1>13, <2>1, LocalPreserves
<1>14. CASE Resolve(q)
  <2> DEFINE t == [s EXCEPT !.call = SingleActiveCall]
  <2>1. t \in RequestStates /\ t.pc = s.pc /\ t.plan = s.plan /\ t.host = s.host
    BY <1>1, <1>4 DEF RequestStates
  <2>2. req' = [req EXCEPT ![q] = t] /\ UNCHANGED <<outcomes, pending, decision, caches, woken>>
    BY <1>14 DEF Resolve, s
  <2>3. r.plan[1] \notin OwnerSteps
    BY <1>1, <1>2, <1>14, RestOfPlan DEF Resolve, Doing
  <2> HIDE DEF t
  <2> QED
    BY <1>1, <1>13, <2>1, <2>2, <2>3
<1>15. ASSUME NEW step \in {"blameUser", "blamePolicy"}, NEW who \in {"user", "policy"},
              Blame(q, step, who)
       PROVE  NetworkInv'
  <2>1. req' = [req EXCEPT ![q] = s] /\ UNCHANGED <<pending, decision, caches, woken>>
    BY <1>15 DEF Blame, Advance, s
  <2>2. r.plan[1] \notin OwnerSteps
    BY <1>1, <1>2, <1>15, RestOfPlan DEF Blame, Doing
  <2>3. outcomes' \in [Calls -> {None, "user", "policy"}]
    BY <1>1, <1>15 DEF Blame
  <2> QED
    BY <1>4, <1>13, <2>1, <2>2, <2>3
<1> QED
  BY <1>6, <1>7, <1>8, <1>9, <1>10, <1>11, <1>12, <1>14, <1>15

\* Every step of a request preserves the network part.
LEMMA NetworkPreserves ==
    ASSUME NetworkInv, NetworkStep
    PROVE  NetworkInv'
<1>1. PICK q \in Requests : (\E h \in Hosts : Arrive(q, h)) \/ Blocked(q) \/ Handle(q) \/ Drop(q)
  BY DEF NetworkStep
<1>2. UNCHANGED <<made, active>>
  BY DEF NetworkStep
<1> QED
  BY <1>1, <1>2, WaitingPreserves, JoinPreserves, PromptPreserves, PlanPreserves DEF Handle

\* Registering and unregistering calls does not touch the requests.
LEMMA RegistrationsPreserve ==
    ASSUME NetworkInv, active' \subseteq Calls,
           outcomes' \in [Calls -> {None, "user", "policy"}],
           UNCHANGED <<made, prompts>>
    PROVE  NetworkInv'
BY DEF NetworkInv, NetworkTypeOK, DecisionsExclusive, prompts, caches

----------------------------------------------------------------------------
(* The steps of commands. *)

\* An unregistration leaves the types alone.
LEMMA UnregisterTypes ==
    ASSUME NetworkTypeOK, NEW cs, UnregisterCalls(cs)
    PROVE  /\ active' = active \ cs /\ active' \subseteq Calls
           /\ outcomes' \in [Calls -> {None, "user", "policy"}]
BY DEF NetworkTypeOK, UnregisterCalls

\* begin_network_approval.
LEMMA BeginPreserves ==
    ASSUME IndInv, NEW c \in Calls, Begin(c), UNCHANGED <<made, prompts>>
    PROVE  IndInv'
<1> USE DEF IndInv, ExecInv
<1>1. /\ at[c] = "idle" /\ at' = [at EXCEPT ![c] = "run"]
      /\ active' = active \cup {c} /\ UNCHANGED outcomes
      /\ UNCHANGED <<proc, table, victim, watched, ended, polled, doomed, leaked>>
  BY DEF Begin, Move, processes, RegisterCall
<1>2. NetworkInv'
  BY <1>1, RegistrationsPreserve DEF NetworkInv, NetworkTypeOK
<1>11. TypeOK'
  BY <1>1, <1>2 DEF TypeOK, NetworkInv, Places
<1>12. RegistrationsOwned'
  BY <1>1 DEF RegistrationsOwned, TypeOK, InTable, BeingCleaned
<1>13. NoOrphans'
  BY <1>1 DEF NoOrphans, TypeOK, InTable, BeingCleaned, Running
<1>14. CallPlaces' /\ PolledOver' /\ NotYetEnded'
  BY <1>1 DEF CallPlaces, PolledOver, NotYetEnded, TypeOK, Running
<1>15. Fresh'
  BY <1>1 DEF Fresh, TypeOK, InTable, BeingCleaned
<1>16. Registered' /\ CleanedApart' /\ Distinct(table')
  BY <1>1 DEF Registered, CleanedApart, TypeOK, InTable, BeingCleaned
<1> QED
  BY <1>2, <1>11, <1>12, <1>13, <1>14, <1>15, <1>16

\* A process that cannot be started.
LEMMA OpenFailsPreserves ==
    ASSUME IndInv, NEW c \in Execs, OpenFails(c), UNCHANGED <<made, prompts>>
    PROVE  IndInv'
<1> USE DEF IndInv, ExecInv
<1>1. /\ at[c] = "run" /\ (at' = [at EXCEPT ![c] = "idle"] \/ at' = [at EXCEPT ![c] = "done"])
      /\ UNCHANGED <<proc, table, victim, watched, ended, polled, doomed, leaked>>
  BY DEF OpenFails, Move, processes
<1>2. active' = active \ {c} /\ NetworkInv'
  <2>1. UnregisterCalls({c}) /\ NetworkTypeOK
    BY DEF OpenFails, NetworkInv
  <2> QED
    BY <2>1, UnregisterTypes, RegistrationsPreserve
<1>11. TypeOK'
  BY <1>1, <1>2 DEF TypeOK, NetworkInv, Places
<1>12. RegistrationsOwned'
  BY <1>1, <1>2, ExecAssumption DEF RegistrationsOwned, Fresh, TypeOK, InTable, BeingCleaned
<1>13. NoOrphans'
  BY <1>1, ExecAssumption DEF NoOrphans, TypeOK, InTable, BeingCleaned, Running
<1>14. CallPlaces' /\ PolledOver' /\ NotYetEnded'
  BY <1>1, ExecAssumption DEF CallPlaces, PolledOver, NotYetEnded, TypeOK, Running
<1>15. Fresh'
  BY <1>1, ExecAssumption DEF Fresh, TypeOK, InTable, BeingCleaned
<1>16. Registered' /\ CleanedApart' /\ Distinct(table')
  BY <1>1, <1>2, ExecAssumption DEF Registered, CleanedApart, TypeOK, InTable, BeingCleaned
<1> QED
  BY <1>2, <1>11, <1>12, <1>13, <1>14, <1>15, <1>16

\* A process that was started.
LEMMA OpenedPreserves ==
    ASSUME IndInv, NEW c \in Execs, Opened(c), UNCHANGED <<made, prompts>>
    PROVE  IndInv'
<1> USE DEF IndInv, ExecInv
<1>1. /\ at[c] = "run" /\ at' = [at EXCEPT ![c] = "opened"]
      /\ proc' = [proc EXCEPT ![c] = "running"]
      /\ UNCHANGED <<active, outcomes, table, victim, watched, ended, polled, doomed, leaked>>
  BY DEF Opened, Move, registrations
<1>2. NetworkInv'
  BY <1>1, RegistrationsPreserve DEF NetworkInv, NetworkTypeOK
<1>11. TypeOK'
  BY <1>1, <1>2 DEF TypeOK, NetworkInv, Places
<1>12. RegistrationsOwned'
  BY <1>1 DEF RegistrationsOwned, Registered, TypeOK, InTable, BeingCleaned
<1>13. NoOrphans'
  BY <1>1, ExecAssumption DEF NoOrphans, TypeOK, InTable, BeingCleaned, Running
<1>14. CallPlaces' /\ PolledOver' /\ NotYetEnded'
  BY <1>1 DEF CallPlaces, PolledOver, NotYetEnded, Fresh, TypeOK, BeingCleaned, Running
<1>15. Fresh'
  BY <1>1 DEF Fresh, TypeOK, InTable, BeingCleaned
<1>16. Registered' /\ CleanedApart' /\ Distinct(table')
  BY <1>1 DEF Registered, CleanedApart, TypeOK, InTable, BeingCleaned
<1> QED
  BY <1>2, <1>11, <1>12, <1>13, <1>14, <1>15, <1>16

\* A process ends by itself.
LEMMA ExitPreserves ==
    ASSUME IndInv, NEW c \in Execs, Exit(c), UNCHANGED <<made, prompts>>
    PROVE  IndInv'
<1> USE DEF IndInv, ExecInv
<1>1. /\ Running(c)
      /\ proc' = [proc EXCEPT ![c] = "exited"] \/ proc' = [proc EXCEPT ![c] = "failed"]
      /\ UNCHANGED <<active, outcomes, at, table, victim, watched, ended, polled, doomed, leaked>>
  BY DEF Exit, registrations
<1>2. NetworkInv'
  BY <1>1, RegistrationsPreserve DEF NetworkInv, NetworkTypeOK
<1>11. TypeOK'
  BY <1>1, <1>2 DEF TypeOK, NetworkInv, Places
<1>12. RegistrationsOwned'
  BY <1>1 DEF RegistrationsOwned, TypeOK, InTable, BeingCleaned
<1>13. NoOrphans'
  BY <1>1 DEF NoOrphans, TypeOK, InTable, BeingCleaned, Running
<1>14. CallPlaces' /\ PolledOver' /\ NotYetEnded'
  BY <1>1 DEF CallPlaces, PolledOver, NotYetEnded, TypeOK, Running
<1>15. Fresh'
  BY <1>1 DEF Fresh, TypeOK, InTable, BeingCleaned
<1>16. Registered' /\ CleanedApart' /\ Distinct(table')
  BY <1>1 DEF Registered, CleanedApart, TypeOK, InTable, BeingCleaned
<1> QED
  BY <1>2, <1>11, <1>12, <1>13, <1>14, <1>15, <1>16

\* spawn_exit_watcher.
LEMMA WatchPreserves ==
    ASSUME IndInv, NEW c \in Execs, Watch(c), UNCHANGED <<made, prompts>>
    PROVE  IndInv'
<1> USE DEF IndInv, ExecInv
<1>1. /\ at[c] = "stored" /\ at' = [at EXCEPT ![c] = "wait"]
      /\ watched' = watched \cup {c}
      /\ UNCHANGED <<active, outcomes, proc, table, victim, ended, polled, doomed, leaked>>
  BY DEF Watch, Move, registrations
<1>2. NetworkInv'
  BY <1>1, RegistrationsPreserve DEF NetworkInv, NetworkTypeOK
<1>11. TypeOK'
  BY <1>1, <1>2 DEF TypeOK, NetworkInv, Places
<1>12. RegistrationsOwned'
  BY <1>1 DEF RegistrationsOwned, TypeOK, InTable, BeingCleaned
<1>13. NoOrphans'
  BY <1>1 DEF NoOrphans, TypeOK, InTable, BeingCleaned, Running
<1>14. CallPlaces' /\ PolledOver' /\ NotYetEnded'
  BY <1>1, ExecAssumption DEF CallPlaces, PolledOver, NotYetEnded, TypeOK, Running
<1>15. Fresh'
  BY <1>1 DEF Fresh, TypeOK, InTable, BeingCleaned
<1>16. Registered' /\ CleanedApart' /\ Distinct(table')
  BY <1>1 DEF Registered, CleanedApart, TypeOK, InTable, BeingCleaned
<1> QED
  BY <1>2, <1>11, <1>12, <1>13, <1>14, <1>15, <1>16

\* The end event of a watched process.
LEMMA EmitEndPreserves ==
    ASSUME IndInv, NEW c \in Execs, EmitEnd(c), UNCHANGED <<made, prompts>>
    PROVE  IndInv'
<1> USE DEF IndInv, ExecInv
<1>1. /\ c \in watched /\ ~Running(c)
      /\ ended' = [ended EXCEPT ![c] = @ + 1]
      /\ watched' = watched \ {c}
      /\ UNCHANGED <<active, outcomes, at, proc, table, victim, polled, doomed, leaked>>
  BY DEF EmitEnd, registrations
<1>2. NetworkInv'
  BY <1>1, RegistrationsPreserve DEF NetworkInv, NetworkTypeOK
<1>11. TypeOK'
  BY <1>1, <1>2 DEF TypeOK, NetworkInv, Places, NotYetEnded
<1>12. RegistrationsOwned'
  BY <1>1 DEF RegistrationsOwned, TypeOK, InTable, BeingCleaned
<1>13. NoOrphans'
  BY <1>1 DEF NoOrphans, TypeOK, InTable, BeingCleaned, Running
<1>14. CallPlaces' /\ PolledOver' /\ NotYetEnded'
  BY <1>1 DEF CallPlaces, PolledOver, NotYetEnded, TypeOK, Running
<1>15. Fresh'
  BY <1>1 DEF Fresh, TypeOK, InTable, BeingCleaned
<1>16. Registered' /\ CleanedApart' /\ Distinct(table')
  BY <1>1 DEF Registered, CleanedApart, TypeOK, InTable, BeingCleaned
<1> QED
  BY <1>2, <1>11, <1>12, <1>13, <1>14, <1>15, <1>16

\* The end event of a process that was never stored.
LEMMA EmitShortEndPreserves ==
    ASSUME IndInv, NEW c \in Execs, EmitShortEnd(c), UNCHANGED <<made, prompts>>
    PROVE  IndInv'
<1> USE DEF IndInv, ExecInv
<1>1. /\ at[c] = "opened" /\ ~Running(c) /\ at' = [at EXCEPT ![c] = "finish"]
      /\ ended' = [ended EXCEPT ![c] = @ + 1]
      /\ UNCHANGED <<active, outcomes, proc, table, victim, watched, polled, doomed, leaked>>
  BY DEF EmitShortEnd, Move, registrations
<1>2. NetworkInv'
  BY <1>1, RegistrationsPreserve DEF NetworkInv, NetworkTypeOK
<1>11. TypeOK'
  BY <1>1, <1>2, ExecAssumption DEF TypeOK, NetworkInv, Places, Fresh
<1>12. RegistrationsOwned'
  BY <1>1 DEF RegistrationsOwned, TypeOK, InTable, BeingCleaned
<1>13. NoOrphans'
  BY <1>1 DEF NoOrphans, TypeOK, InTable, BeingCleaned, Running
<1>14. CallPlaces' /\ PolledOver' /\ NotYetEnded'
  BY <1>1 DEF CallPlaces, PolledOver, NotYetEnded, Fresh, TypeOK, Running
<1>15. Fresh'
  BY <1>1, ExecAssumption DEF Fresh, TypeOK, InTable, BeingCleaned
<1>16. Registered' /\ CleanedApart' /\ Distinct(table')
  BY <1>1 DEF Registered, CleanedApart, Fresh, TypeOK, InTable, BeingCleaned
<1> QED
  BY <1>2, <1>11, <1>12, <1>13, <1>14, <1>15, <1>16

\* finish_deferred_network_approval.
LEMMA FinishDeferredPreserves ==
    ASSUME IndInv, NEW c \in Execs, FinishDeferred(c), UNCHANGED <<made, prompts>>
    PROVE  IndInv'
<1> USE DEF IndInv, ExecInv
<1>1. /\ at[c] = "finish" /\ at' = [at EXCEPT ![c] = "done"]
      /\ UNCHANGED <<proc, table, victim, watched, ended, polled, doomed, leaked>>
  BY DEF FinishDeferred, Move, processes
<1>2. active' = active \ {c} /\ NetworkInv'
  <2>1. UnregisterCalls({c}) /\ NetworkTypeOK
    BY DEF FinishDeferred, NetworkInv
  <2> QED
    BY <2>1, UnregisterTypes, RegistrationsPreserve
<1>11. TypeOK'
  BY <1>1, <1>2 DEF TypeOK, NetworkInv, Places
<1>12. RegistrationsOwned'
  BY <1>1, <1>2 DEF RegistrationsOwned, CleanedApart, TypeOK, InTable, BeingCleaned
<1>13. NoOrphans'
  BY <1>1 DEF NoOrphans, TypeOK, InTable, BeingCleaned, Running
<1>14. CallPlaces' /\ PolledOver' /\ NotYetEnded'
  BY <1>1 DEF CallPlaces, PolledOver, NotYetEnded, TypeOK, Running
<1>15. Fresh'
  BY <1>1 DEF Fresh, TypeOK, InTable, BeingCleaned
<1>16. Registered' /\ CleanedApart' /\ Distinct(table')
  BY <1>1, <1>2 DEF Registered, CleanedApart, TypeOK, InTable, BeingCleaned
<1> QED
  BY <1>2, <1>11, <1>12, <1>13, <1>14, <1>15, <1>16

\* A one-shot call takes its outcome.
LEMMA TakeOutcomePreserves ==
    ASSUME IndInv, NEW c \in Shells, TakeOutcome(c), UNCHANGED <<made, prompts>>
    PROVE  IndInv'
<1> USE DEF IndInv, ExecInv
<1>1. /\ at[c] = "run" /\ (at' = [at EXCEPT ![c] = "finish"] \/ at' = [at EXCEPT ![c] = "reject"])
      /\ active' = active /\ outcomes' = [outcomes EXCEPT ![c] = None]
      /\ UNCHANGED <<proc, table, victim, watched, ended, polled, doomed, leaked>>
  BY DEF TakeOutcome, Move, processes
<1>2. NetworkInv'
  BY <1>1, RegistrationsPreserve DEF NetworkInv, NetworkTypeOK
<1>11. TypeOK'
  BY <1>1, <1>2 DEF TypeOK, NetworkInv, Places
<1>12. RegistrationsOwned'
  BY <1>1, ExecAssumption DEF RegistrationsOwned, TypeOK, InTable, BeingCleaned
<1>13. NoOrphans'
  BY <1>1, ExecAssumption DEF NoOrphans, TypeOK, InTable, BeingCleaned, Running
<1>14. CallPlaces' /\ PolledOver' /\ NotYetEnded'
  BY <1>1, ExecAssumption DEF CallPlaces, PolledOver, NotYetEnded, TypeOK, Running
<1>15. Fresh'
  BY <1>1, ExecAssumption DEF Fresh, TypeOK, InTable, BeingCleaned
<1>16. Registered' /\ CleanedApart' /\ Distinct(table')
  BY <1>1, ExecAssumption DEF Registered, CleanedApart, TypeOK, InTable, BeingCleaned
<1> QED
  BY <1>2, <1>11, <1>12, <1>13, <1>14, <1>15, <1>16

\* A one-shot call unregisters itself.
LEMMA FinishImmediatePreserves ==
    ASSUME IndInv, NEW c \in Shells, FinishImmediate(c), UNCHANGED <<made, prompts>>
    PROVE  IndInv'
<1> USE DEF IndInv, ExecInv
<1>1. /\ at[c] \in {"finish", "reject"}
      /\ at' = [at EXCEPT ![c] = "done"] \/ at' = [at EXCEPT ![c] = "rejected"]
      /\ UNCHANGED <<proc, table, victim, watched, ended, polled, doomed, leaked>>
  BY DEF FinishImmediate, Move, processes
<1>2. active' = active \ {c} /\ NetworkInv'
  <2>1. UnregisterCalls({c}) /\ NetworkTypeOK
    BY DEF FinishImmediate, NetworkInv
  <2> QED
    BY <2>1, UnregisterTypes, RegistrationsPreserve
<1>11. TypeOK'
  BY <1>1, <1>2 DEF TypeOK, NetworkInv, Places
<1>12. RegistrationsOwned'
  BY <1>1, <1>2, ExecAssumption DEF RegistrationsOwned, TypeOK, InTable, BeingCleaned
<1>13. NoOrphans'
  BY <1>1, ExecAssumption DEF NoOrphans, TypeOK, InTable, BeingCleaned, Running
<1>14. CallPlaces' /\ PolledOver' /\ NotYetEnded'
  BY <1>1, ExecAssumption DEF CallPlaces, PolledOver, NotYetEnded, TypeOK, Running
<1>15. Fresh'
  BY <1>1, ExecAssumption DEF Fresh, TypeOK, InTable, BeingCleaned
<1>16. Registered' /\ CleanedApart' /\ Distinct(table')
  BY <1>1, <1>2, ExecAssumption DEF Registered, CleanedApart, TypeOK, InTable, BeingCleaned
<1> QED
  BY <1>2, <1>11, <1>12, <1>13, <1>14, <1>15, <1>16

\* write_stdin unregisters the entry it took out.
LEMMA PollUnregistersPreserves ==
    ASSUME IndInv, PollUnregisters, UNCHANGED <<made, prompts>>
    PROVE  IndInv'
<1> USE DEF IndInv, ExecInv
<1>1. /\ polled # None /\ polled' = None
      /\ UNCHANGED <<at, proc, table, victim, watched, ended, doomed, leaked>>
  BY DEF PollUnregisters
<1>2. active' = active \ {polled} /\ NetworkInv'
  <2>1. UnregisterCalls({polled}) /\ NetworkTypeOK
    BY DEF PollUnregisters, NetworkInv
  <2> QED
    BY <2>1, UnregisterTypes, RegistrationsPreserve
<1>11. TypeOK'
  BY <1>1, <1>2 DEF TypeOK, NetworkInv, Places
<1>12. RegistrationsOwned'
  BY <1>1, <1>2 DEF RegistrationsOwned, CleanedApart, Fresh, TypeOK, InTable, BeingCleaned
<1>13. NoOrphans'
  BY <1>1 DEF NoOrphans, PolledOver, TypeOK, InTable, BeingCleaned, Running
<1>14. CallPlaces' /\ PolledOver' /\ NotYetEnded'
  BY <1>1 DEF CallPlaces, PolledOver, NotYetEnded, TypeOK
<1>15. Fresh'
  BY <1>1, ExecAssumption, NetworkAssumption DEF Fresh, TypeOK, InTable, BeingCleaned
<1>16. Registered' /\ CleanedApart' /\ Distinct(table')
  BY <1>1, <1>2, ExecAssumption, NetworkAssumption DEF Registered, CleanedApart, Fresh,
     TypeOK, InTable, BeingCleaned
<1> QED
  BY <1>2, <1>11, <1>12, <1>13, <1>14, <1>15, <1>16

\* write_stdin is cancelled before it does.
LEMMA PollCancelledPreserves ==
    ASSUME IndInv, PollCancelled, UNCHANGED <<made, prompts>>
    PROVE  IndInv'
<1> USE DEF IndInv, ExecInv
<1>1. /\ polled # None /\ polled' = None
      /\ leaked' = leaked \cup {polled}
      /\ UNCHANGED <<active, outcomes, at, proc, table, victim, watched, ended, doomed>>
  BY DEF PollCancelled, registrations
<1>2. NetworkInv'
  BY <1>1, RegistrationsPreserve DEF NetworkInv, NetworkTypeOK
<1>11. TypeOK'
  BY <1>1, <1>2, ExecAssumption DEF TypeOK, NetworkInv, Places
<1>12. RegistrationsOwned'
  BY <1>1 DEF RegistrationsOwned, TypeOK, InTable, BeingCleaned
<1>13. NoOrphans'
  BY <1>1 DEF NoOrphans, TypeOK, InTable, BeingCleaned, Running
<1>14. CallPlaces' /\ PolledOver' /\ NotYetEnded'
  BY <1>1 DEF CallPlaces, PolledOver, NotYetEnded, TypeOK
<1>15. Fresh'
  BY <1>1, ExecAssumption, NetworkAssumption DEF Fresh, TypeOK, InTable, BeingCleaned
<1>16. Registered' /\ CleanedApart' /\ Distinct(table')
  BY <1>1, ExecAssumption, NetworkAssumption DEF Registered, CleanedApart, TypeOK, InTable,
     BeingCleaned
<1> QED
  BY <1>2, <1>11, <1>12, <1>13, <1>14, <1>15, <1>16

\* The pruned entry is unregistered and terminated.
LEMMA UnregisterVictimPreserves ==
    ASSUME IndInv, NEW c \in Execs, UnregisterVictim(c), UNCHANGED <<made, prompts>>
    PROVE  IndInv'
<1> USE DEF IndInv, ExecInv
<1>1. /\ at[c] = "prune" /\ at' = [at EXCEPT ![c] = "stored"]
      /\ proc' = [proc EXCEPT ![victim[c]] = IF @ = "running" THEN "exited" ELSE @]
      /\ victim' = [victim EXCEPT ![c] = None]
      /\ UNCHANGED <<table, watched, ended, polled, doomed, leaked>>
  BY DEF UnregisterVictim, Move
<1>2. active' = active \ {victim[c]} /\ NetworkInv'
  <2>1. UnregisterCalls({victim[c]}) /\ NetworkTypeOK
    BY DEF UnregisterVictim, NetworkInv
  <2> QED
    BY <2>1, UnregisterTypes, RegistrationsPreserve
<1>11. TypeOK'
  BY <1>1, <1>2 DEF TypeOK, NetworkInv, Places
<1>12. RegistrationsOwned'
  BY <1>1, <1>2 DEF RegistrationsOwned, CleanedApart, Fresh, TypeOK, InTable, BeingCleaned
<1>13. NoOrphans'
  BY <1>1 DEF NoOrphans, TypeOK, InTable, BeingCleaned, Running
<1>14. CallPlaces' /\ PolledOver' /\ NotYetEnded'
  BY <1>1 DEF CallPlaces, PolledOver, NotYetEnded, TypeOK, Running
<1>15. Fresh'
  BY <1>1, ExecAssumption, NetworkAssumption DEF Fresh, TypeOK, InTable, BeingCleaned
<1>16. Registered' /\ CleanedApart' /\ Distinct(table')
  BY <1>1, <1>2, ExecAssumption, NetworkAssumption DEF Registered, CleanedApart, Fresh,
     TypeOK, InTable, BeingCleaned
<1> QED
  BY <1>2, <1>11, <1>12, <1>13, <1>14, <1>15, <1>16

\* terminate_all_processes cleans an entry up.
LEMMA TerminatePreserves ==
    ASSUME IndInv, NEW c \in Execs, c \in doomed, UnregisterCalls({c}),
           doomed' = doomed \ {c},
           proc' = [proc EXCEPT ![c] = IF @ = "running" THEN "exited" ELSE @],
           UNCHANGED <<at, table, victim, watched, ended, polled, leaked, made, prompts>>
    PROVE  IndInv'
<1> USE DEF IndInv, ExecInv
<1>1. /\ c \in doomed /\ doomed' = doomed \ {c}
      /\ proc' = [proc EXCEPT ![c] = IF @ = "running" THEN "exited" ELSE @]
      /\ UNCHANGED <<at, table, victim, watched, ended, polled, leaked>>
  OBVIOUS
<1>2. active' = active \ {c} /\ NetworkInv'
  <2>1. UnregisterCalls({c}) /\ NetworkTypeOK
    BY DEF NetworkInv
  <2> QED
    BY <2>1, UnregisterTypes, RegistrationsPreserve
<1>11. TypeOK'
  BY <1>1, <1>2 DEF TypeOK, NetworkInv, Places
<1>12. RegistrationsOwned'
  BY <1>1, <1>2 DEF RegistrationsOwned, CleanedApart, Fresh, TypeOK, InTable, BeingCleaned
<1>13. NoOrphans'
  BY <1>1 DEF NoOrphans, TypeOK, InTable, BeingCleaned, Running
<1>14. CallPlaces' /\ PolledOver' /\ NotYetEnded'
  BY <1>1 DEF CallPlaces, PolledOver, NotYetEnded, TypeOK, Running
<1>15. Fresh'
  BY <1>1 DEF Fresh, TypeOK, InTable, BeingCleaned
<1>16. Registered' /\ CleanedApart' /\ Distinct(table')
  BY <1>1, <1>2 DEF Registered, CleanedApart, Fresh, TypeOK, InTable, BeingCleaned
<1> QED
  BY <1>2, <1>11, <1>12, <1>13, <1>14, <1>15, <1>16

\* write_stdin uses an entry.
LEMMA TouchPreserves ==
    ASSUME IndInv, NEW c \in Execs, Touch(c), UNCHANGED <<made, prompts>>
    PROVE  IndInv'
<1> USE DEF IndInv, ExecInv
<1>1. /\ InTable(c)
      /\ table' = Append(Without(table, c), c)
      /\ UNCHANGED <<active, outcomes, at, proc, victim, watched, ended, polled, doomed, leaked>>
  BY DEF Touch, registrations
<1>2. NetworkInv'
  BY <1>1, RegistrationsPreserve DEF NetworkInv, NetworkTypeOK
<1>3. table \in Seq(Execs) /\ Distinct(table) /\ Len(table) \in Nat /\ Len(table) <= MaxProcesses
  BY LenProperties DEF TypeOK
<1>4. /\ table' \in Seq(Execs) /\ Distinct(table') /\ Len(table') = Len(table)
      /\ \A d : Has(table', d) <=> Has(table, d)
  <2> DEFINE w == Without(table, c)
  <2>1. /\ w \in Seq(Execs) /\ Distinct(w) /\ Len(w) = Len(table) - 1
        /\ \A d : Has(w, d) <=> Has(table, d) /\ d # c
    BY <1>1, <1>3, WithoutIsStore DEF InTable
  <2> HIDE DEF w
  <2>2. /\ Append(w, c) \in Seq(Execs) /\ Distinct(Append(w, c)) /\ Len(Append(w, c)) = Len(w) + 1
        /\ \A d : Has(Append(w, c), d) <=> Has(w, d) \/ d = c
    BY <2>1, AppendIsStore
  <2> QED
    BY <1>1, <1>3, <2>1, <2>2 DEF InTable, w
<1>11. TypeOK'
  BY <1>1, <1>2, <1>4 DEF TypeOK, NetworkInv, Places
<1>12. RegistrationsOwned'
  BY <1>1, <1>4 DEF RegistrationsOwned, TypeOK, InTable, BeingCleaned
<1>13. NoOrphans'
  BY <1>1, <1>4 DEF NoOrphans, TypeOK, InTable, BeingCleaned, Running
<1>14. CallPlaces' /\ PolledOver' /\ NotYetEnded'
  BY <1>1 DEF CallPlaces, PolledOver, NotYetEnded, TypeOK, Running
<1>15. Fresh'
  BY <1>1, <1>4 DEF Fresh, TypeOK, InTable, BeingCleaned
<1>16. Registered' /\ CleanedApart' /\ Distinct(table')
  BY <1>1, <1>4 DEF Registered, CleanedApart, TypeOK, InTable, BeingCleaned
<1> QED
  BY <1>2, <1>11, <1>12, <1>13, <1>14, <1>15, <1>16

\* write_stdin takes out an entry whose process is over.
LEMMA PollRemovesPreserves ==
    ASSUME IndInv, NEW c \in Execs, PollRemoves(c), UNCHANGED <<made, prompts>>
    PROVE  IndInv'
<1> USE DEF IndInv, ExecInv
<1>1. /\ InTable(c) /\ ~Running(c)
      /\ polled = None /\ polled' = c
      /\ table' = Without(table, c)
      /\ UNCHANGED <<active, outcomes, at, proc, victim, watched, ended, doomed, leaked>>
  BY DEF PollRemoves, registrations
<1>2. NetworkInv'
  BY <1>1, RegistrationsPreserve DEF NetworkInv, NetworkTypeOK
<1>3. table \in Seq(Execs) /\ Distinct(table) /\ Len(table) \in Nat /\ Len(table) <= MaxProcesses
  BY LenProperties DEF TypeOK
<1>4. /\ table' \in Seq(Execs) /\ Distinct(table') /\ Len(table') \in Nat
      /\ Len(table') <= Len(table)
      /\ \A d : Has(table', d) <=> Has(table, d) /\ d # c
  <2>1. /\ table' \in Seq(Execs) /\ Distinct(table')
        /\ Len(table') = IF Has(table, c) THEN Len(table) - 1 ELSE Len(table)
        /\ \A d : Has(table', d) <=> Has(table, d) /\ d # c
    BY <1>1, <1>3, WithoutIsStore
  <2>2. Len(table') \in Nat
    BY <2>1, LenProperties
  <2> QED
    BY <1>3, <2>1, <2>2
<1>11. TypeOK'
  BY <1>1, <1>2, <1>4, ExecAssumption DEF TypeOK, NetworkInv, Places
<1>12. RegistrationsOwned'
  BY <1>1, <1>4, NetworkAssumption DEF RegistrationsOwned, TypeOK, InTable, BeingCleaned
<1>13. NoOrphans'
  BY <1>1, <1>4, ExecAssumption, NetworkAssumption DEF NoOrphans, TypeOK, InTable,
     BeingCleaned, Running
<1>14. CallPlaces' /\ PolledOver' /\ NotYetEnded'
  BY <1>1 DEF CallPlaces, PolledOver, NotYetEnded, TypeOK, Running
<1>15. Fresh'
  BY <1>1, <1>4 DEF Fresh, TypeOK, InTable, BeingCleaned
<1>16. Registered' /\ CleanedApart' /\ Distinct(table')
  BY <1>1, <1>4 DEF Registered, CleanedApart, TypeOK, InTable, BeingCleaned
<1> QED
  BY <1>2, <1>11, <1>12, <1>13, <1>14, <1>15, <1>16

\* The output was collected and the entry is taken out.
LEMMA CollectedOutPreserves ==
    ASSUME IndInv, NEW c \in Execs, Collected(c), ~(proc[c] # "failed" /\ (Running(c) \/ ~InTable(c))),
           UNCHANGED <<made, prompts>>
    PROVE  IndInv'
<1> USE DEF IndInv, ExecInv
<1>1. /\ at[c] = "wait" /\ at' = [at EXCEPT ![c] = "finish"] /\ ~Running(c)
      /\ table' = Without(table, c)
      /\ UNCHANGED <<active, outcomes, proc, victim, watched, ended, polled, doomed, leaked>>
  BY DEF Collected, Move, registrations, Running
<1>2. NetworkInv'
  BY <1>1, RegistrationsPreserve DEF NetworkInv, NetworkTypeOK
<1>3. table \in Seq(Execs) /\ Distinct(table) /\ Len(table) \in Nat /\ Len(table) <= MaxProcesses
  BY LenProperties DEF TypeOK
<1>4. /\ table' \in Seq(Execs) /\ Distinct(table') /\ Len(table') \in Nat
      /\ Len(table') <= Len(table)
      /\ \A d : Has(table', d) <=> Has(table, d) /\ d # c
  <2>1. /\ table' \in Seq(Execs) /\ Distinct(table')
        /\ Len(table') = IF Has(table, c) THEN Len(table) - 1 ELSE Len(table)
        /\ \A d : Has(table', d) <=> Has(table, d) /\ d # c
    BY <1>1, <1>3, WithoutIsStore
  <2>2. Len(table') \in Nat
    BY <2>1, LenProperties
  <2> QED
    BY <1>3, <2>1, <2>2
<1>11. TypeOK'
  BY <1>1, <1>2, <1>4, ExecAssumption DEF TypeOK, NetworkInv, Places
<1>12. RegistrationsOwned'
  BY <1>1, <1>4 DEF RegistrationsOwned, TypeOK, InTable, BeingCleaned
<1>13. NoOrphans'
  BY <1>1, <1>4 DEF NoOrphans, TypeOK, InTable, BeingCleaned, Running
<1>14. CallPlaces' /\ PolledOver' /\ NotYetEnded'
  BY <1>1 DEF CallPlaces, PolledOver, NotYetEnded, TypeOK, Running
<1>15. Fresh'
  BY <1>1, <1>4 DEF Fresh, TypeOK, InTable, BeingCleaned
<1>16. Registered' /\ CleanedApart' /\ Distinct(table')
  BY <1>1, <1>4 DEF Registered, CleanedApart, TypeOK, InTable, BeingCleaned
<1> QED
  BY <1>2, <1>11, <1>12, <1>13, <1>14, <1>15, <1>16

\* The output was collected and the entry stays, or was taken out by somebody else.
LEMMA CollectedStaysPreserves ==
    ASSUME IndInv, NEW c \in Execs, Collected(c), proc[c] # "failed" /\ (Running(c) \/ ~InTable(c)),
           UNCHANGED <<made, prompts>>
    PROVE  IndInv'
<1> USE DEF IndInv, ExecInv
<1>1. /\ at[c] = "wait" /\ at' = [at EXCEPT ![c] = "done"]
      /\ UNCHANGED <<active, outcomes, proc, table, victim, watched, ended, polled, doomed, leaked>>
  BY DEF Collected, Move, registrations
<1>2. NetworkInv'
  BY <1>1, RegistrationsPreserve DEF NetworkInv, NetworkTypeOK
<1>11. TypeOK'
  BY <1>1, <1>2 DEF TypeOK, NetworkInv, Places
<1>12. RegistrationsOwned'
  BY <1>1 DEF RegistrationsOwned, TypeOK, InTable, BeingCleaned
<1>13. NoOrphans'
  BY <1>1 DEF NoOrphans, TypeOK, InTable, BeingCleaned, Running
<1>14. CallPlaces' /\ PolledOver' /\ NotYetEnded'
  BY <1>1 DEF CallPlaces, PolledOver, NotYetEnded, TypeOK, Running
<1>15. Fresh'
  BY <1>1 DEF Fresh, TypeOK, InTable, BeingCleaned
<1>16. Registered' /\ CleanedApart' /\ Distinct(table')
  BY <1>1 DEF Registered, CleanedApart, TypeOK, InTable, BeingCleaned
<1> QED
  BY <1>2, <1>11, <1>12, <1>13, <1>14, <1>15, <1>16

\* A process is put into the store; a full store loses an entry.
LEMMA StorePreserves ==
    ASSUME IndInv, NEW c \in Execs, Store(c), UNCHANGED <<made, prompts>>
    PROVE  IndInv'
<1> USE DEF IndInv, ExecInv
<1>1. /\ at[c] = "opened" /\ Running(c)
      /\ at' = [at EXCEPT ![c] = IF Pruned = None THEN "stored" ELSE "prune"]
      /\ table' = Append(Without(table, Pruned), c)
      /\ victim' = [victim EXCEPT ![c] = Pruned]
      /\ UNCHANGED <<active, outcomes, proc, watched, ended, polled, doomed, leaked>>
  BY DEF Store, Move, registrations
<1>2. NetworkInv'
  BY <1>1, RegistrationsPreserve DEF NetworkInv, NetworkTypeOK
<1>3. table \in Seq(Execs) /\ Distinct(table) /\ Len(table) \in Nat /\ Len(table) <= MaxProcesses
  BY LenProperties DEF TypeOK
<1>4. ~Has(table, c)
  BY <1>1 DEF Fresh, InTable
<1>5. \/ Pruned = None /\ Len(table) < MaxProcesses /\ ~Has(table, Pruned)
      \/ Pruned \in Execs /\ Len(table) = MaxProcesses /\ Has(table, Pruned)
  <2>1. ~Has(table, None)
    BY <1>3, ElementOfSeq, ExecAssumption, NetworkAssumption DEF Has
  <2> QED
    BY <1>3, <2>1, PrunedIsStored
<1>6. /\ table' \in Seq(Execs) /\ Distinct(table') /\ Len(table') \in Nat
      /\ Len(table') <= MaxProcesses
      /\ \A d : Has(table', d) <=> (Has(table, d) /\ d # Pruned) \/ d = c
  <2> DEFINE w == Without(table, Pruned)
  <2>1. /\ w \in Seq(Execs) /\ Distinct(w)
        /\ Len(w) = IF Has(table, Pruned) THEN Len(table) - 1 ELSE Len(table)
        /\ \A d : Has(w, d) <=> Has(table, d) /\ d # Pruned
    BY <1>3, WithoutIsStore
  <2>2. Len(w) < MaxProcesses /\ Len(w) \in Nat
    <3>1. Len(w) \in Nat
      BY <2>1, LenProperties
    <3> QED
      BY <1>3, <1>5, <2>1, <3>1, ExecAssumption
  <2> HIDE DEF w
  <2>3. /\ Append(w, c) \in Seq(Execs) /\ Distinct(Append(w, c)) /\ Len(Append(w, c)) = Len(w) + 1
        /\ \A d : Has(Append(w, c), d) <=> Has(w, d) \/ d = c
    BY <1>4, <2>1, AppendIsStore
  <2>4. table' = Append(w, c)
    BY <1>1 DEF w
  <2> QED
    BY <2>1, <2>2, <2>3, <2>4, ExecAssumption
<1>7. c \in active /\ victim[c] = None /\ \A d \in Execs : victim[d] # None => victim[d] \in Execs
  BY <1>1 DEF Registered, CallPlaces, TypeOK
<1>8. /\ at' = [at EXCEPT ![c] = IF Pruned = None THEN "stored" ELSE "prune"]
      /\ Pruned = None => victim' = victim
      /\ \A d \in Execs : victim'[d] = IF d = c THEN Pruned ELSE victim[d]
  BY <1>1, <1>7 DEF TypeOK
<1>11. TypeOK'
  BY <1>1, <1>2, <1>5, <1>6 DEF TypeOK, NetworkInv, Places
<1>12. RegistrationsOwned'
  BY <1>1, <1>6, NetworkAssumption DEF RegistrationsOwned, CallPlaces, TypeOK, InTable,
     BeingCleaned
<1>13. NoOrphans'
  BY <1>1, <1>6, ExecAssumption, NetworkAssumption DEF NoOrphans, CallPlaces, TypeOK, InTable,
     BeingCleaned, Running
<1>14. CallPlaces' /\ PolledOver' /\ NotYetEnded'
  BY <1>1, ExecAssumption DEF CallPlaces, PolledOver, NotYetEnded, Fresh, TypeOK, Running
<1>15. Fresh'
  BY <1>1, <1>5, <1>6, <1>8, ExecAssumption DEF Fresh, TypeOK, InTable, BeingCleaned
<1>16. Registered' /\ CleanedApart' /\ Distinct(table')
  BY <1>1, <1>5, <1>6, <1>8 DEF Registered, CleanedApart, Fresh, TypeOK, InTable, BeingCleaned
<1> QED
  BY <1>2, <1>11, <1>12, <1>13, <1>14, <1>15, <1>16

\* terminate_all_processes empties the store.
LEMMA TerminateAllPreserves ==
    ASSUME IndInv, TerminateAll, UNCHANGED <<made, prompts>>
    PROVE  IndInv'
<1> USE DEF IndInv, ExecInv
<1>1. /\ doomed = {} /\ doomed' = {c \in Execs : InTable(c)}
      /\ table' = <<>>
      /\ UNCHANGED <<active, outcomes, at, proc, victim, watched, ended, polled, leaked>>
  BY DEF TerminateAll, registrations
<1>2. NetworkInv'
  BY <1>1, RegistrationsPreserve DEF NetworkInv, NetworkTypeOK
<1>3. table \in Seq(Execs) /\ Distinct(table) /\ Len(table) \in Nat /\ Len(table) <= MaxProcesses
  BY LenProperties DEF TypeOK
<1>4. /\ table' \in Seq(Execs) /\ Distinct(table') /\ Len(table') = 0
      /\ \A d : ~Has(table', d)
  BY <1>1, EmptySeq DEF Distinct, Has
<1>11. TypeOK'
  BY <1>1, <1>2, ExecAssumption DEF TypeOK, NetworkInv, Places
<1>12. RegistrationsOwned'
  BY <1>1, <1>4 DEF RegistrationsOwned, TypeOK, InTable, BeingCleaned
<1>13. NoOrphans'
  BY <1>1 DEF NoOrphans, TypeOK, BeingCleaned, Running
<1>14. CallPlaces' /\ PolledOver' /\ NotYetEnded'
  BY <1>1 DEF CallPlaces, PolledOver, NotYetEnded, TypeOK, Running
<1>15. Fresh'
  BY <1>1, <1>4 DEF Fresh, TypeOK, InTable, BeingCleaned
<1>16. Registered' /\ CleanedApart' /\ Distinct(table')
  BY <1>1, <1>4 DEF Registered, CleanedApart, TypeOK, InTable
<1> QED
  BY <1>2, <1>11, <1>12, <1>13, <1>14, <1>15, <1>16

\* A one-shot call is cancelled.
LEMMA CancelShellPreserves ==
    ASSUME IndInv, NEW c \in Shells, Cancel(c), UNCHANGED <<made, prompts>>
    PROVE  IndInv'
<1> USE DEF IndInv, ExecInv
<1>1. /\ at' = [at EXCEPT ![c] = "cancelled"]
      /\ leaked' = leaked \cup {c}
      /\ UNCHANGED <<active, outcomes, proc, table, victim, watched, ended, polled, doomed>>
  BY DEF Cancel, Move, registrations
<1>2. NetworkInv'
  BY <1>1, RegistrationsPreserve DEF NetworkInv, NetworkTypeOK
<1>11. TypeOK'
  BY <1>1, <1>2, ExecAssumption DEF TypeOK, NetworkInv, Places
<1>12. RegistrationsOwned'
  BY <1>1 DEF RegistrationsOwned, TypeOK, InTable, BeingCleaned
<1>13. NoOrphans'
  BY <1>1 DEF NoOrphans, TypeOK, InTable, BeingCleaned, Running
<1>14. CallPlaces' /\ PolledOver' /\ NotYetEnded'
  BY <1>1, ExecAssumption DEF CallPlaces, PolledOver, NotYetEnded, TypeOK, Running
<1>15. Fresh'
  BY <1>1 DEF Fresh, TypeOK, InTable, BeingCleaned
<1>16. Registered' /\ CleanedApart' /\ Distinct(table')
  BY <1>1 DEF Registered, CleanedApart, TypeOK, InTable, BeingCleaned
<1> QED
  BY <1>2, <1>11, <1>12, <1>13, <1>14, <1>15, <1>16

\* An exec_command call is cancelled.
LEMMA CancelExecPreserves ==
    ASSUME IndInv, NEW c \in Execs, Cancel(c), UNCHANGED <<made, prompts>>
    PROVE  IndInv'
<1> USE DEF IndInv, ExecInv
<1>1. /\ at[c] \in {"run", "opened", "prune", "stored", "wait", "finish", "reject"}
      /\ at' = [at EXCEPT ![c] = "cancelled"]
      /\ proc' = [proc EXCEPT ![c] = IF @ = "running" /\ at[c] \in {"run", "opened"} THEN "exited" ELSE @]
      /\ victim' = [victim EXCEPT ![c] = None]
      /\ leaked' = leaked \cup (IF at[c] \in {"run", "opened", "finish"} THEN {c}
                              ELSE {victim[c]} \ {None})
      /\ UNCHANGED <<active, outcomes, table, watched, ended, polled, doomed>>
  BY ExecAssumption DEF Cancel, Starting, Move, registrations
<1>2. NetworkInv'
  BY <1>1, RegistrationsPreserve DEF NetworkInv, NetworkTypeOK
<1>11. TypeOK'
  BY <1>1, <1>2, ExecAssumption DEF TypeOK, NetworkInv, Places
<1>12. RegistrationsOwned'
  BY <1>1 DEF RegistrationsOwned, CallPlaces, TypeOK, InTable, BeingCleaned
<1>13. NoOrphans'
  BY <1>1 DEF NoOrphans, CallPlaces, TypeOK, InTable, BeingCleaned, Running
<1>14. CallPlaces' /\ PolledOver' /\ NotYetEnded'
  BY <1>1 DEF CallPlaces, PolledOver, NotYetEnded, TypeOK, Running
<1>15. Fresh'
  BY <1>1, ExecAssumption, NetworkAssumption DEF Fresh, TypeOK, InTable, BeingCleaned
<1>16. Registered' /\ CleanedApart' /\ Distinct(table')
  BY <1>1, ExecAssumption, NetworkAssumption DEF Registered, CleanedApart, TypeOK, InTable,
     BeingCleaned
<1> QED
  BY <1>2, <1>11, <1>12, <1>13, <1>14, <1>15, <1>16

-----------------------------------------------------------------------------
(* The specification. *)

\* Initially no request is under way and no command has started.
LEMMA InitIsInductive == Init => IndInv
<1> SUFFICES ASSUME Init PROVE IndInv
  OBVIOUS
<1>1. NoRequest \in RequestStates
  <2>1. <<>> \in Seq(Steps)
    OBVIOUS
  <2> QED
    BY <2>1 DEF NoRequest, RequestStates, Stages
<1>2. NetworkTypeOK /\ DecisionsExclusive
  BY <1>1 DEF Init, NetworkInit, NetworkTypeOK, DecisionsExclusive
<1>3. \A q \in Requests : RequestInv(q, req[q], pending, approved, denied)
  <2> SUFFICES ASSUME NEW q \in Requests
               PROVE  RequestInv(q, req[q], pending, approved, denied)
    OBVIOUS
  <2>1. req[q].plan = <<>> /\ req[q].pc = "idle"
    BY DEF Init, NetworkInit, NoRequest
  <2> QED
    BY <2>1, NoPlan
<1>4. table \in Seq(Execs) /\ Len(table) = 0 /\ Distinct(table) /\ \A c : ~InTable(c)
  <2>1. table = <<>> /\ Len(table) = 0
    BY DEF Init
  <2>2. 1..Len(table) = {}
    BY <2>1
  <2> QED
    BY <2>1, <2>2 DEF Distinct, InTable, Has
<1>5. TypeOK
  BY <1>2, <1>4, ExecAssumption DEF Init, TypeOK, Places
<1>6. \A c \in Execs : ~BeingCleaned(c) /\ ~Running(c) /\ at[c] = "idle"
  BY NetworkAssumption, ExecAssumption DEF Init, BeingCleaned, Running
<1>7. RegistrationsOwned /\ NoOrphans /\ CleanedApart
  BY <1>4, <1>6 DEF Init, NetworkInit, RegistrationsOwned, NoOrphans, CleanedApart
<1>8. Fresh /\ Registered /\ CallPlaces /\ PolledOver /\ NotYetEnded
  BY <1>4, <1>6 DEF Init, Fresh, Registered, CallPlaces, PolledOver, NotYetEnded
<1> QED
  BY <1>2, <1>3, <1>4, <1>5, <1>7, <1>8 DEF IndInv, NetworkInv, ExecInv

\* A step of the approval service leaves the commands and the registrations alone.
LEMMA NetworkStepPreserves ==
    ASSUME IndInv, NetworkStep, UNCHANGED execVars
    PROVE  IndInv'
<1> USE DEF IndInv, ExecInv
<1>1. NetworkInv'
  BY NetworkPreserves
<1>2. active' = active /\ UNCHANGED execVars
  BY DEF NetworkStep
<1>3. TypeOK'
  BY <1>1, <1>2 DEF TypeOK, NetworkInv, execVars
<1>4. RegistrationsOwned' /\ NoOrphans' /\ CleanedApart'
  BY <1>2 DEF execVars, RegistrationsOwned, NoOrphans, CleanedApart, InTable, BeingCleaned,
     Running
<1>5. Fresh' /\ Registered' /\ CallPlaces' /\ PolledOver' /\ NotYetEnded' /\ Distinct(table)'
  BY <1>2 DEF execVars, Fresh, Registered, CallPlaces, PolledOver, NotYetEnded, InTable,
              BeingCleaned, Running
<1> QED
  BY <1>1, <1>3, <1>4, <1>5

\* Every step of a command keeps the invariant, whichever call it belongs to.
LEMMA ExecStepPreserves ==
    ASSUME IndInv, ExecStep
    PROVE  IndInv'
<1>1. UNCHANGED <<made, prompts>>
  BY DEF ExecStep
<1>2. CASE \E c \in Calls : Begin(c) \/ Cancel(c)
  BY <1>1, <1>2, ExecAssumption, BeginPreserves, CancelShellPreserves, CancelExecPreserves
<1>3. CASE \E s \in Shells : TakeOutcome(s) \/ FinishImmediate(s)
  BY <1>1, <1>3, TakeOutcomePreserves, FinishImmediatePreserves
<1>4. CASE \E c \in Execs : OpenFails(c) \/ Opened(c) \/ Exit(c) \/ Store(c) \/ UnregisterVictim(c)
  BY <1>1, <1>4, OpenFailsPreserves, OpenedPreserves, ExitPreserves, StorePreserves,
     UnregisterVictimPreserves
<1>5. CASE \E c \in Execs : Watch(c) \/ EmitEnd(c) \/ EmitShortEnd(c) \/ Collected(c)
  BY <1>1, <1>5, WatchPreserves, EmitEndPreserves, EmitShortEndPreserves,
     CollectedOutPreserves, CollectedStaysPreserves
<1>6. CASE \E c \in Execs : FinishDeferred(c) \/ Touch(c) \/ PollRemoves(c)
  BY <1>1, <1>6, FinishDeferredPreserves, TouchPreserves, PollRemovesPreserves
<1>7. CASE PollUnregisters \/ PollCancelled \/ TerminateAll
  BY <1>1, <1>7, PollUnregistersPreserves, PollCancelledPreserves, TerminateAllPreserves
<1>8. CASE TerminateNext
  <2>1. PICK c \in doomed :
           /\ UnregisterCalls({c})
           /\ proc' = [proc EXCEPT ![c] = IF @ = "running" THEN "exited" ELSE @]
           /\ doomed' = doomed \ {c}
           /\ UNCHANGED <<at, table, victim, watched, ended, polled, leaked>>
    BY <1>8 DEF TerminateNext
  <2>2. c \in Execs
    BY DEF IndInv, ExecInv, TypeOK
  <2> QED
    BY <1>1, <2>1, <2>2, TerminatePreserves
<1> QED
  BY <1>2, <1>3, <1>4, <1>5, <1>6, <1>7, <1>8 DEF ExecStep

\* A step that changes nothing.
LEMMA StutterPreserves ==
    ASSUME IndInv, UNCHANGED vars
    PROVE  IndInv'
  BY DEF IndInv, NetworkInv, NetworkTypeOK, DecisionsExclusive, ExecInv, TypeOK,
         RegistrationsOwned, NoOrphans, Fresh, Registered, CleanedApart, CallPlaces,
         PolledOver, NotYetEnded, InTable, BeingCleaned, Running,
         vars, networkVars, serviceVars, execVars

\* The inductive invariant holds in every reachable state: whatever the calls of a
\* session, the requests of its proxy and the limits of the store.
THEOREM Inductive == Spec => []IndInv
<1>1. IndInv /\ [Next]_vars => IndInv'
  BY ExecStepPreserves, NetworkStepPreserves, StutterPreserves DEF Next
<1> QED
  BY <1>1, InitIsInductive, PTL DEF Spec

\* Types; the process store stays within MAX_UNIFIED_EXEC_PROCESSES although calls store
\* and take out entries at the same time, and no command has two end events.
THEOREM TypeCorrect == Spec => []TypeOK
<1>1. IndInv => TypeOK
  BY DEF IndInv, ExecInv
<1> QED
  BY <1>1, Inductive, PTL

\* No host is both approved and denied for the session, although session_approved_hosts and
\* session_denied_hosts are written under separate locks and an owner may be dropped.
THEOREM DecisionsAreExclusive == Spec => []DecisionsExclusive
<1>1. IndInv => DecisionsExclusive
  BY DEF IndInv, NetworkInv
<1> QED
  BY <1>1, Inductive, PTL

\* A process in the store is registered, and a registration belongs to a call that runs, to
\* the store, to a clean-up under way, or to a task that was cancelled.
THEOREM RegistrationsAreOwned == Spec => []RegistrationsOwned
<1>1. IndInv => RegistrationsOwned
  BY DEF IndInv, ExecInv
<1> QED
  BY <1>1, Inductive, PTL

\* No process runs that neither the store nor a task can still terminate, but for the entry
\* of a call that was cancelled while it pruned.
THEOREM NothingIsOrphaned == Spec => []NoOrphans
<1>1. IndInv => NoOrphans
  BY DEF IndInv, ExecInv
<1> QED
  BY <1>1, Inductive, PTL

-----------------------------------------------------------------------------
(* Refusals. *)

\* Neither the policy nor another prompt overwrites a refusal by the user.
LEMMA NetworkKeepsRefusal ==
    ASSUME NetworkTypeOK, NetworkStep, NEW s \in Calls, outcomes[s] = "user"
    PROVE  outcomes'[s] = "user"
<1>1. PICK q \in Requests : (\E h \in Hosts : Arrive(q, h)) \/ Blocked(q) \/ Handle(q) \/ Drop(q)
  BY DEF NetworkStep
<1>2. CASE Blame(q, "blameUser", "user") \/ Blame(q, "blamePolicy", "policy")
  BY <1>2 DEF Blame, NetworkTypeOK
<1>3. CASE \/ CheckDenied(q) \/ CheckApproved(q) \/ GetOrCreatePending(q) \/ Listen(q)
           \/ ReadDecision(q) \/ Park(q) \/ Wake(q) \/ PolicyDenies(q) \/ Prompt(q)
           \/ \E answer \in DOMAIN Plan \ {"policy"} : Answer(q, answer)
  <2>1. UNCHANGED outcomes
    BY <1>3 DEF CheckDenied, CheckApproved, GetOrCreatePending, Listen, ReadDecision, Park,
                Wake, PolicyDenies, Prompt, Answer
  <2> QED
    BY <2>1
<1>4. CASE \/ Undeny(q) \/ Approve(q) \/ Unapprove(q) \/ Deny(q) \/ Decide(q)
           \/ NotifyWaiters(q) \/ Forget(q) \/ Resolve(q)
  <2>1. UNCHANGED outcomes
    BY <1>4 DEF Undeny, Approve, Unapprove, Deny, Decide, NotifyWaiters, Forget, Resolve
  <2> QED
    BY <2>1
<1>5. CASE (\E h \in Hosts : Arrive(q, h)) \/ Blocked(q) \/ Drop(q)
  <2>1. UNCHANGED outcomes
    BY <1>5 DEF Arrive, Blocked, Drop
  <2> QED
    BY <2>1
<1> QED
  BY <1>1, <1>2, <1>3, <1>4, <1>5 DEF Handle

\* A call keeps its refusal while others register, unregister and finish, until it takes it.
LEMMA ExecKeepsRefusal ==
    ASSUME TypeOK, ExecStep, NEW s \in Shells, at[s] = "run", outcomes[s] = "user"
    PROVE  outcomes'[s] = "user" \/ at'[s] = "reject"
<1>1. s \in Calls /\ s \notin Execs /\ s # None /\ "user" # None
  BY ExecAssumption, NetworkAssumption
<1>2. ASSUME NEW c, c # s, UnregisterCalls({c}) PROVE outcomes'[s] = "user"
  BY <1>1, <1>2 DEF UnregisterCalls
<1>3. CASE \E c \in Shells : TakeOutcome(c)
  <2>1. PICK c \in Shells : TakeOutcome(c)
    BY <1>3
  <2>2. CASE c = s
    BY <1>1, <2>1, <2>2 DEF TakeOutcome, Move, TypeOK
  <2>3. CASE c # s
    BY <1>1, <2>1, <2>3 DEF TakeOutcome, TypeOK, NetworkTypeOK
  <2> QED
    BY <2>2, <2>3
<1>4. CASE \E c \in Shells : FinishImmediate(c)
  BY <1>2, <1>4 DEF FinishImmediate
<1>5. CASE \E c \in Execs : OpenFails(c) \/ FinishDeferred(c)
  BY <1>1, <1>2, <1>5 DEF OpenFails, FinishDeferred
<1>6. CASE \E c \in Execs : UnregisterVictim(c)
  <2>1. PICK c \in Execs : UnregisterVictim(c)
    BY <1>6
  <2>2. victim[c] # s
    BY <1>1 DEF TypeOK
  <2> QED
    BY <1>2, <2>1, <2>2 DEF UnregisterVictim
<1>7. CASE PollUnregisters
  <2>1. polled # s
    BY <1>1 DEF TypeOK
  <2> QED
    BY <1>2, <1>7, <2>1 DEF PollUnregisters
<1>8. CASE TerminateNext
  BY <1>1, <1>2, <1>8 DEF TerminateNext, TypeOK
<1>9. CASE \/ \E c \in Calls : Begin(c) \/ Cancel(c)
           \/ \E c \in Execs : \/ Opened(c) \/ Exit(c) \/ Store(c) \/ Watch(c) \/ EmitEnd(c)
                               \/ EmitShortEnd(c) \/ Collected(c) \/ Touch(c) \/ PollRemoves(c)
           \/ PollCancelled \/ TerminateAll
  <2>1. UNCHANGED outcomes
    BY <1>9 DEF Begin, RegisterCall, Cancel, Opened, Exit, Store, Watch, EmitEnd, EmitShortEnd,
                Collected, Touch, PollRemoves, PollCancelled, TerminateAll, registrations
  <2> QED
    BY <2>1
<1> QED
  BY <1>3, <1>4, <1>5, <1>6, <1>7, <1>8, <1>9 DEF ExecStep

\* A refusal by the user that was recorded for a one-shot call stays until the call takes it
\* and is rejected: record_call_outcome never replaces it, and no other call removes it.
THEOREM RefusalsAreKept == Spec => RefusalKept
<1>1. TypeOK /\ [Next]_vars =>
        \A s \in Shells : at[s] = "run" /\ outcomes[s] = "user"
                             => outcomes'[s] = "user" \/ at'[s] = "reject"
  <2> SUFFICES ASSUME TypeOK, [Next]_vars, NEW s \in Shells,
                      at[s] = "run", outcomes[s] = "user"
               PROVE  outcomes'[s] = "user" \/ at'[s] = "reject"
    OBVIOUS
  <2>1. CASE ExecStep
    BY <2>1, ExecKeepsRefusal
  <2>2. CASE NetworkStep
    BY <2>2, NetworkKeepsRefusal, ExecAssumption DEF TypeOK
  <2>3. CASE UNCHANGED vars
    BY <2>3 DEF vars, networkVars, serviceVars
  <2> QED
    BY <2>1, <2>2, <2>3 DEF Next
<1>2. IndInv => TypeOK
  BY DEF IndInv, ExecInv
<1> QED
  BY <1>1, <1>2, Inductive, PTL DEF Spec, RefusalKept
=============================================================================
