----------------------- MODULE AccountRegistryProofs -----------------------
(* What the operations on the rows of accounts.json preserve. *)
EXTENDS AccountRegistry, SequenceTheorems, WellFoundedInduction, TLAPS

\* A non-empty set of indices has a least one.
LEMMA LeastIndex ==
    ASSUME NEW S, S \subseteq Nat, S # {}
    PROVE  \E x \in S : \A y \in S : x <= y
<1>1. PICK x \in S : \A y \in S : ~ (<<y, x>> \in OpToRel(<, Nat))
  BY NatLessThanWellFounded, WFMin
<1>2. \A y \in S : ~ (y < x)
  BY <1>1 DEF OpToRel
<1>3. \A y \in S : x <= y
  <2> TAKE y \in S
  <2>1. x \in Nat /\ y \in Nat /\ ~ (y < x)
    BY <1>2
  <2> QED
    BY <2>1
<1> QED
  BY <1>3

\* The index that find returns is an index of a row with that id.
LEMMA IndexOfFinds ==
    ASSUME NEW rows \in Seq(Rows), NEW id \in Ids(rows)
    PROVE  /\ IndexOf(rows, id) \in 1..Len(rows)
           /\ rows[IndexOf(rows, id)].id = id
<1> DEFINE S == {i \in DOMAIN rows : rows[i].id = id}
<1>1. DOMAIN rows = 1..Len(rows) /\ Len(rows) \in Nat
  BY LenProperties
<1>2. S # {} /\ S \subseteq Nat
  BY <1>1 DEF Ids
<1>3. PICK x \in S : \A y \in S : x <= y
  BY <1>2, LeastIndex
<1>4. \A j \in DOMAIN rows : j < x => rows[j].id # id
  BY <1>3, <1>1
<1>5. \E i \in DOMAIN rows :
        rows[i].id = id /\ \A j \in DOMAIN rows : j < i => rows[j].id # id
  BY <1>3, <1>4
<1> QED
  BY <1>5, <1>1 DEF IndexOf

\* The first eligible row is a row.
LEMMA NextEligibleIsRow ==
    ASSUME NEW rows \in Seq(Rows), NEW exhausted, NEW current,
           Eligible(rows, exhausted, current) # {}
    PROVE  NextEligible(rows, exhausted, current) \in
               Eligible(rows, exhausted, current)
<1>1. DOMAIN rows = 1..Len(rows) /\ Len(rows) \in Nat
  BY LenProperties
<1>2. Eligible(rows, exhausted, current) \subseteq Nat
  BY <1>1 DEF Eligible
<1>3. \E i \in Eligible(rows, exhausted, current) :
        \A j \in Eligible(rows, exhausted, current) : i <= j
  BY <1>2, LeastIndex
<1> QED
  BY <1>3 DEF NextEligible

\* The row made for a credential is filed under that credential's id.
LEMMA RowForIsRow ==
    ASSUME NEW auth \in ChatgptAuths
    PROVE  /\ RowFor(auth) \in Rows
           /\ RowFor(auth).id = RegistryIdFor(auth.acct)
           /\ RowFor(auth).auth = auth
<1>1. auth.acct \in Accounts
  BY DEF ChatgptAuths
<1>2. RegistryIdFor(auth.acct) \in RegistryIds
  BY <1>1 DEF RegistryIdFor, RegistryIds
<1> QED
  BY <1>2 DEF RowFor, Rows

\* Overwriting the row of an account with a new credential of that account.
LEMMA ReplaceKeepsKeys ==
    ASSUME NEW rows \in Seq(Rows), WellKeyed(rows),
           NEW auth \in ChatgptAuths, RegistryIdFor(auth.acct) \in Ids(rows)
    PROVE  LET new == [rows EXCEPT ![IndexOf(rows, RegistryIdFor(auth.acct))] = RowFor(auth)]
           IN  new \in Seq(Rows) /\ WellKeyed(new)
<1> DEFINE k == IndexOf(rows, RegistryIdFor(auth.acct))
           new == [rows EXCEPT ![k] = RowFor(auth)]
<1>1. k \in 1..Len(rows) /\ rows[k].id = RegistryIdFor(auth.acct)
  BY IndexOfFinds
<1>2. /\ RowFor(auth) \in Rows
      /\ RowFor(auth).id = RegistryIdFor(auth.acct)
      /\ RowFor(auth).auth = auth
  BY RowForIsRow
<1>3. /\ new \in Seq(Rows)
      /\ Len(new) = Len(rows)
      /\ \A j \in 1..Len(rows) : new[j] = IF j = k THEN RowFor(auth) ELSE rows[j]
  BY <1>1, <1>2, ExceptSeq
<1>4. DOMAIN new = 1..Len(rows) /\ DOMAIN rows = 1..Len(rows)
  BY <1>3, LenProperties
<1>5. \A j \in 1..Len(rows) : new[j].id = rows[j].id
  BY <1>1, <1>2, <1>3
<1>6. UniqueIds(new)
  BY <1>4, <1>5 DEF WellKeyed, UniqueIds
<1>7. FiledUnderOwnId(new)
  BY <1>2, <1>3, <1>4 DEF WellKeyed, FiledUnderOwnId
<1> QED
  BY <1>3, <1>6, <1>7 DEF WellKeyed

\* upsert_saved_chatgpt_account keeps the ids distinct and the rows in place.
THEOREM UpsertKeepsKeys ==
    ASSUME NEW rows \in Seq(Rows), WellKeyed(rows), NEW auth \in ChatgptAuths
    PROVE  Upsert(rows, auth) \in Seq(Rows) /\ WellKeyed(Upsert(rows, auth))
<1>1. CASE RegistryIdFor(auth.acct) \in Ids(rows)
  BY <1>1, ReplaceKeepsKeys DEF Upsert
<1>2. CASE RegistryIdFor(auth.acct) \notin Ids(rows)
  <2> DEFINE new == Append(rows, RowFor(auth))
  <2>1. /\ RowFor(auth) \in Rows
        /\ RowFor(auth).id = RegistryIdFor(auth.acct)
        /\ RowFor(auth).auth = auth
    BY RowForIsRow
  <2>2. /\ new \in Seq(Rows)
        /\ Len(new) = Len(rows) + 1
        /\ \A i \in 1..Len(rows) : new[i] = rows[i]
        /\ new[Len(rows) + 1] = RowFor(auth)
    BY <2>1, AppendProperties
  <2>3. /\ DOMAIN new = 1..(Len(rows) + 1) /\ DOMAIN rows = 1..Len(rows)
        /\ Len(rows) \in Nat
    BY <2>2, LenProperties
  <2>4. \A i \in 1..Len(rows) : rows[i].id # RegistryIdFor(auth.acct)
    BY <1>2, <2>3 DEF Ids
  <2>5. UniqueIds(new)
    <3> SUFFICES ASSUME NEW i \in DOMAIN new, NEW j \in DOMAIN new,
                        new[i].id = new[j].id
                 PROVE  i = j
      BY DEF UniqueIds
    <3>1. CASE i \in 1..Len(rows) /\ j \in 1..Len(rows)
      <4>1. new[i] = rows[i] /\ new[j] = rows[j]
        BY <3>1, <2>2
      <4> QED
        BY <4>1, <3>1, <2>3 DEF WellKeyed, UniqueIds
    <3>2. CASE i = Len(rows) + 1 \/ j = Len(rows) + 1
      BY <3>2, <2>1, <2>2, <2>3, <2>4
    <3> QED
      BY <3>1, <3>2, <2>3
  <2>6. FiledUnderOwnId(new)
    <3> SUFFICES ASSUME NEW i \in DOMAIN new
                 PROVE  new[i].id = RegistryIdFor(new[i].auth.acct)
      BY DEF FiledUnderOwnId
    <3>1. CASE i \in 1..Len(rows)
      BY <3>1, <2>2, <2>3 DEF WellKeyed, FiledUnderOwnId
    <3>2. CASE i = Len(rows) + 1
      BY <3>2, <2>1, <2>2
    <3> QED
      BY <3>1, <3>2, <2>3
  <2>7. Upsert(rows, auth) = new
    BY <1>2 DEF Upsert
  <2> QED
    BY <2>2, <2>5, <2>6, <2>7 DEF WellKeyed
<1> QED
  BY <1>1, <1>2

\* update_saved_chatgpt_account_if_exists keeps them too, and adds no row.
THEOREM UpdateKeepsKeys ==
    ASSUME NEW rows \in Seq(Rows), WellKeyed(rows), NEW auth \in ChatgptAuths
    PROVE  UpdateIfExists(rows, auth) \in Seq(Rows) /\ WellKeyed(UpdateIfExists(rows, auth))
<1>1. CASE RegistryIdFor(auth.acct) \in Ids(rows)
  BY <1>1, ReplaceKeepsKeys DEF UpdateIfExists
<1>2. CASE RegistryIdFor(auth.acct) \notin Ids(rows)
  BY <1>2 DEF UpdateIfExists
<1> QED
  BY <1>1, <1>2

\* remove_saved_chatgpt_account keeps the ids distinct and drops the id.
THEOREM RetainKeepsKeys ==
    ASSUME NEW rows \in Seq(Rows), WellKeyed(rows), NEW id
    PROVE  /\ Retain(rows, id) \in Seq(Rows)
           /\ WellKeyed(Retain(rows, id))
           /\ id \notin Ids(Retain(rows, id))
<1>1. CASE id \notin Ids(rows)
  BY <1>1 DEF Retain
<1>2. CASE id \in Ids(rows)
  <2> DEFINE k == IndexOf(rows, id)
             n == Len(rows)
             a == SubSeq(rows, 1, k - 1)
             b == SubSeq(rows, k + 1, n)
             new == a \o b
             old(i) == IF i < k THEN i ELSE i + 1
  <2>1. k \in 1..n /\ rows[k].id = id /\ n \in Nat /\ DOMAIN rows = 1..n
    BY <1>2, IndexOfFinds, LenProperties
  <2>2. \A i \in 1..n : rows[i] \in Rows
    BY ElementOfSeq
  <2>3. /\ a \in Seq(Rows) /\ Len(a) = k - 1
        /\ \A i \in 1..(k - 1) : a[i] = rows[i]
    <3>1. \A i \in 1..(k - 1) : rows[i] \in Rows
      BY <2>1, <2>2
    <3>2. k - 1 \in Int /\ 1 \in Int
      BY <2>1
    <3>3. /\ a \in Seq(Rows)
          /\ Len(a) = IF 1 <= k - 1 THEN (k - 1) - 1 + 1 ELSE 0
          /\ \A i \in 1..((k - 1) - 1 + 1) : a[i] = rows[1 + i - 1]
      BY <3>1, <3>2, SubSeqProperties
    <3>4. \A i \in 1..(k - 1) : 1 + i - 1 = i
      BY <3>2
    <3>5. 1..((k - 1) - 1 + 1) = 1..(k - 1)
      BY <2>1
    <3> QED
      BY <3>3, <3>4, <3>5, <2>1
  <2>4. /\ b \in Seq(Rows) /\ Len(b) = n - k
        /\ \A i \in 1..(n - k) : b[i] = rows[k + i]
    <3>1. \A i \in (k + 1)..n : rows[i] \in Rows
      BY <2>1, <2>2
    <3>2. k + 1 \in Int /\ n \in Int
      BY <2>1
    <3>3. /\ b \in Seq(Rows)
          /\ Len(b) = IF k + 1 <= n THEN n - (k + 1) + 1 ELSE 0
          /\ \A i \in 1..(n - (k + 1) + 1) : b[i] = rows[(k + 1) + i - 1]
      BY <3>1, <3>2, SubSeqProperties
    <3>4. \A i \in 1..(n - k) : (k + 1) + i - 1 = k + i
      BY <2>1
    <3>5. 1..(n - (k + 1) + 1) = 1..(n - k)
      BY <2>1
    <3> QED
      BY <3>3, <3>4, <3>5, <2>1
  <2>5. /\ new \in Seq(Rows)
        /\ Len(new) = n - 1
        /\ \A i \in 1..(n - 1) : new[i] = IF i <= Len(a) THEN a[i] ELSE b[i - Len(a)]
    <3>1. /\ new \in Seq(Rows)
          /\ Len(new) = Len(a) + Len(b)
          /\ \A i \in 1..(Len(a) + Len(b)) :
                 new[i] = IF i <= Len(a) THEN a[i] ELSE b[i - Len(a)]
      BY <2>3, <2>4, ConcatProperties
    <3>2. Len(a) + Len(b) = n - 1
      BY <2>1, <2>3, <2>4
    <3> QED
      BY <3>1, <3>2
  <2>6. \A i \in 1..(n - 1) : new[i] = rows[old(i)]
    <3> SUFFICES ASSUME NEW i \in 1..(n - 1) PROVE new[i] = rows[old(i)]
      OBVIOUS
    <3>1. CASE i < k
      <4>1. i \in 1..(k - 1) /\ i <= Len(a)
        BY <3>1, <2>1, <2>3
      <4> QED
        BY <4>1, <3>1, <2>3, <2>5
    <3>2. CASE ~(i < k)
      <4>1. i - (k - 1) \in 1..(n - k) /\ ~(i <= Len(a))
        BY <3>2, <2>1, <2>3
      <4>2. new[i] = b[i - (k - 1)]
        BY <4>1, <2>3, <2>5
      <4>3. b[i - (k - 1)] = rows[k + (i - (k - 1))]
        BY <4>1, <2>4
      <4>4. k + (i - (k - 1)) = i + 1
        BY <2>1
      <4> QED
        BY <4>2, <4>3, <4>4, <3>2
    <3> QED
      BY <3>1, <3>2
  <2>7. DOMAIN new = 1..(n - 1)
    BY <2>5, LenProperties
  <2>8. /\ \A i \in 1..(n - 1) : old(i) \in 1..n /\ old(i) # k
        /\ \A i, j \in 1..(n - 1) : old(i) = old(j) => i = j
    BY <2>1
  <2>9. UniqueIds(new)
    <3> HIDE DEF new, old, k, n
    <3> QED
      BY <2>1, <2>6, <2>7, <2>8 DEF WellKeyed, UniqueIds
  <2>10. FiledUnderOwnId(new)
    <3> HIDE DEF new, old, k, n
    <3> QED
      BY <2>1, <2>6, <2>7, <2>8 DEF WellKeyed, FiledUnderOwnId
  <2>11. id \notin Ids(new)
    <3> HIDE DEF new, old, k, n
    <3> QED
      BY <2>1, <2>6, <2>7, <2>8 DEF WellKeyed, UniqueIds, Ids
  <2>12. Retain(rows, id) = new
    BY <1>2 DEF Retain
  <2> QED
    BY <2>5, <2>9, <2>10, <2>11, <2>12 DEF WellKeyed
<1> QED
  BY <1>1, <1>2
=============================================================================
