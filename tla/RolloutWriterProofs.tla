------------------------- MODULE RolloutWriterProofs -------------------------
(***************************************************************************)
(* The rollout recorder for any items, callers, channel capacity and any   *)
(* number of faults and crashes: nothing is lost or repeated on the way to *)
(* the file, and the recorder implements Transcript.                       *)
(***************************************************************************)
EXTENDS RolloutWriter, SequenceTheorems, TLAPS

----------------------------------------------------------------------------
(* The items read off the file. *)

\* A function on 1..k is a sequence of length k.
LEMMA LenOfFunction ==
    ASSUME NEW S, NEW k \in Nat, NEW f \in [1..k -> S]
    PROVE  f \in Seq(S) /\ Len(f) = k
<1>1. f \in Seq(S)
  BY SeqDef
<1>2. Len(f) \in Nat /\ 1..Len(f) = 1..k
  BY <1>1, LenProperties
<1>3. Len(f) <= k
  <2>1. CASE Len(f) = 0
    BY <2>1
  <2>2. CASE Len(f) # 0
    <3>1. Len(f) \in 1..Len(f)
      BY <1>2, <2>2
    <3>2. Len(f) \in 1..k
      BY <1>2, <3>1
    <3> QED
      BY <3>2
  <2> QED
    BY <2>1, <2>2
<1>4. k <= Len(f)
  <2>1. CASE k = 0
    BY <1>2, <2>1
  <2>2. CASE k # 0
    <3>1. k \in 1..k
      BY <2>2
    <3>2. k \in 1..Len(f)
      BY <1>2, <3>1
    <3> QED
      BY <3>2
  <2> QED
    BY <2>1, <2>2
<1> QED
  BY <1>1, <1>2, <1>3, <1>4

\* Everything after the first line is an item.
LEMMA ItemsOfFile ==
    ASSUME NEW f \in Seq(Lines), HasMetaFirst(f)
    PROVE  /\ ItemsOf(f) \in Seq(Items) /\ Len(ItemsOf(f)) \in Nat
           /\ Len(ItemsOf(f)) = IF f = <<>> THEN 0 ELSE Len(f) - 1
           /\ \A n \in 1..Len(ItemsOf(f)) : ItemsOf(f)[n] = f[n + 1].item
<1> DEFINE k == IF f = <<>> THEN 0 ELSE Len(f) - 1
<1>1. /\ Len(f) \in Nat /\ (f = <<>> => Len(f) = 0)
      /\ (f # <<>> => Len(f) > 0)
  BY EmptySeq, LenProperties
<1>2. k \in Nat /\ 1..(Len(f) - 1) = 1..k
  BY <1>1
<1>3. \A n \in 1..k : f[n + 1].item \in Items
  <2> TAKE n \in 1..k
  <2>1. n + 1 \in 1..Len(f) /\ n + 1 # 1
    BY <1>1, <1>2
  <2>2. f[n + 1] \in Lines /\ f[n + 1].item # Meta
    BY <2>1, ElementOfSeq DEF HasMetaFirst
  <2> QED
    BY <2>2 DEF Lines
<1> HIDE DEF k
<1>4. ItemsOf(f) = [n \in 1..k |-> f[n + 1].item]
  BY <1>2 DEF ItemsOf
<1>5. ItemsOf(f) \in [1..k -> Items]
  BY <1>3, <1>4
<1>6. ItemsOf(f) \in Seq(Items) /\ Len(ItemsOf(f)) = k
  BY <1>2, <1>5, LenOfFunction
<1> QED
  BY <1>2, <1>4, <1>6 DEF k

\* A line behind the first one adds its item.
LEMMA ItemsOfAppend ==
    ASSUME NEW f \in Seq(Lines), HasMetaFirst(f), f # <<>>,
           NEW l \in Lines, l.item \in Items
    PROVE  LET g == Append(f, l)
           IN  /\ g \in Seq(Lines) /\ g # <<>> /\ HasMetaFirst(g)
               /\ ItemsOf(g) = Append(ItemsOf(f), l.item)
               /\ Len(ItemsOf(g)) = Len(ItemsOf(f)) + 1
               /\ \A n \in 1..Len(ItemsOf(f)) : ItemsOf(g)[n] = ItemsOf(f)[n]
               /\ ItemsOf(g)[Len(ItemsOf(f)) + 1] = l.item
<1> DEFINE g == Append(f, l)
           old == ItemsOf(f)
           new == ItemsOf(g)
<1>1. /\ g \in Seq(Lines) /\ Len(g) = Len(f) + 1 /\ g # <<>>
      /\ \A n \in 1..Len(f) : g[n] = f[n]
      /\ g[Len(f) + 1] = l
  BY AppendProperties
<1>2. Len(f) \in Nat \ {0}
  BY EmptySeq
<1> HIDE DEF g
<1>3. HasMetaFirst(g)
  <2> SUFFICES ASSUME NEW n \in 1..(Len(f) + 1)
               PROVE  g[n].item = Meta <=> n = 1
    BY <1>1 DEF HasMetaFirst
  <2>1. CASE n \in 1..Len(f)
    BY <1>1, <2>1 DEF HasMetaFirst
  <2>2. CASE n = Len(f) + 1
    BY <1>1, <1>2, <2>2, RolloutAssumption
  <2> QED
    BY <1>2, <2>1, <2>2
<1>4. /\ old \in Seq(Items) /\ Len(old) = Len(f) - 1
      /\ \A n \in 1..Len(old) : old[n] = f[n + 1].item
  BY ItemsOfFile
<1>5. /\ new \in Seq(Items) /\ Len(new) = Len(f)
      /\ \A n \in 1..Len(new) : new[n] = g[n + 1].item
  <2>1. /\ new \in Seq(Items)
        /\ Len(new) = IF g = <<>> THEN 0 ELSE Len(g) - 1
        /\ \A n \in 1..Len(new) : new[n] = g[n + 1].item
    BY <1>1, <1>3, ItemsOfFile
  <2> QED
    BY <1>1, <1>2, <2>1
<1> HIDE DEF old, new
<1>6. \A n \in 1..Len(old) : new[n] = old[n]
  <2> TAKE n \in 1..Len(old)
  <2>1. n \in 1..Len(new) /\ n + 1 \in 1..Len(f)
    BY <1>2, <1>4, <1>5
  <2> QED
    BY <1>1, <1>4, <1>5, <2>1
<1>7. new[Len(old) + 1] = l.item
  <2>1. Len(old) + 1 \in 1..Len(new) /\ Len(old) + 1 + 1 = Len(f) + 1
    BY <1>2, <1>4, <1>5
  <2> QED
    BY <1>1, <1>5, <2>1
<1>8. new = Append(old, l.item)
  <2> DEFINE a == Append(old, l.item)
  <2>1. /\ a \in Seq(Items) /\ Len(a) = Len(old) + 1
        /\ \A n \in 1..Len(old) : a[n] = old[n]
        /\ a[Len(old) + 1] = l.item
    BY <1>4, AppendProperties
  <2> HIDE DEF a
  <2>2. Len(new) = Len(a)
    BY <1>2, <1>4, <1>5, <2>1
  <2>3. \A n \in 1..Len(new) : new[n] = a[n]
    <3> TAKE n \in 1..Len(new)
    <3>1. n \in 1..Len(old) \/ n = Len(old) + 1
      BY <1>2, <1>4, <1>5
    <3> QED
      BY <1>6, <1>7, <2>1, <3>1
  <2>4. new = a
    BY <1>5, <2>1, <2>2, <2>3, SeqEqual
  <2> QED
    BY <2>4 DEF a
<1> QED
  BY <1>1, <1>2, <1>3, <1>4, <1>5, <1>6, <1>7, <1>8 DEF g, old, new

\* The SessionMeta line adds none.
LEMMA ItemsOfMeta ==
    ASSUME NEW l \in Lines, l.item = Meta
    PROVE  LET g == Append(<<>>, l)
           IN  /\ g \in Seq(Lines) /\ g # <<>> /\ HasMetaFirst(g)
               /\ ItemsOf(g) = <<>> /\ ItemsOf(<<>>) = <<>>
<1> DEFINE g == Append(<<>>, l)
<1>1. <<>> \in Seq(Lines) /\ Len(<<>>) = 0 /\ HasMetaFirst(<<>>)
  BY EmptySeq DEF HasMetaFirst
<1>2. /\ g \in Seq(Lines) /\ Len(g) = 1 /\ g # <<>> /\ g[1] = l
  BY <1>1, AppendProperties
<1> HIDE DEF g
<1>3. HasMetaFirst(g)
  BY <1>2 DEF HasMetaFirst
<1>4. /\ ItemsOf(g) \in Seq(Items) /\ Len(ItemsOf(g)) = 0
      /\ ItemsOf(<<>>) \in Seq(Items) /\ Len(ItemsOf(<<>>)) = 0
  BY <1>1, <1>2, <1>3, ItemsOfFile
<1>5. ItemsOf(g) = <<>> /\ ItemsOf(<<>>) = <<>>
  BY <1>4, EmptySeq
<1> QED
  BY <1>2, <1>3, <1>5 DEF g

----------------------------------------------------------------------------
(* One item or command moves on. *)

\* The numbers of an order.
LEMMA SentIsNat ==
    ASSUME NEW st \in Seq(Items), NEW p \in Seq(Items), NEW c \in Seq(Commands)
    PROVE  /\ Len(st) \in Nat /\ Len(p) \in Nat /\ Len(c) \in Nat
           /\ \A k \in 1..Len(c) : c[k] \in Commands /\ c[k].upto \in Nat
           /\ \A k \in 0..Len(c) : Sent(st, p, c, k) \in Nat
<1>1. Len(st) \in Nat /\ Len(p) \in Nat /\ Len(c) \in Nat
  BY LenProperties
<1>2. \A k \in 1..Len(c) : c[k] \in Commands /\ c[k].upto \in Nat
  <2> TAKE k \in 1..Len(c)
  <2>1. c[k] \in Commands
    BY ElementOfSeq
  <2> QED
    BY <2>1 DEF Commands
<1>3. \A k \in 0..Len(c) : Sent(st, p, c, k) \in Nat
  <2> TAKE k \in 0..Len(c)
  <2>1. CASE k = 0
    BY <1>1, <2>1 DEF Sent
  <2>2. CASE k # 0
    <3>1. k \in 1..Len(c)
      BY <1>1, <2>2
    <3> QED
      BY <1>2, <2>2, <3>1 DEF Sent
  <2> QED
    BY <2>1, <2>2
<1> QED
  BY <1>1, <1>2, <1>3

\* A command sent last, about what is submitted by then, t.
LEMMA OrderSend ==
    ASSUME NEW st \in Seq(Items), NEW p \in Seq(Items), NEW c \in Seq(Commands),
           NEW s \in Seq(Items), NEW t \in Seq(Items), NEW m \in Commands,
           InOrder(st, p, c, s), Bounded(st, p, c, s),
           \/ m.op # "add" /\ m.upto = Len(s) /\ t = s
           \/ /\ m.op = "add" /\ m.upto = Len(s) + 1 /\ m.item \in Items
              /\ t = Append(s, m.item)
    PROVE  InOrder(st, p, Append(c, m), t) /\ Bounded(st, p, Append(c, m), t)
<1> DEFINE d == Append(c, m)
<1>1. /\ Len(st) \in Nat /\ Len(p) \in Nat /\ Len(c) \in Nat /\ Len(s) \in Nat
      /\ \A k \in 1..Len(c) : c[k].upto \in Nat
      /\ \A k \in 0..Len(c) : Sent(st, p, c, k) \in Nat
  BY SentIsNat, LenProperties
<1>2. /\ Len(d) = Len(c) + 1 /\ d[Len(c) + 1] = m
      /\ \A k \in 1..Len(c) : d[k] = c[k]
  BY AppendProperties
<1>3. /\ Len(t) = m.upto /\ Len(s) <= Len(t)
      /\ \A k \in 1..Len(s) : t[k] = s[k]
      /\ m.op = "add" => Len(t) = Len(s) + 1 /\ t[Len(t)] = m.item
      /\ m.op # "add" => Len(t) = Len(s)
  <2>1. CASE m.op # "add"
    BY <1>1, <2>1
  <2>2. CASE m.op = "add"
    <3>1. /\ Len(t) = Len(s) + 1 /\ t[Len(s) + 1] = m.item
          /\ \A k \in 1..Len(s) : t[k] = s[k]
      BY <2>2, AppendProperties
    <3> QED
      BY <1>1, <2>2, <3>1
  <2> QED
    BY <2>1, <2>2
<1> HIDE DEF d
<1>4. \A k \in 0..Len(c) : Sent(st, p, d, k) = Sent(st, p, c, k)
  <2> TAKE k \in 0..Len(c)
  <2>1. k # 0 => k \in 1..Len(c)
    BY <1>1
  <2> QED
    BY <1>2, <2>1 DEF Sent
<1>5. Sent(st, p, d, Len(c)) = Len(s) /\ Sent(st, p, d, Len(c) + 1) = Len(t)
  <2>1. Len(c) \in 0..Len(c) /\ Len(c) + 1 # 0
    BY <1>1
  <2> QED
    BY <1>2, <1>3, <1>4, <2>1 DEF Sent, InOrder
<1>6. Bounded(st, p, d, t)
  <2> SUFFICES ASSUME NEW k \in 0..(Len(c) + 1) PROVE Sent(st, p, d, k) <= Len(t)
    BY <1>2 DEF Bounded
  <2>1. CASE k \in 0..Len(c)
    <3>1. Sent(st, p, c, k) <= Len(s) /\ Sent(st, p, c, k) \in Nat
      BY <1>1, <2>1 DEF Bounded
    <3>2. Len(t) \in Nat
      BY LenProperties
    <3> QED
      BY <1>1, <1>3, <1>4, <2>1, <3>1, <3>2
  <2>2. CASE k = Len(c) + 1
    <3>1. Len(t) \in Nat
      BY LenProperties
    <3> QED
      BY <1>5, <2>2, <3>1
  <2> QED
    BY <1>1, <2>1, <2>2
<1>7. Len(st) + Len(p) <= Len(s)
  <2>1. 0 \in 0..Len(c)
    BY <1>1
  <2> QED
    BY <2>1 DEF Bounded, Sent
<1>8. /\ \A n \in 1..Len(st) : t[n] = st[n]
      /\ \A n \in 1..Len(p) : t[Len(st) + n] = p[n]
  <2>1. ASSUME NEW n \in 1..Len(st) PROVE t[n] = st[n]
    <3>1. n \in 1..Len(s)
      BY <1>1, <1>7
    <3> QED
      BY <1>3, <3>1 DEF InOrder
  <2>2. ASSUME NEW n \in 1..Len(p) PROVE t[Len(st) + n] = p[n]
    <3>1. Len(st) + n \in 1..Len(s)
      BY <1>1, <1>7
    <3> QED
      BY <1>3, <3>1 DEF InOrder
  <2> QED
    BY <2>1, <2>2
<1>9. ASSUME NEW k \in 1..(Len(c) + 1)
      PROVE  IF d[k].op = "add"
             THEN d[k].upto = Sent(st, p, d, k - 1) + 1 /\ t[d[k].upto] = d[k].item
             ELSE d[k].upto = Sent(st, p, d, k - 1)
  <2>1. CASE k \in 1..Len(c)
    <3>1. k - 1 \in 0..Len(c) /\ k \in 0..Len(c) /\ k # 0 /\ d[k] = c[k]
      BY <1>1, <1>2, <2>1
    <3>2. /\ Sent(st, p, d, k - 1) = Sent(st, p, c, k - 1)
          /\ Sent(st, p, c, k - 1) \in Nat
      BY <1>1, <1>4, <3>1
    <3>3. c[k].upto <= Len(s)
      BY <3>1 DEF Bounded, Sent
    <3>4. CASE c[k].op = "add"
      <4>1. c[k].upto = Sent(st, p, c, k - 1) + 1 /\ s[c[k].upto] = c[k].item
        BY <2>1, <3>4 DEF InOrder
      <4>2. c[k].upto \in 1..Len(s)
        BY <1>1, <3>2, <3>3, <4>1
      <4> QED
        BY <1>3, <3>1, <3>2, <3>4, <4>1, <4>2
    <3>5. CASE c[k].op # "add"
      BY <2>1, <3>1, <3>2, <3>5 DEF InOrder
    <3> QED
      BY <3>4, <3>5
  <2>2. CASE k = Len(c) + 1
    <3>1. d[k] = m /\ Sent(st, p, d, k - 1) = Len(s)
      <4>1. k - 1 = Len(c)
        BY <1>1, <2>2
      <4> QED
        BY <1>2, <1>5, <2>2, <4>1
    <3>2. CASE m.op = "add"
      BY <1>3, <3>1, <3>2
    <3>3. CASE m.op # "add"
      BY <1>3, <3>1, <3>3
    <3> QED
      BY <3>2, <3>3
  <2>3. k \in 1..Len(c) \/ k = Len(c) + 1
    <3>1. Len(c) \in Nat
      BY <1>1
    <3> QED
      BY <3>1
  <2> QED
    BY <2>1, <2>2, <2>3
<1>10. InOrder(st, p, d, t)
  BY <1>2, <1>5, <1>8, <1>9 DEF InOrder
<1> QED
  BY <1>6, <1>10 DEF d

\* The first command leaves the channel: q is what is pending behind it.
LEMMA OrderTake ==
    ASSUME NEW st \in Seq(Items), NEW p \in Seq(Items), NEW c \in Seq(Commands),
           NEW s \in Seq(Items), NEW q \in Seq(Items),
           InOrder(st, p, c, s), Bounded(st, p, c, s), c # <<>>,
           \/ Head(c).op # "add" /\ q = p
           \/ Head(c).op = "add" /\ Head(c).item \in Items /\ q = Append(p, Head(c).item)
    PROVE  /\ InOrder(st, q, Tail(c), s) /\ Bounded(st, q, Tail(c), s)
           /\ Head(c).upto = Len(st) + Len(q)
<1> DEFINE d == Tail(c)
           h == Head(c)
<1>1. /\ Len(st) \in Nat /\ Len(p) \in Nat /\ Len(c) \in Nat /\ Len(s) \in Nat
      /\ \A k \in 0..Len(c) : Sent(st, p, c, k) \in Nat
  BY SentIsNat, LenProperties
<1>2. /\ Len(c) > 0 /\ Len(d) = Len(c) - 1
      /\ \A k \in 1..Len(d) : d[k] = c[k + 1]
      /\ h = c[1]
  BY EmptySeq, HeadTailProperties
<1> HIDE DEF d, h
<1>3. 1 \in 1..Len(c) /\ 0 \in 0..Len(c) /\ 1 \in 0..Len(c)
  BY <1>1, <1>2
<1>4. Sent(st, p, c, 0) = Len(st) + Len(p) /\ Sent(st, p, c, 1) = h.upto
  BY <1>2 DEF Sent
<1>5. /\ h.op = "add" => h.upto = Len(st) + Len(p) + 1 /\ s[h.upto] = h.item
      /\ h.op # "add" => h.upto = Len(st) + Len(p)
  <2>1. IF c[1].op = "add"
        THEN c[1].upto = Sent(st, p, c, 1 - 1) + 1 /\ s[c[1].upto] = c[1].item
        ELSE c[1].upto = Sent(st, p, c, 1 - 1)
    BY <1>3 DEF InOrder
  <2> QED
    BY <1>2, <1>4, <2>1
<1>6. /\ Len(q) \in Nat /\ h.upto = Len(st) + Len(q)
      /\ \A n \in 1..Len(q) : s[Len(st) + n] = q[n]
  <2>1. CASE h.op # "add"
    BY <1>1, <1>5, <2>1 DEF InOrder, h
  <2>2. CASE h.op = "add"
    <3>1. /\ Len(q) = Len(p) + 1 /\ q[Len(p) + 1] = h.item
          /\ \A n \in 1..Len(p) : q[n] = p[n]
      BY <2>2, AppendProperties DEF h
    <3>2. h.upto = Len(st) + (Len(p) + 1)
      BY <1>1, <1>5, <2>2
    <3>3. ASSUME NEW n \in 1..(Len(p) + 1) PROVE s[Len(st) + n] = q[n]
      <4>1. CASE n \in 1..Len(p)
        BY <3>1, <4>1 DEF InOrder
      <4>2. CASE n = Len(p) + 1
        BY <1>5, <2>2, <3>1, <3>2, <4>2
      <4> QED
        BY <1>1, <4>1, <4>2
    <3> QED
      BY <1>1, <3>1, <3>2, <3>3
  <2> QED
    BY <2>1, <2>2
<1>7. \A k \in 0..Len(d) : Sent(st, q, d, k) = Sent(st, p, c, k + 1)
  <2> TAKE k \in 0..Len(d)
  <2>1. CASE k = 0
    BY <1>4, <1>6, <2>1 DEF Sent
  <2>2. CASE k # 0
    <3>1. k \in 1..Len(d) /\ k + 1 # 0
      BY <1>1, <1>2, <2>2
    <3> QED
      BY <1>2, <2>2, <3>1 DEF Sent
  <2> QED
    BY <2>1, <2>2
<1>8. Bounded(st, q, d, s)
  <2> SUFFICES ASSUME NEW k \in 0..Len(d) PROVE Sent(st, q, d, k) <= Len(s)
    BY DEF Bounded
  <2>1. k + 1 \in 0..Len(c)
    BY <1>1, <1>2
  <2> QED
    BY <1>7, <2>1 DEF Bounded
<1>9. ASSUME NEW k \in 1..Len(d)
      PROVE  IF d[k].op = "add"
             THEN d[k].upto = Sent(st, q, d, k - 1) + 1 /\ s[d[k].upto] = d[k].item
             ELSE d[k].upto = Sent(st, q, d, k - 1)
  <2>1. k + 1 \in 1..Len(c) /\ k - 1 \in 0..Len(d) /\ k - 1 + 1 = k /\ k + 1 - 1 = k
    BY <1>1, <1>2
  <2>2. IF c[k + 1].op = "add"
        THEN /\ c[k + 1].upto = Sent(st, p, c, k + 1 - 1) + 1
             /\ s[c[k + 1].upto] = c[k + 1].item
        ELSE c[k + 1].upto = Sent(st, p, c, k + 1 - 1)
    BY <2>1 DEF InOrder
  <2>3. d[k] = c[k + 1] /\ Sent(st, q, d, k - 1) = Sent(st, p, c, k + 1 - 1)
    BY <1>2, <1>7, <2>1
  <2> QED
    BY <2>2, <2>3
<1>10. Sent(st, q, d, Len(d)) = Len(s)
  <2>1. Len(d) \in 0..Len(d) /\ Len(d) + 1 = Len(c)
    BY <1>1, <1>2
  <2> QED
    BY <1>7, <2>1 DEF InOrder
<1>11. InOrder(st, q, d, s)
  BY <1>6, <1>9, <1>10 DEF InOrder
<1> QED
  BY <1>6, <1>8, <1>11 DEF d, h

\* The first pending item is written: it is the next of the submitted ones.
LEMMA OrderWrite ==
    ASSUME NEW st \in Seq(Items), NEW p \in Seq(Items), NEW c \in Seq(Commands),
           NEW s \in Seq(Items), p # <<>>,
           InOrder(st, p, c, s), Bounded(st, p, c, s)
    PROVE  LET w == Append(st, Head(p))
           IN  /\ InOrder(w, Tail(p), c, s) /\ Bounded(w, Tail(p), c, s)
               /\ Len(st) < Len(s) /\ s[Len(st) + 1] = Head(p)
               /\ Len(w) + Len(Tail(p)) = Len(st) + Len(p)
<1> DEFINE w == Append(st, Head(p))
           q == Tail(p)
<1>1. /\ Len(st) \in Nat /\ Len(p) \in Nat /\ Len(c) \in Nat /\ Len(s) \in Nat
  BY LenProperties
<1>2. /\ Len(p) > 0 /\ Len(q) = Len(p) - 1 /\ Head(p) \in Items
      /\ \A n \in 1..Len(q) : q[n] = p[n + 1]
      /\ Head(p) = p[1]
  BY EmptySeq, HeadTailProperties
<1>3. /\ Len(w) = Len(st) + 1 /\ w[Len(st) + 1] = Head(p)
      /\ \A n \in 1..Len(st) : w[n] = st[n]
  BY <1>2, AppendProperties
<1> HIDE DEF w, q
<1>4. Len(w) + Len(q) = Len(st) + Len(p)
  BY <1>1, <1>2, <1>3
<1>5. \A k : Sent(w, q, c, k) = Sent(st, p, c, k)
  BY <1>4 DEF Sent
<1>6. Bounded(w, q, c, s)
  BY <1>5 DEF Bounded
<1>7. s[Len(st) + 1] = Head(p) /\ Len(st) < Len(s)
  <2>1. 1 \in 1..Len(p) /\ 0 \in 0..Len(c)
    BY <1>1, <1>2
  <2>2. Len(st) + Len(p) <= Len(s)
    BY <2>1 DEF Bounded, Sent
  <2> QED
    BY <1>1, <1>2, <2>1, <2>2 DEF InOrder
<1>8. ASSUME NEW n \in 1..Len(w) PROVE s[n] = w[n]
  <2>1. n \in 1..Len(st) \/ n = Len(st) + 1
    BY <1>1, <1>3
  <2> QED
    BY <1>3, <1>7, <2>1 DEF InOrder
<1>9. ASSUME NEW n \in 1..Len(q) PROVE s[Len(w) + n] = q[n]
  <2>1. n + 1 \in 1..Len(p) /\ Len(w) + n = Len(st) + (n + 1)
    BY <1>1, <1>2, <1>3
  <2> QED
    BY <1>2, <2>1 DEF InOrder
<1>10. InOrder(w, q, c, s)
  BY <1>5, <1>8, <1>9 DEF InOrder
<1> QED
  BY <1>4, <1>6, <1>7, <1>10 DEF w, q

\* A file by itself, as a new or resumed recorder finds it.
LEMMA OrderOfFile ==
    ASSUME NEW st \in Seq(Items)
    PROVE  InOrder(st, <<>>, <<>>, st) /\ Bounded(st, <<>>, <<>>, st)
<1>1. Len(st) \in Nat /\ Len(<<>>) = 0
  BY LenProperties, EmptySeq
<1>2. Sent(st, <<>>, <<>>, 0) = Len(st)
  BY <1>1 DEF Sent
<1>3. InOrder(st, <<>>, <<>>, st)
  BY <1>1, <1>2 DEF InOrder
<1>4. \A k \in 0..Len(<<>>) : k = 0
  BY <1>1
<1> QED
  BY <1>1, <1>2, <1>3, <1>4 DEF Bounded

----------------------------------------------------------------------------
(* The invariant, action by action. *)

\* The values of an invariant state.
LEMMA Values ==
    ASSUME TypeOK, MetaFirst
    PROVE  /\ Len(chan) \in Nat /\ Len(pending) \in Nat /\ Len(submitted) \in Nat
           /\ Stored \in Seq(Items) /\ Len(Stored) \in Nat
           /\ cmd.upto \in Nat
<1>1. /\ Len(chan) \in Nat /\ Len(pending) \in Nat /\ Len(submitted) \in Nat
      /\ cmd.upto \in Nat
  BY LenProperties DEF TypeOK, Commands, NoCommand
<1>2. Len(Stored) \in Nat /\ Stored \in Seq(Items)
  BY ItemsOfFile DEF TypeOK, MetaFirst, Stored
<1> QED
  BY <1>1, <1>2

\* What a reader sees of the file: the lines it gets, the places it skips, the header.
LEMMA ReaderView ==
    ASSUME TypeOK, MetaFirst
    PROVE  /\ Len(Stored) = IF file = <<>> THEN 0 ELSE Len(file) - 1
           /\ {n \in 1..Len(Stored) : n + 1 \in LoadRolloutItems(file)} = 1..Len(Stored) \ Unread
           /\ Loadable => file # <<>> /\ Header = "readable"
<1>1. /\ Len(file) \in Nat /\ Len(Stored) \in Nat
      /\ Len(Stored) = IF file = <<>> THEN 0 ELSE Len(file) - 1
  BY ItemsOfFile, LenProperties DEF TypeOK, MetaFirst, Stored
<1>2. \A n \in 1..Len(Stored) : n + 1 \in 1..Len(file)
  <2>1. file = <<>> => Len(file) = 0
    BY EmptySeq
  <2> QED
    BY <1>1, <2>1
<1>3. {n \in 1..Len(Stored) : n + 1 \in LoadRolloutItems(file)} = 1..Len(Stored) \ Unread
  BY <1>2 DEF LoadRolloutItems, Unread
<1>4. Loadable => file # <<>> /\ Header = "readable"
  <2> SUFFICES ASSUME Loadable PROVE file # <<>> /\ Header = "readable"
    OBVIOUS
  <2>1. PICK n \in 1..Len(file) : file[n].readable /\ file[n].item = Meta
    BY DEF Loadable, LoadRolloutItems
  <2>2. n = 1
    BY <2>1 DEF MetaFirst, HasMetaFirst
  <2>3. ASSUME file = <<>> PROVE FALSE
    <3>1. Len(file) = 0
      BY <2>3, EmptySeq
    <3> QED
      BY <2>1, <3>1
  <2> QED
    BY <2>1, <2>2, <2>3 DEF Header
<1> QED
  BY <1>1, <1>3, <1>4

\* A new recorder has nothing.
LEMMA InitIsInductive == Init => IndInv
<1> SUFFICES ASSUME Init PROVE IndInv
  OBVIOUS
<1>1. /\ <<>> \in Seq(Lines) /\ <<>> \in Seq(Items) /\ <<>> \in Seq(Commands)
      /\ Len(<<>>) = 0
  BY EmptySeq
<1>2. MetaFirst /\ Stored = <<>>
  <2>1. HasMetaFirst(<<>>)
    BY <1>1 DEF HasMetaFirst
  <2>2. Len(ItemsOf(<<>>)) = 0 /\ ItemsOf(<<>>) \in Seq(Items)
    BY <1>1, <2>1, ItemsOfFile
  <2>3. ItemsOf(<<>>) = <<>>
    BY <2>2, EmptySeq
  <2> QED
    BY <2>1, <2>3 DEF Init, MetaFirst, Stored
<1>3. TypeOK
  <2>1. /\ Len(<<>>) <= Capacity /\ 0 \in 0..MaxFaults /\ 0 \in 0..MaxCrashes /\ 0 \in Nat
    BY <1>1, RolloutAssumption
  <2>2. /\ chan \in Seq(Commands) /\ Len(chan) <= Capacity
        /\ pending \in Seq(Items) /\ file \in Seq(Lines) /\ submitted \in Seq(Items)
    BY <1>1, <2>1 DEF Init
  <2> QED
    BY <2>1, <2>2 DEF Init, TypeOK
<1>4. NothingLost /\ SentBounded
  <2>1. InOrder(<<>>, <<>>, <<>>, <<>>) /\ Bounded(<<>>, <<>>, <<>>, <<>>)
    BY <1>1, OrderOfFile
  <2> QED
    BY <1>2, <2>1 DEF Init, NothingLost, SentBounded
<1>5. MetaOwed
  BY DEF Init, MetaOwed
<1>6. BarrierCovered
  <2>1. cmd = NoCommand /\ cmd.upto = 0 /\ pc = "recv"
    BY DEF Init, NoCommand
  <2>2. cmd.upto <= Len(Stored) + Len(pending)
    BY <1>1, <1>2, <2>1 DEF Init
  <2> QED
    BY <2>1, <2>2 DEF BarrierCovered
<1>7. ConfirmedStored
  BY <1>1, <1>2 DEF Init, ConfirmedStored
<1> QED
  BY <1>2, <1>3, <1>4, <1>5, <1>6, <1>7 DEF IndInv

\* A command m is sent.
LEMMA SendPreserves ==
    ASSUME IndInv, Room,
           NEW m \in Commands, chan' = Append(chan, m),
           \/ m.op # "add" /\ m.upto = Len(submitted) /\ submitted' = submitted
           \/ /\ m.op = "add" /\ m.upto = Len(submitted) + 1 /\ m.item \in Items
              /\ submitted' = Append(submitted, m.item),
           waiting' \subseteq Callers,
           UNCHANGED <<writerVars, fileVars, confirmed, bookVars>>
    PROVE  IndInv'
<1> USE DEF IndInv, writerVars, fileVars, bookVars
<1>1. /\ Stored \in Seq(Items) /\ Stored' = Stored /\ pc # "gone"
      /\ Len(chan) < Capacity /\ Len(chan) \in Nat
  BY Values DEF Stored, Room
<1>2. /\ pending \in Seq(Items) /\ chan \in Seq(Commands) /\ submitted \in Seq(Items)
  BY DEF TypeOK
<1>3. submitted' \in Seq(Items)
  <2>1. CASE m.op # "add"
    BY <1>2, <2>1
  <2>2. CASE m.op = "add"
    <3>1. m.item \in Items /\ submitted' = Append(submitted, m.item)
      BY <2>2
    <3> QED
      BY <1>2, <3>1, AppendProperties
  <2> QED
    BY <2>1, <2>2
<1>4. chan' \in Seq(Commands) /\ Len(chan') = Len(chan) + 1
  BY <1>2, AppendProperties
<1>5. TypeOK'
  BY <1>1, <1>3, <1>4, RolloutAssumption DEF TypeOK
<1>6. /\ InOrder(Stored, pending, Append(chan, m), submitted')
      /\ Bounded(Stored, pending, Append(chan, m), submitted')
  <2>1. InOrder(Stored, pending, chan, submitted) /\ Bounded(Stored, pending, chan, submitted)
    BY <1>1 DEF NothingLost, SentBounded
  <2> QED
    BY <1>1, <1>2, <1>3, <2>1, OrderSend
<1>7. NothingLost' /\ SentBounded'
  BY <1>1, <1>6 DEF NothingLost, SentBounded
<1>8. MetaFirst' /\ MetaOwed' /\ BarrierCovered' /\ ConfirmedStored'
  BY <1>1 DEF MetaFirst, MetaOwed, BarrierCovered, ConfirmedStored
<1> QED
  BY <1>5, <1>7, <1>8

\* record_items, persist, flush and shutdown.
LEMMA CallersPreserve ==
    ASSUME IndInv,
           \/ \E i \in Items : RecordItems(i)
           \/ \E c \in Callers, op \in Barriers : AwaitBarrier(c, op)
    PROVE  IndInv'
<1>1. Len(submitted) \in Nat /\ waiting \subseteq Callers
  BY LenProperties DEF IndInv, TypeOK
<1>2. ASSUME NEW i \in Items, RecordItems(i) PROVE IndInv'
  <2> DEFINE m == [op |-> "add", item |-> i, caller |-> NoCaller, upto |-> Len(submitted) + 1]
  <2>1. m \in Commands /\ m.op = "add" /\ m.item = i /\ m.upto = Len(submitted) + 1
    BY <1>1 DEF Commands
  <2>2. chan' = Append(chan, m) /\ submitted' = Append(submitted, i) /\ waiting' = waiting
    BY <1>2 DEF RecordItems
  <2>3. Room /\ UNCHANGED <<writerVars, fileVars, confirmed, bookVars>>
    BY <1>2 DEF RecordItems
  <2> HIDE DEF m
  <2> QED
    BY <1>1, <2>1, <2>2, <2>3, SendPreserves
<1>3. ASSUME NEW c \in Callers, NEW op \in Barriers, AwaitBarrier(c, op) PROVE IndInv'
  <2> DEFINE m == [op |-> op, item |-> Meta, caller |-> c, upto |-> Len(submitted)]
  <2>1. m \in Commands /\ m.op # "add" /\ m.upto = Len(submitted)
    BY <1>1 DEF Commands, Barriers
  <2>2. chan' = Append(chan, m) /\ submitted' = submitted /\ waiting' \subseteq Callers
    BY <1>1, <1>3 DEF AwaitBarrier
  <2>3. Room /\ UNCHANGED <<writerVars, fileVars, confirmed, bookVars>>
    BY <1>3 DEF AwaitBarrier
  <2> HIDE DEF m
  <2> QED
    BY <2>1, <2>2, <2>3, SendPreserves
<1> QED
  BY <1>2, <1>3

\* The writer takes a command off the channel.
LEMMA ReceivePreserves ==
    ASSUME IndInv, ReceiveItem \/ ReceiveBarrier
    PROVE  IndInv'
<1> USE DEF IndInv
<1> DEFINE h == Head(chan)
<1>1. /\ Stored \in Seq(Items) /\ Len(Stored) \in Nat /\ Len(pending) \in Nat
      /\ Len(chan) \in Nat
  BY Values
<1>2. /\ pending \in Seq(Items) /\ chan \in Seq(Commands) /\ submitted \in Seq(Items)
  BY DEF TypeOK
<1>3. /\ pc = "recv" /\ pc' \in {"recv", "open", "ack"} /\ chan # <<>> /\ chan' = Tail(chan)
      /\ cmd = NoCommand
      /\ UNCHANGED <<waiting, attempt, ok, open, deferred, meta, file, fragment, submitted,
                     confirmed, loaded, faults, crashes>>
  BY DEF ReceiveItem, ReceiveBarrier, fileVars, bookVars, BarrierCovered
<1>4. h \in Commands /\ chan' \in Seq(Commands) /\ Len(chan') = Len(chan) - 1
  BY <1>2, <1>3, HeadTailProperties
<1> HIDE DEF h
<1>5. \/ h.op # "add" /\ pending' = pending
      \/ h.op = "add" /\ h.item \in Items /\ pending' = Append(pending, h.item)
  <2>1. h.op = "add" => h.item \in Items
    BY <1>4 DEF Commands, Barriers
  <2> QED
    BY <2>1 DEF ReceiveItem, ReceiveBarrier, h
<1>6. pending' \in Seq(Items) /\ Len(pending') \in Nat
  <2>1. CASE h.op # "add"
    BY <1>1, <1>2, <1>5, <2>1
  <2>2. CASE h.op = "add"
    <3>1. h.item \in Items /\ pending' = Append(pending, h.item)
      BY <1>5, <2>2
    <3>2. pending' \in Seq(Items)
      BY <1>2, <3>1, AppendProperties
    <3> QED
      BY <3>2, LenProperties
  <2> QED
    BY <2>1, <2>2
<1>7. cmd' = h \/ (cmd' = NoCommand /\ pc' = "recv")
  BY <1>3 DEF ReceiveItem, ReceiveBarrier, h
<1>8. cmd' = h => pc' # "recv"
  <2>1. CASE ReceiveBarrier
    BY <2>1 DEF ReceiveBarrier
  <2>2. CASE ReceiveItem /\ ~IsDeferred
    BY <2>2 DEF ReceiveItem
  <2>3. CASE ReceiveItem /\ IsDeferred
    <3>1. h.op = "add" /\ cmd' = NoCommand /\ NoCommand.op = "flush"
      BY <1>3, <2>3 DEF ReceiveItem, h, NoCommand
    <3> QED
      BY <3>1
  <2> QED
    BY <2>1, <2>2, <2>3
<1>9. TypeOK'
  <2>1. cmd' \in Commands \cup {NoCommand} /\ Len(chan') <= Capacity
    BY <1>1, <1>4, <1>7, RolloutAssumption DEF TypeOK
  <2> QED
    BY <1>3, <1>4, <1>6, <2>1 DEF TypeOK
<1>10. /\ InOrder(Stored, pending', Tail(chan), submitted)
       /\ Bounded(Stored, pending', Tail(chan), submitted)
       /\ h.upto = Len(Stored) + Len(pending')
  <2>1. InOrder(Stored, pending, chan, submitted) /\ Bounded(Stored, pending, chan, submitted)
    BY <1>3 DEF NothingLost, SentBounded
  <2> QED
    BY <1>1, <1>2, <1>3, <1>5, <1>6, <2>1, OrderTake DEF h
<1>11. Stored' = Stored
  BY <1>3 DEF Stored
<1>12. NothingLost' /\ SentBounded'
  BY <1>3, <1>10, <1>11 DEF NothingLost, SentBounded
<1>13. MetaFirst' /\ MetaOwed' /\ ConfirmedStored'
  BY <1>3, <1>11 DEF MetaFirst, MetaOwed, ConfirmedStored
<1>14. BarrierCovered'
  <2>1. pc' = "recv" => cmd' = NoCommand
    BY <1>7, <1>8
  <2>2. (cmd').upto <= Len(Stored') + Len(pending')
    <3>1. NoCommand.upto = 0
      BY DEF NoCommand
    <3> QED
      BY <1>1, <1>6, <1>7, <1>10, <1>11, <3>1
  <2>3. pc' = "ack" => pending' = <<>>
    BY <1>3 DEF ReceiveItem, ReceiveBarrier
  <2> QED
    BY <1>3, <2>1, <2>2, <2>3 DEF BarrierCovered
<1> QED
  BY <1>9, <1>12, <1>13, <1>14

\* Steps of the writer that move nothing: an open, a failure, the end of a batch, the
\* SessionMeta step of a file that has one.
LEMMA QuietPreserves ==
    ASSUME IndInv,
           UNCHANGED <<chan, waiting, cmd, meta, pending, file, submitted, confirmed, loaded, crashes>>,
           pc # "gone", pc # "recv", pc' \in {"open", "meta", "items", "ack"},
           attempt' \in {1, 2}, ok' \in BOOLEAN, open' \in BOOLEAN, deferred' \in BOOLEAN,
           fragment' \in BOOLEAN, faults' \in 0..MaxFaults,
           pc' = "items" => ~meta,
           pc' = "ack" /\ ok' => pending = <<>>
    PROVE  IndInv'
<1> USE DEF IndInv
<1>1. Stored' = Stored
  BY DEF Stored
<1>2. TypeOK'
  BY DEF TypeOK
<1>3. NothingLost' /\ SentBounded'
  BY <1>1 DEF NothingLost, SentBounded
<1>4. MetaFirst' /\ MetaOwed' /\ BarrierCovered' /\ ConfirmedStored'
  BY <1>1 DEF MetaFirst, MetaOwed, BarrierCovered, ConfirmedStored
<1> QED
  BY <1>2, <1>3, <1>4

\* ensure_writer_open, the failures, and the end of the batch.
LEMMA WriterQuiet ==
    ASSUME IndInv, EnsureWriterOpen \/ OpenFails \/ WriteFails \/ WriteDone
                   \/ (WriteSessionMeta /\ ~meta)
    PROVE  IndInv'
<1>1. /\ attempt \in {1, 2} /\ ok \in BOOLEAN /\ open \in BOOLEAN /\ deferred \in BOOLEAN
      /\ fragment \in BOOLEAN /\ faults \in 0..MaxFaults /\ meta \in BOOLEAN
      /\ (pc = "items" => ~meta)
  BY DEF IndInv, TypeOK, MetaOwed
<1>2. CASE EnsureWriterOpen
  BY <1>1, <1>2, QuietPreserves DEF EnsureWriterOpen, callerVars, fileVars, bookVars
<1>3. ASSUME Recover, pc \in {"open", "meta", "items"}, fragment' \in BOOLEAN PROVE IndInv'
  <2>1. faults' \in 0..MaxFaults
    BY <1>1, <1>3, RolloutAssumption DEF Recover
  <2>2. /\ attempt' \in {1, 2} /\ ok' \in BOOLEAN /\ open' \in BOOLEAN /\ pc' \in {"open", "ack"}
        /\ (pc' = "ack" => ~ok')
    BY <1>1, <1>3 DEF Recover
  <2> QED
    BY <1>1, <1>3, <2>1, <2>2, QuietPreserves DEF Recover, callerVars
<1>4. CASE OpenFails
  BY <1>1, <1>3, <1>4 DEF OpenFails
<1>5. CASE WriteFails
  BY <1>1, <1>3, <1>5 DEF WriteFails, Writing
<1>6. CASE WriteDone
  BY <1>1, <1>6, QuietPreserves DEF WriteDone, callerVars, fileVars, bookVars
<1>7. CASE WriteSessionMeta /\ ~meta
  BY <1>1, <1>7, QuietPreserves DEF WriteSessionMeta, callerVars, fileVars, bookVars
<1> QED
  BY <1>2, <1>4, <1>5, <1>6, <1>7

\* The SessionMeta line of a new file.
LEMMA MetaPreserves ==
    ASSUME IndInv, WriteSessionMeta, meta
    PROVE  IndInv' /\ Stored' = Stored
<1> USE DEF IndInv
<1> DEFINE l == [item |-> Meta, readable |-> ~fragment]
<1>1. l \in Lines /\ l.item = Meta
  BY DEF TypeOK, Lines
<1>2. /\ file = <<>> /\ file' = Append(file, l) /\ fragment' = FALSE
      /\ pc = "meta" /\ pc' = "items" /\ meta' = FALSE
      /\ UNCHANGED <<chan, waiting, cmd, attempt, ok, open, deferred, pending, submitted,
                     confirmed, loaded, faults, crashes>>
  BY DEF WriteSessionMeta, WriteLine, MetaOwed, callerVars, bookVars
<1> HIDE DEF l
<1>3. /\ file' \in Seq(Lines) /\ file' # <<>> /\ HasMetaFirst(file')
      /\ ItemsOf(file') = <<>> /\ ItemsOf(file) = <<>>
  BY <1>1, <1>2, ItemsOfMeta
<1>4. Stored' = Stored
  BY <1>3 DEF Stored
<1>5. TypeOK'
  BY <1>2, <1>3 DEF TypeOK
<1>6. NothingLost' /\ SentBounded'
  BY <1>2, <1>4 DEF NothingLost, SentBounded
<1>7. MetaFirst' /\ MetaOwed' /\ BarrierCovered' /\ ConfirmedStored'
  BY <1>2, <1>3, <1>4 DEF MetaFirst, MetaOwed, BarrierCovered, ConfirmedStored
<1> QED
  BY <1>4, <1>5, <1>6, <1>7

\* A pending item is written: the transcript grows by the next submitted item.
LEMMA WritePreserves ==
    ASSUME IndInv, WritePendingItem
    PROVE  /\ IndInv'
           /\ Len(Stored) < Len(submitted)
           /\ Stored' = Append(Stored, submitted[Len(Stored) + 1])
<1> USE DEF IndInv
<1> DEFINE i == Head(pending)
           l == [item |-> i, readable |-> ~fragment]
<1>1. /\ Stored \in Seq(Items) /\ Len(Stored) \in Nat /\ Len(pending) \in Nat
      /\ cmd.upto \in Nat
  BY Values
<1>2. /\ pending \in Seq(Items) /\ chan \in Seq(Commands) /\ submitted \in Seq(Items)
      /\ file \in Seq(Lines) /\ confirmed \in Nat
  BY DEF TypeOK
<1>3. /\ pc = "items" /\ pc' = pc /\ pending # <<>> /\ pending' = Tail(pending)
      /\ file' = Append(file, l) /\ fragment' = FALSE
      /\ UNCHANGED <<chan, waiting, cmd, attempt, ok, open, deferred, meta, submitted,
                     confirmed, loaded, faults, crashes>>
  BY DEF WritePendingItem, WriteLine, callerVars, bookVars
<1>4. i \in Items /\ pending' \in Seq(Items)
  BY <1>2, <1>3, HeadTailProperties
<1>5. l \in Lines /\ l.item = i
  BY <1>4 DEF TypeOK, Lines
<1> HIDE DEF i, l
<1>6. ~meta /\ file # <<>>
  BY <1>3 DEF MetaOwed
<1>7. /\ file' \in Seq(Lines) /\ file' # <<>> /\ HasMetaFirst(file')
      /\ ItemsOf(file') = Append(ItemsOf(file), i)
  BY <1>2, <1>3, <1>4, <1>5, <1>6, ItemsOfAppend DEF MetaFirst
<1>8. Stored' = Append(Stored, i) /\ Len(Stored') = Len(Stored) + 1
  BY <1>1, <1>4, <1>7, AppendProperties DEF Stored
<1>9. /\ InOrder(Append(Stored, i), Tail(pending), chan, submitted)
      /\ Bounded(Append(Stored, i), Tail(pending), chan, submitted)
      /\ Len(Stored) < Len(submitted) /\ submitted[Len(Stored) + 1] = i
      /\ Len(Append(Stored, i)) + Len(Tail(pending)) = Len(Stored) + Len(pending)
  <2>1. InOrder(Stored, pending, chan, submitted) /\ Bounded(Stored, pending, chan, submitted)
    BY <1>3 DEF NothingLost, SentBounded
  <2> QED
    BY <1>1, <1>2, <1>3, <2>1, OrderWrite DEF i
<1>10. TypeOK'
  BY <1>3, <1>4, <1>7 DEF TypeOK
<1>11. NothingLost' /\ SentBounded'
  BY <1>3, <1>8, <1>9 DEF NothingLost, SentBounded
<1>12. MetaFirst' /\ MetaOwed'
  BY <1>3, <1>6, <1>7 DEF MetaFirst, MetaOwed
<1>13. ConfirmedStored'
  BY <1>1, <1>2, <1>3, <1>8 DEF ConfirmedStored
<1>14. BarrierCovered'
  <2>1. cmd.upto <= Len(Stored') + Len(pending')
    BY <1>3, <1>8, <1>9 DEF BarrierCovered
  <2> QED
    BY <1>3, <2>1 DEF BarrierCovered
<1> QED
  BY <1>8, <1>9, <1>10, <1>11, <1>12, <1>13, <1>14

\* The reader's view after the SessionMeta line: the header, readable or glued.
LEMMA MetaView ==
    ASSUME IndInv, WriteSessionMeta, meta
    PROVE  /\ Header = "none" /\ Header' = IF fragment THEN "unreadable" ELSE "readable"
           /\ fragment' = FALSE /\ Unread' = Unread
<1> DEFINE l == [item |-> Meta, readable |-> ~fragment]
<1>1. file = <<>> /\ file' = Append(file, l) /\ fragment' = FALSE
  BY DEF WriteSessionMeta, WriteLine, IndInv, MetaOwed
<1>2. l \in Lines /\ l.readable = ~fragment
  BY DEF IndInv, TypeOK, Lines
<1> HIDE DEF l
<1>3. file' # <<>> /\ file'[1] = l
  <2>1. <<>> \in Seq(Lines) /\ Len(<<>>) = 0
    BY EmptySeq
  <2>2. file \in Seq(Lines) /\ Len(file) = 0
    BY <1>1, <2>1
  <2>3. file' # <<>> /\ file'[Len(file) + 1] = l
    BY <1>1, <1>2, <2>2, AppendProperties
  <2> QED
    BY <2>2, <2>3
<1>4. Header = "none" /\ Header' = IF fragment THEN "unreadable" ELSE "readable"
  BY <1>1, <1>2, <1>3 DEF Header
<1>5. Len(Stored) = 0 /\ Stored' = Stored
  BY <1>1, ReaderView, MetaPreserves DEF IndInv
<1>6. Unread = {} /\ Unread' = {}
  BY <1>5 DEF Unread
<1> QED
  BY <1>1, <1>4, <1>6

\* The reader's view after an item: its place is skipped if its line was glued.
LEMMA ItemView ==
    ASSUME IndInv, WritePendingItem
    PROVE  /\ Header # "none" /\ Header' = Header /\ fragment' = FALSE
           /\ Unread' = IF fragment THEN Unread \cup {Len(Stored) + 1} ELSE Unread
<1> DEFINE l == [item |-> Head(pending), readable |-> ~fragment]
           k == Len(Stored)
<1>1. pc = "items" /\ pending # <<>> /\ file' = Append(file, l) /\ fragment' = FALSE
  BY DEF WritePendingItem, WriteLine
<1>2. file # <<>> /\ file \in Seq(Lines) /\ pending \in Seq(Items)
  BY <1>1 DEF IndInv, MetaOwed, TypeOK
<1>3. l \in Lines /\ l.readable = ~fragment
  <2>1. Head(pending) \in Items
    BY <1>1, <1>2, HeadTailProperties
  <2> QED
    BY <2>1 DEF IndInv, TypeOK, Lines
<1> HIDE DEF l
<1>4. /\ Len(file) \in Nat /\ Len(file) > 0 /\ file' # <<>>
      /\ file'[Len(file) + 1] = l /\ \A n \in 1..Len(file) : file'[n] = file[n]
  BY <1>1, <1>2, <1>3, AppendProperties, LenProperties, EmptySeq
<1>5. k = Len(file) - 1 /\ k \in Nat
  BY <1>2, <1>4, ReaderView DEF IndInv
<1>6. Len(Stored') = k + 1
  <2>1. Stored \in Seq(Items)
    BY Values DEF IndInv
  <2>2. IndInv' /\ Stored' = Append(Stored, submitted[k + 1]) /\ k < Len(submitted)
    BY WritePreserves
  <2>3. submitted[k + 1] \in Items
    <3>1. submitted \in Seq(Items) /\ Len(submitted) \in Nat
      BY LenProperties DEF IndInv, TypeOK
    <3>2. k + 1 \in 1..Len(submitted)
      BY <1>5, <2>2, <3>1
    <3> QED
      BY <3>1, <3>2, ElementOfSeq
  <2> QED
    BY <2>1, <2>2, <2>3, AppendProperties
<1> HIDE DEF k
<1>7. Header # "none" /\ Header' = Header
  <2>1. file'[1] = file[1]
    BY <1>4
  <2> QED
    BY <1>2, <1>4, <2>1 DEF Header
<1>8. ASSUME NEW n \in 1..(k + 1)
      PROVE  ~file'[n + 1].readable <=> (n = k + 1 /\ fragment) \/ (n \in 1..k /\ ~file[n + 1].readable)
  <2>1. CASE n = k + 1
    <3>1. n + 1 = Len(file) + 1 /\ n \notin 1..k
      BY <1>4, <1>5, <2>1
    <3> QED
      BY <1>3, <1>4, <2>1, <3>1
  <2>2. CASE n # k + 1
    <3>1. n \in 1..k /\ n + 1 \in 1..Len(file)
      BY <1>4, <1>5, <2>2
    <3> QED
      BY <1>4, <2>2, <3>1
  <2> QED
    BY <2>1, <2>2
<1>9. Unread = {n \in 1..k : ~file[n + 1].readable}
  BY DEF Unread, k
<1>10. Unread' = {n \in 1..(k + 1) : ~file'[n + 1].readable}
  BY <1>6 DEF Unread
<1>11. Unread' = IF fragment THEN Unread \cup {k + 1} ELSE Unread
  <2>1. k + 1 \in 1..(k + 1) /\ \A n \in 1..k : n \in 1..(k + 1) /\ n # k + 1
    BY <1>5
  <2>2. \A n \in Unread' : n \in Unread \/ (n = k + 1 /\ fragment)
    BY <1>8, <1>9, <1>10
  <2>3. \A n \in Unread : n \in Unread'
    BY <1>8, <1>9, <1>10, <2>1
  <2>4. fragment => k + 1 \in Unread'
    BY <1>8, <1>10, <2>1
  <2> QED
    BY <2>2, <2>3, <2>4
<1> QED
  BY <1>1, <1>7, <1>11 DEF k

\* The answer to a barrier: what it confirms is stored.
LEMMA AcknowledgePreserves ==
    ASSUME IndInv, Acknowledge
    PROVE  /\ IndInv'
           /\ Stored' = Stored /\ submitted' = submitted
           /\ confirmed' \in confirmed..Len(Stored)
<1> USE DEF IndInv
<1>1. /\ Stored \in Seq(Items) /\ Len(Stored) \in Nat /\ Len(pending) \in Nat
      /\ cmd.upto \in Nat /\ confirmed \in Nat
  BY Values DEF TypeOK
<1>2. /\ pc = "ack" /\ pc' \in {"recv", "gone"} /\ cmd' = NoCommand /\ attempt' = 1 /\ ok' = TRUE
      /\ chan' \in {chan, <<>>} /\ (pc' = "gone" => chan' = <<>>) /\ (pc' = "recv" => chan' = chan)
      /\ waiting' \subseteq waiting
      /\ UNCHANGED <<open, deferred, meta, pending, file, fragment, submitted, loaded, faults, crashes>>
  BY DEF Acknowledge, NextCommand, fileVars, bookVars
<1>3. Stored' = Stored
  BY <1>2 DEF Stored
<1>4. confirmed' = confirmed \/ (ok /\ confirmed' = cmd.upto /\ cmd.upto > confirmed)
  BY DEF Acknowledge
<1>5. ok => cmd.upto <= Len(Stored)
  <2> SUFFICES ASSUME ok PROVE cmd.upto <= Len(Stored)
    OBVIOUS
  <2>1. pending = <<>> /\ cmd.upto <= Len(Stored) + Len(pending)
    BY <1>2 DEF BarrierCovered
  <2>2. Len(pending) = 0
    BY <2>1, EmptySeq
  <2> QED
    BY <1>1, <2>1, <2>2
<1>6. confirmed' \in confirmed..Len(Stored) /\ confirmed' \in Nat
  BY <1>1, <1>4, <1>5 DEF ConfirmedStored
<1>7. TypeOK'
  <2>1. chan' \in Seq(Commands) /\ Len(chan') <= Capacity
    <3>1. <<>> \in Seq(Commands) /\ Len(<<>>) <= Capacity
      BY EmptySeq, RolloutAssumption
    <3> QED
      BY <1>2, <3>1 DEF TypeOK
  <2> QED
    BY <1>2, <1>6, <2>1 DEF TypeOK
<1>8. NothingLost' /\ SentBounded'
  BY <1>2, <1>3 DEF NothingLost, SentBounded
<1>9. MetaFirst' /\ MetaOwed' /\ ConfirmedStored'
  BY <1>1, <1>2, <1>3, <1>6 DEF MetaFirst, MetaOwed, ConfirmedStored
<1>10. BarrierCovered'
  <2>1. NoCommand.upto = 0
    BY DEF NoCommand
  <2>2. (cmd').upto <= Len(Stored') + Len(pending')
    BY <1>1, <1>2, <1>3, <2>1
  <2> QED
    BY <1>2, <2>2 DEF BarrierCovered
<1> QED
  BY <1>2, <1>3, <1>6, <1>7, <1>8, <1>9, <1>10

\* The process ends.
LEMMA CrashPreserves ==
    ASSUME IndInv, Crash
    PROVE  IndInv' /\ Stored' = Stored
<1> USE DEF IndInv
<1>1. /\ pc' = "gone" /\ cmd' = NoCommand /\ attempt' = 1 /\ ok' = TRUE
      /\ chan' = <<>> /\ waiting' = {} /\ open' = FALSE /\ pending' = <<>>
      /\ UNCHANGED <<deferred, meta, file, submitted, confirmed, loaded>>
  BY DEF Crash, NextCommand
<1>2. Stored' = Stored
  BY <1>1 DEF Stored
<1>3. /\ crashes' \in 0..MaxCrashes /\ faults' \in 0..MaxFaults /\ fragment' \in BOOLEAN
  <2>1. crashes' \in 0..MaxCrashes
    BY RolloutAssumption DEF Crash, TypeOK
  <2>2. faults' = faults \/ (faults < MaxFaults /\ faults' = faults + 1)
    BY DEF Crash
  <2>3. faults' \in 0..MaxFaults
    BY <2>2, RolloutAssumption DEF TypeOK
  <2>4. fragment' \in BOOLEAN
    BY DEF Crash, TypeOK
  <2> QED
    BY <2>1, <2>3, <2>4
<1>4. TypeOK'
  <2>1. chan' \in Seq(Commands) /\ Len(chan') <= Capacity /\ pending' \in Seq(Items)
    BY <1>1, EmptySeq, RolloutAssumption
  <2> QED
    BY <1>1, <1>3, <2>1 DEF TypeOK
<1>5. NothingLost' /\ SentBounded' /\ BarrierCovered'
  BY <1>1 DEF NothingLost, SentBounded, BarrierCovered
<1>6. MetaFirst' /\ MetaOwed' /\ ConfirmedStored'
  BY <1>1, <1>2 DEF MetaFirst, MetaOwed, ConfirmedStored
<1> QED
  BY <1>2, <1>4, <1>5, <1>6

\* A new recorder on the file: what the file does not hold was lost with the process.
LEMMA ResumePreserves ==
    ASSUME IndInv, Resume
    PROVE  /\ IndInv'
           /\ Stored' = Stored /\ submitted' = Stored /\ confirmed' = confirmed
           /\ Header = "readable" /\ loaded' = 1..Len(Stored) \ Unread
           /\ UNCHANGED <<file, fragment>>
<1> USE DEF IndInv
<1>1. /\ pc = "gone" /\ pc' = "recv" /\ open' = TRUE /\ deferred' = FALSE /\ meta' = FALSE
      /\ pending' = <<>> /\ submitted' = Stored
      /\ loaded' = {n \in 1..Len(Stored) : n + 1 \in LoadRolloutItems(file)}
      /\ chan = <<>> /\ cmd = NoCommand /\ Loadable
      /\ UNCHANGED <<chan, waiting, cmd, attempt, ok, file, fragment, confirmed, faults, crashes>>
  BY DEF Resume, callerVars, fileVars, BarrierCovered
<1>2. Stored' = Stored /\ Stored \in Seq(Items) /\ Len(Stored) \in Nat
  BY <1>1, Values DEF Stored
<1>3. /\ file # <<>> /\ Header = "readable"
      /\ loaded' = 1..Len(Stored) \ Unread /\ loaded' \subseteq Nat
  <2>1. file # <<>> /\ Header = "readable" /\ loaded' = 1..Len(Stored) \ Unread
    BY <1>1, ReaderView
  <2> QED
    BY <1>2, <2>1
<1>4. TypeOK'
  <2>1. pending' \in Seq(Items)
    BY <1>1, EmptySeq
  <2> QED
    BY <1>1, <1>2, <1>3, <2>1 DEF TypeOK
<1>5. NothingLost' /\ SentBounded'
  <2>1. InOrder(Stored, <<>>, <<>>, Stored) /\ Bounded(Stored, <<>>, <<>>, Stored)
    BY <1>2, OrderOfFile
  <2> QED
    BY <1>1, <1>2, <2>1 DEF NothingLost, SentBounded
<1>6. MetaFirst' /\ MetaOwed' /\ ConfirmedStored'
  BY <1>1, <1>2, <1>3 DEF MetaFirst, MetaOwed, ConfirmedStored
<1>7. BarrierCovered'
  <2>1. Len(<<>>) = 0 /\ NoCommand.upto = 0
    BY EmptySeq DEF NoCommand
  <2>2. (cmd').upto <= Len(Stored') + Len(pending')
    BY <1>1, <1>2, <2>1
  <2> QED
    BY <1>1, <2>2 DEF BarrierCovered
<1> QED
  BY <1>1, <1>2, <1>3, <1>4, <1>5, <1>6, <1>7

\* Nothing happens.
LEMMA StutterPreserves ==
    ASSUME IndInv, UNCHANGED vars
    PROVE  IndInv'
<1>1. Stored' = Stored
  BY DEF Stored, vars, fileVars
<1> QED
  BY <1>1 DEF vars, callerVars, writerVars, fileVars, bookVars, IndInv, TypeOK, MetaFirst,
     NothingLost, MetaOwed, BarrierCovered, ConfirmedStored, SentBounded

----------------------------------------------------------------------------
(* The theorems. *)

\* Where every item is, and what a barrier covers, holds in every state of the recorder.
THEOREM Inductive == Spec => []IndInv
<1>1. IndInv /\ [Next]_vars => IndInv'
  <2> SUFFICES ASSUME IndInv, [Next]_vars PROVE IndInv'
    OBVIOUS
  <2>1. CASE (\E i \in Items : RecordItems(i))
             \/ (\E c \in Callers, op \in Barriers : AwaitBarrier(c, op))
    BY <2>1, CallersPreserve
  <2>2. CASE ReceiveItem \/ ReceiveBarrier
    BY <2>2, ReceivePreserves
  <2>3. CASE EnsureWriterOpen \/ OpenFails \/ WriteFails \/ WriteDone
    BY <2>3, WriterQuiet
  <2>4. CASE WriteSessionMeta
    BY <2>4, WriterQuiet, MetaPreserves
  <2>5. CASE WritePendingItem
    BY <2>5, WritePreserves
  <2>6. CASE Acknowledge
    BY <2>6, AcknowledgePreserves
  <2>7. CASE Crash
    BY <2>7, CrashPreserves
  <2>8. CASE Resume
    BY <2>8, ResumePreserves
  <2>9. CASE UNCHANGED vars
    BY <2>9, StutterPreserves
  <2> QED
    BY <2>1, <2>2, <2>3, <2>4, <2>5, <2>6, <2>7, <2>8, <2>9 DEF Next, WriterStep
<1> QED
  BY <1>1, InitIsInductive, PTL DEF Spec

\* Types; the channel never exceeds its capacity.
THEOREM TypeCorrect == Spec => []TypeOK
BY Inductive, PTL DEF IndInv

\* While a recorder lives, every submitted item is in exactly one of file, pending_items
\* and channel, in the order of submission, whatever writes and opens failed.
THEOREM NothingIsLost == Spec => []NothingLost
BY Inductive, PTL DEF IndInv

\* The writer's SessionMeta is the first line of the file and is written once.
THEOREM MetaIsFirst == Spec => []MetaFirst
BY Inductive, PTL DEF IndInv

\* The recorder implements Transcript: a step of it submits an item, tears a line, writes
\* the header or the next item, confirms a prefix of what is written, starts again from
\* what a reader gets, or is none of these.
THEOREM RefinesTranscript == Spec => ImplementsTranscript
<1> DEFINE view == <<submitted, Stored, Unread, Header, fragment, confirmed, loaded>>
<1> USE DEF T!Submit, T!Tear, T!WriteHeader, T!Store, T!Confirm, T!Reload
<1>1. Init => T!Init
  <2> SUFFICES ASSUME Init PROVE T!Init
    OBVIOUS
  <2>1. IndInv
    BY InitIsInductive
  <2>2. Len(Stored) = 0 /\ Stored \in Seq(Items)
    <3>1. Len(<<>>) = 0 /\ file = <<>>
      BY EmptySeq DEF Init
    <3> QED
      BY <2>1, <3>1, ItemsOfFile DEF IndInv, TypeOK, MetaFirst, Stored
  <2>3. Stored = <<>> /\ Unread = {}
    BY <2>2, EmptySeq DEF Unread
  <2> QED
    BY <2>3 DEF Init, T!Init, Header
<1>2. IndInv /\ [Next]_vars => [T!Next]_(T!tvars)
  <2> SUFFICES ASSUME IndInv, [Next]_vars PROVE T!Next \/ UNCHANGED view
    BY DEF T!tvars
  <2>1. ASSUME UNCHANGED file PROVE UNCHANGED <<Stored, Unread, Header>>
    BY <2>1 DEF Stored, Unread, Header
  <2>2. ASSUME NEW i \in Items, RecordItems(i) PROVE T!Next
    <3>1. submitted' = Append(submitted, i) /\ UNCHANGED <<file, fragment, confirmed, loaded>>
      BY <2>2 DEF RecordItems, fileVars, bookVars
    <3> QED
      BY <2>1, <3>1 DEF T!Next
  <2>3. ASSUME NEW c \in Callers, NEW op \in Barriers, AwaitBarrier(c, op)
        PROVE  UNCHANGED view
    <3>1. UNCHANGED <<submitted, file, fragment, confirmed, loaded>>
      BY <2>3 DEF AwaitBarrier, fileVars, bookVars
    <3> QED
      BY <2>1, <3>1
  <2>4. CASE ReceiveItem \/ ReceiveBarrier \/ EnsureWriterOpen \/ OpenFails \/ WriteDone
             \/ UNCHANGED vars
    <3>1. UNCHANGED <<submitted, file, fragment, confirmed, loaded>>
      BY <2>4 DEF ReceiveItem, ReceiveBarrier, EnsureWriterOpen, OpenFails, Recover,
         WriteDone, fileVars, bookVars, vars
    <3> QED
      BY <2>1, <3>1
  <2>5. CASE WriteFails \/ Crash
    <3>1. UNCHANGED <<submitted, file, confirmed, loaded>> /\ fragment' \in {fragment, TRUE}
      BY <2>5 DEF WriteFails, Recover, Crash
    <3>2. CASE fragment' = fragment
      BY <2>1, <3>1, <3>2
    <3>3. CASE fragment' = TRUE
      <4>1. T!Tear
        BY <2>1, <3>1, <3>3
      <4> QED
        BY <4>1 DEF T!Next
    <3> QED
      BY <3>1, <3>2, <3>3
  <2>6. CASE WriteSessionMeta
    <3>1. UNCHANGED <<submitted, confirmed, loaded>>
      BY <2>6 DEF WriteSessionMeta, bookVars
    <3>2. CASE meta
      <4>1. T!WriteHeader
        BY <2>6, <3>1, <3>2, MetaPreserves, MetaView
      <4> QED
        BY <4>1 DEF T!Next
    <3>3. CASE ~meta
      <4>1. UNCHANGED <<file, fragment>>
        BY <2>6, <3>3 DEF WriteSessionMeta, fileVars
      <4> QED
        BY <2>1, <3>1, <4>1
    <3> QED
      BY <3>2, <3>3
  <2>7. CASE WritePendingItem
    <3>1. UNCHANGED <<submitted, confirmed, loaded>>
      BY <2>7 DEF WritePendingItem, bookVars
    <3>2. T!Store
      BY <2>7, <3>1, WritePreserves, ItemView
    <3> QED
      BY <3>2 DEF T!Next
  <2>8. CASE Acknowledge
    <3>1. UNCHANGED <<file, fragment, loaded>>
      BY <2>8 DEF Acknowledge, fileVars, bookVars
    <3>2. T!Confirm
      BY <2>1, <2>8, <3>1, AcknowledgePreserves
    <3> QED
      BY <3>2 DEF T!Next
  <2>9. CASE Resume
    <3>1. T!Reload
      BY <2>1, <2>9, ResumePreserves
    <3> QED
      BY <3>1 DEF T!Next
  <2> QED
    BY <2>2, <2>3, <2>4, <2>5, <2>6, <2>7, <2>8, <2>9 DEF Next, WriterStep
<1> QED
  BY <1>1, <1>2, Inductive, PTL DEF Spec, ImplementsTranscript, T!Spec
=============================================================================
