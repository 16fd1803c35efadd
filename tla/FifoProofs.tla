----------------------------- MODULE FifoProofs -----------------------------
(* What the list operations of Fifo preserve. *)
EXTENDS Fifo, TLAPS

\* push_back of a node that is not linked links it and nothing else.
LEMMA PushBackProperties ==
    ASSUME NEW S, NEW q \in Seq(S), NEW x \in S, Distinct(q), ~Linked(q, x)
    PROVE  /\ Append(q, x) \in Seq(S)
           /\ Len(Append(q, x)) = Len(q) + 1
           /\ Distinct(Append(q, x))
           /\ \A y : Linked(Append(q, x), y) <=> Linked(q, y) \/ y = x
<1>1. /\ Append(q, x) \in Seq(S)
      /\ Len(Append(q, x)) = Len(q) + 1
      /\ Len(q) \in Nat
      /\ \A i \in 1..Len(q) : Append(q, x)[i] = q[i]
      /\ Append(q, x)[Len(q) + 1] = x
  OBVIOUS
<1>2. Distinct(Append(q, x))
  BY <1>1 DEF Distinct, Linked
<1>3. ASSUME NEW y PROVE Linked(Append(q, x), y) <=> Linked(q, y) \/ y = x
  BY <1>1 DEF Linked
<1> QED BY <1>1, <1>2, <1>3

\* A node put in front links that node and nothing else.
LEMMA PushFrontProperties ==
    ASSUME NEW S, NEW q \in Seq(S), NEW x \in S, Distinct(q), ~Linked(q, x)
    PROVE  /\ Distinct(<<x>> \o q)
           /\ \A y : Linked(<<x>> \o q, y) <=> Linked(q, y) \/ y = x
<1> DEFINE r == <<x>> \o q
<1>1. /\ Len(q) \in Nat
      /\ Len(r) = Len(q) + 1
      /\ r[1] = x
      /\ \A i \in 2..(Len(q) + 1) : r[i] = q[i - 1]
  OBVIOUS
<1>2. \A i \in 1..Len(r) : i = 1 \/ (i - 1 \in 1..Len(q) /\ i \in 2..(Len(q) + 1))
  BY <1>1
<1>3. \A i \in 1..Len(q) : i + 1 \in 1..Len(r) /\ r[i + 1] = q[i]
  BY <1>1
<1> HIDE DEF r
<1>4. Distinct(r)
  <2> SUFFICES ASSUME NEW i \in 1..Len(r), NEW j \in 1..Len(r), r[i] = r[j]
               PROVE  i = j
    BY DEF Distinct
  <2>1. CASE i = 1 /\ j # 1
    BY <1>1, <1>2, <2>1 DEF Linked
  <2>2. CASE i # 1 /\ j = 1
    BY <1>1, <1>2, <2>2 DEF Linked
  <2>3. CASE i # 1 /\ j # 1
    BY <1>1, <1>2, <2>3 DEF Distinct
  <2> QED BY <2>1, <2>2, <2>3
<1>5. ASSUME NEW y PROVE Linked(r, y) <=> Linked(q, y) \/ y = x
  <2>1. Linked(r, y) => Linked(q, y) \/ y = x
    BY <1>1, <1>2 DEF Linked
  <2>2. Linked(q, y) => Linked(r, y)
    BY <1>3 DEF Linked
  <2>3. Linked(r, x)
    BY <1>1 DEF Linked
  <2> QED BY <2>1, <2>2, <2>3
<1> QED BY <1>4, <1>5 DEF r

\* pop_front unlinks the first node and nothing else.
LEMMA PopFrontProperties ==
    ASSUME NEW S, NEW q \in Seq(S), q # <<>>, Distinct(q)
    PROVE  /\ Tail(q) \in Seq(S)
           /\ Head(q) \in S
           /\ Linked(q, Head(q))
           /\ Len(Tail(q)) = Len(q) - 1
           /\ Distinct(Tail(q))
           /\ \A y : Linked(Tail(q), y) <=> Linked(q, y) /\ y # Head(q)
<1>1. /\ Tail(q) \in Seq(S)
      /\ Len(q) \in Nat \ {0}
      /\ Len(Tail(q)) = Len(q) - 1
      /\ Head(q) = q[1]
      /\ \A i \in 1..(Len(q) - 1) : Tail(q)[i] = q[i + 1]
  OBVIOUS
<1>2. Head(q) \in S /\ Linked(q, Head(q))
  BY <1>1 DEF Linked
<1>3. Distinct(Tail(q))
  BY <1>1 DEF Distinct
<1>4. ASSUME NEW y, Linked(Tail(q), y) PROVE Linked(q, y) /\ y # Head(q)
  BY <1>1, <1>4 DEF Linked, Distinct
<1>5. ASSUME NEW y, Linked(q, y), y # Head(q) PROVE Linked(Tail(q), y)
  <2>1. PICK i \in 1..Len(q) : q[i] = y
    BY <1>5 DEF Linked
  <2>2. i - 1 \in 1..(Len(q) - 1) /\ (i - 1) + 1 = i
    BY <1>1, <1>5, <2>1
  <2> QED BY <1>1, <2>1, <2>2 DEF Linked
<1> QED BY <1>1, <1>2, <1>3, <1>4, <1>5

\* remove unlinks the node it is given, wherever it stands, and nothing else.
LEMMA UnlinkProperties ==
    ASSUME NEW S, NEW q \in Seq(S), NEW x, Distinct(q), Linked(q, x)
    PROVE  /\ Unlink(q, x) \in Seq(S)
           /\ Len(Unlink(q, x)) = Len(q) - 1
           /\ Distinct(Unlink(q, x))
           /\ \A y : Linked(Unlink(q, x), y) <=> Linked(q, y) /\ y # x
<1> DEFINE p == Position(q, x)
           u == Unlink(q, x)
           Old(i) == IF i < p THEN i ELSE i + 1
<1>1. p \in 1..Len(q) /\ q[p] = x
  BY DEF Linked, Position
<1>2. Len(q) \in Nat \ {0} /\ \A i \in 1..Len(q) : q[i] \in S
  BY <1>1
<1>3. \A i \in 1..(Len(q) - 1) : Old(i) \in 1..Len(q) /\ Old(i) # p
  BY <1>1, <1>2
<1>4. \A i \in 1..(Len(q) - 1) : u[i] = q[Old(i)]
  BY DEF Unlink
<1>5. u \in [1..(Len(q) - 1) -> S]
  BY <1>2, <1>3 DEF Unlink
<1>6. u \in Seq(S) /\ Len(u) = Len(q) - 1
  BY <1>2, <1>5
<1>7. Distinct(u)
  <2> SUFFICES ASSUME NEW i \in 1..(Len(q) - 1), NEW j \in 1..(Len(q) - 1),
                      u[i] = u[j]
               PROVE  i = j
    BY <1>6 DEF Distinct
  <2>1. Old(i) = Old(j)
    BY <1>3, <1>4 DEF Distinct
  <2> QED BY <1>1, <1>2, <2>1
<1>8. ASSUME NEW y, Linked(u, y) PROVE Linked(q, y) /\ y # x
  BY <1>1, <1>3, <1>4, <1>6, <1>8 DEF Linked, Distinct
<1>9. ASSUME NEW y, Linked(q, y), y # x PROVE Linked(u, y)
  <2>1. PICK i \in 1..Len(q) : q[i] = y
    BY <1>9 DEF Linked
  <2>2. i # p
    BY <1>1, <1>9, <2>1
  <2>3. PICK j \in 1..(Len(q) - 1) : Old(j) = i
    <3>1. CASE i < p BY <3>1, <1>1, <1>2, <2>1
    <3>2. CASE i > p
      <4>1. i - 1 \in 1..(Len(q) - 1) /\ Old(i - 1) = i
        BY <3>2, <1>1, <1>2, <2>1
      <4> QED BY <4>1
    <3> QED BY <3>1, <3>2, <1>1, <2>2
  <2> QED BY <1>4, <1>6, <2>1, <2>3 DEF Linked
<1> QED BY <1>6, <1>7, <1>8, <1>9
=============================================================================
