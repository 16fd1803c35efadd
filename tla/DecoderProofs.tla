--------------------------- MODULE DecoderProofs ---------------------------
(***************************************************************************)
(* The decoder for every stream: any length, any verdicts, any word size,  *)
(* cap, sample and number of probes, and any cutting into chunks.          *)
(*                                                                         *)
(* What decoding in one go computes is a recursive function.  Its equation *)
(* is proved, not taken: StopExists and CountExists build the function     *)
(* position by position, by induction in the form of Least, and StopStep   *)
(* and CountStep state the equation.  From there on, a turn of the loop in *)
(* Decoder.feed is compared with one unfolding of the function.            *)
(***************************************************************************)
EXTENDS Decoder, WellFoundedInduction, TLAPS

-----------------------------------------------------------------------------
(***************************************************************************)
(* Induction over data: a counterexample would have a least one.           *)
(***************************************************************************)

\* A set of numbers that is not empty has a least member.
LEMMA Least ==
    ASSUME NEW S \in SUBSET Nat, S # {}
    PROVE  \E m \in S : \A k \in S : m <= k
<1> DEFINE R == OpToRel(<, Nat)
<1>1. \A x, y \in S : <<y, x>> \in R <=> y < x
  BY DEF OpToRel
<1>2. IsWellFoundedOn(R, Nat)
  BY NatLessThanWellFounded
<1> HIDE DEF R
<1>3. PICK x \in S : \A y \in S : ~ (<<y, x>> \in R)
  BY <1>2, WFMin
<1>4. ASSUME NEW y \in S PROVE x <= y
  <2>1. x \in Nat /\ y \in Nat /\ ~(y < x)
    BY <1>1, <1>3
  <2> QED BY <2>1
<1> QED BY <1>4

-----------------------------------------------------------------------------
(***************************************************************************)
(* One record                                                              *)
(***************************************************************************)
WellTyped == verdict \in [Positions -> Verdicts]

\* A message class decides after one byte at least.
LEMMA VerdictType ==
    ASSUME WellTyped, NEW q \in Positions
    PROVE  verdict[q].n \in Nat \ {0} /\ verdict[q].kind \in {"type", "good", "bad"}
<1>1. verdict[q] \in Verdicts
  BY DEF WellTyped
<1>2. CASE verdict[q] = [kind |-> "type", n |-> 1]
  BY <1>2
<1>3. CASE verdict[q] \in [kind : {"good", "bad"}, n : Lengths]
  <2>1. Lengths \subseteq Nat \ {0}
    BY DecoderAssumption DEF DecoderAssumption
  <2> QED BY <1>3, <2>1
<1> QED BY <1>1, <1>2, <1>3 DEF Verdicts

\* A record that is not incomplete advances the buffer, and not beyond its
\* end: the loop of Decoder.feed terminates (decode.py:138-161).
LEMMA AdvanceFits ==
    ASSUME WellTyped, NEW e \in 0..StreamLen, NEW q \in 0..StreamLen, ~Incomplete(q, e)
    PROVE  /\ q < e /\ q \in Positions
           /\ Advance(q, e) \in Nat \ {0}
           /\ q + Advance(q, e) <= e
           /\ q + Advance(q, e) \in 0..StreamLen
<1>1. q < e /\ q \in Positions /\ StreamLen \in Nat /\ WordSize \in Nat \ {0}
  BY DecoderAssumption DEF Incomplete, Positions, DecoderAssumption
<1>2. verdict[q].n \in Nat \ {0}
  BY <1>1, VerdictType
<1>3. CASE Decodes(q, e)
  BY <1>1, <1>2, <1>3 DEF Advance, Decodes
<1>4. CASE ~Decodes(q, e)
  BY <1>1, <1>4 DEF Advance, Skipped, Smaller
<1> QED BY <1>3, <1>4

-----------------------------------------------------------------------------
(***************************************************************************)
(* Decoding in one go                                                      *)
(***************************************************************************)

\* The functions inside StopsAt and Messages.
Stop(e) ==
    CHOOSE f : f = [q \in 0..StreamLen |->
        IF Incomplete(q, e) THEN q ELSE f[q + Advance(q, e)]]

Count(e, m) ==
    CHOOSE f : f = [r \in 0..m |-> [q \in 0..StreamLen |->
        IF r = 0 \/ Incomplete(q, e) THEN 0
        ELSE (IF Decodes(q, e) THEN 1 ELSE 0) + f[r - 1][q + Advance(q, e)]]]

\* There is such a function: one that is right for the last k positions
\* extends to the one before, since a record only leads forward.
LEMMA StopExists ==
    ASSUME WellTyped, NEW e \in 0..StreamLen
    PROVE  \E f : f = [q \in 0..StreamLen |->
               IF Incomplete(q, e) THEN q ELSE f[q + Advance(q, e)]]
<1> DEFINE Good(f, q) == f[q] = IF Incomplete(q, e) THEN q ELSE f[q + Advance(q, e)]
           P(k) == \E f \in [0..StreamLen -> 0..StreamLen] :
                       \A q \in (StreamLen - k)..StreamLen : Good(f, q)
           S == {k \in 0..StreamLen : ~P(k)}
<1>0. StreamLen \in Nat
  BY DecoderAssumption DEF DecoderAssumption
<1>1. P(0)
  <2> DEFINE f == [q \in 0..StreamLen |-> q]
  <2>1. f \in [0..StreamLen -> 0..StreamLen]
    OBVIOUS
  <2>2. ASSUME NEW q \in (StreamLen - 0)..StreamLen PROVE Good(f, q)
    <3>1. q = StreamLen /\ q \in 0..StreamLen
      BY <1>0
    <3>2. Incomplete(q, e)
      BY <1>0, <3>1, AdvanceFits
    <3> QED BY <3>1, <3>2
  <2> QED BY <2>1, <2>2
<1>2. ASSUME NEW k \in 1..StreamLen, P(k - 1) PROVE P(k)
  <2> HIDE DEF Good
  <2>1. PICK f \in [0..StreamLen -> 0..StreamLen] :
            \A q \in (StreamLen - (k - 1))..StreamLen : Good(f, q)
    BY <1>2
  <2> DEFINE x == StreamLen - k
             g == [f EXCEPT ![x] = IF Incomplete(x, e) THEN x ELSE f[x + Advance(x, e)]]
  <2>2. x \in 0..StreamLen
    BY <1>0
  <2>3. ~Incomplete(x, e) => x + Advance(x, e) \in 0..StreamLen /\ x + Advance(x, e) > x
    <3>1. ASSUME ~Incomplete(x, e)
          PROVE  Advance(x, e) \in Nat \ {0} /\ x + Advance(x, e) \in 0..StreamLen
      BY <2>2, <3>1, AdvanceFits
    <3> QED BY <2>2, <3>1
  <2> HIDE DEF x
  <2>4. g \in [0..StreamLen -> 0..StreamLen]
    BY <2>2, <2>3
  <2>5. ASSUME NEW q \in (StreamLen - k)..StreamLen PROVE Good(g, q)
    <3>1. q \in 0..StreamLen
      BY <1>0
    <3>2. CASE q = x
      <4>1. g[x] = IF Incomplete(x, e) THEN x ELSE f[x + Advance(x, e)]
        BY <2>2
      <4>2. ~Incomplete(x, e) => g[x + Advance(x, e)] = f[x + Advance(x, e)]
        BY <2>2, <2>3
      <4> QED BY <3>2, <4>1, <4>2 DEF Good
    <3>3. CASE q # x
      <4>1. q \in (StreamLen - (k - 1))..StreamLen /\ q > x
        BY <1>0, <3>3 DEF x
      <4>2. Good(f, q)
        BY <2>1, <4>1
      <4>3. ASSUME ~Incomplete(q, e) PROVE q + Advance(q, e) \in 0..StreamLen /\ q + Advance(q, e) > x
        <5>1. Advance(q, e) \in Nat \ {0} /\ q + Advance(q, e) \in 0..StreamLen
          BY <3>1, <4>3, AdvanceFits
        <5> QED BY <2>2, <3>1, <4>1, <5>1
      <4>4. ~Incomplete(q, e) => g[q + Advance(q, e)] = f[q + Advance(q, e)]
        <5>1. ASSUME ~Incomplete(q, e), NEW y, y = q + Advance(q, e) PROVE g[y] = f[y]
          <6>1. y \in 0..StreamLen /\ y # x
            BY <4>3, <5>1, <2>2
          <6> QED BY <6>1
        <5> QED BY <5>1
      <4>5. g[q] = f[q]
        BY <3>1, <3>3
      <4> QED BY <4>2, <4>4, <4>5 DEF Good
    <3> QED BY <3>2, <3>3
  <2> QED BY <2>4, <2>5
<1> HIDE DEF P
<1>3. S = {}
  <2> SUFFICES ASSUME S # {} PROVE FALSE
    OBVIOUS
  <2>1. PICK m \in S : \A k \in S : m <= k
    <3>1. S \in SUBSET Nat
      OBVIOUS
    <3> HIDE DEF S
    <3> QED BY <3>1, Least
  <2>2. m # 0
    BY <1>1, <2>1
  <2>3. m \in 1..StreamLen /\ m - 1 \in 0..StreamLen /\ ~(m <= m - 1)
    BY <1>0, <2>1, <2>2
  <2>4. P(m - 1)
    BY <2>1, <2>3
  <2> QED BY <1>2, <2>1, <2>3, <2>4
<1>4. P(StreamLen)
  BY <1>0, <1>3
<1> USE DEF P
<1>5. PICK f \in [0..StreamLen -> 0..StreamLen] : \A q \in 0..StreamLen : Good(f, q)
  <2>1. (StreamLen - StreamLen)..StreamLen = 0..StreamLen
    BY <1>0
  <2> QED BY <1>4, <2>1
<1>6. f = [q \in 0..StreamLen |-> IF Incomplete(q, e) THEN q ELSE f[q + Advance(q, e)]]
  BY <1>5
<1> QED BY <1>6

\* The equation of StopsAt.
LEMMA StopStep ==
    ASSUME WellTyped, NEW e \in 0..StreamLen, NEW q \in 0..StreamLen
    PROVE  StopsAt(q, e) = IF Incomplete(q, e) THEN q ELSE StopsAt(q + Advance(q, e), e)
<1>1. \A p : StopsAt(p, e) = Stop(e)[p]
  BY DEF StopsAt, Stop
<1>2. Stop(e) = [p \in 0..StreamLen |->
                   IF Incomplete(p, e) THEN p ELSE Stop(e)[p + Advance(p, e)]]
  BY StopExists DEF Stop
<1> QED BY <1>1, <1>2

\* The same for the count, by the number of records looked at.
LEMMA CountExists ==
    ASSUME WellTyped, NEW e \in 0..StreamLen, NEW m \in Nat
    PROVE  \E f : f \in [0..m -> [0..StreamLen -> Nat]] /\
           f = [r \in 0..m |-> [q \in 0..StreamLen |->
               IF r = 0 \/ Incomplete(q, e) THEN 0
               ELSE (IF Decodes(q, e) THEN 1 ELSE 0) + f[r - 1][q + Advance(q, e)]]]
<1> DEFINE Row(g, z) == [q \in 0..StreamLen |->
               IF z \/ Incomplete(q, e) THEN 0
               ELSE (IF Decodes(q, e) THEN 1 ELSE 0) + g[q + Advance(q, e)]]
           P(k) == \E f \in [0..m -> [0..StreamLen -> Nat]] :
                       \A r \in 0..k : f[r] = Row(f[r - 1], r = 0)
           S == {k \in 0..m : ~P(k)}
<1>0. \A g \in [0..StreamLen -> Nat] : Row(g, FALSE) \in [0..StreamLen -> Nat]
  BY AdvanceFits
<1>1. P(0)
  <2> DEFINE z == [q \in 0..StreamLen |-> 0]
             f == [r \in 0..m |-> z]
  <2>1. f \in [0..m -> [0..StreamLen -> Nat]]
    OBVIOUS
  <2>2. \A g : Row(g, TRUE) = z
    OBVIOUS
  <2>3. \A r \in 0..0 : f[r] = z /\ r = 0
    OBVIOUS
  <2> HIDE DEF Row, f, z
  <2>4. \A r \in 0..0 : f[r] = Row(f[r - 1], r = 0)
    BY <2>2, <2>3
  <2> QED BY <2>1, <2>4
<1> HIDE DEF Row
<1>2. ASSUME NEW k \in 1..m, P(k - 1) PROVE P(k)
  <2>1. PICK f \in [0..m -> [0..StreamLen -> Nat]] :
            \A r \in 0..(k - 1) : f[r] = Row(f[r - 1], r = 0)
    BY <1>2
  <2> DEFINE g == [f EXCEPT ![k] = Row(f[k - 1], FALSE)]
  <2>2. g \in [0..m -> [0..StreamLen -> Nat]]
    <3>1. f[k - 1] \in [0..StreamLen -> Nat]
      OBVIOUS
    <3>2. Row(f[k - 1], FALSE) \in [0..StreamLen -> Nat]
      BY <1>0, <3>1
    <3> QED BY <3>2
  <2>3. ASSUME NEW r \in 0..k PROVE g[r] = Row(g[r - 1], r = 0)
    <3>1. CASE r = k
      <4>1. g[k] = Row(f[k - 1], FALSE)
        <5>1. \A w : [f EXCEPT ![k] = w][k] = w
          OBVIOUS
        <5> QED BY <5>1
      <4>2. g[k - 1] = f[k - 1]
        <5>1. k - 1 # k /\ k - 1 \in 0..m /\ k \in 0..m
          OBVIOUS
        <5> QED BY <5>1
      <4>3. (k = 0) = FALSE
        OBVIOUS
      <4> HIDE DEF g
      <4> QED BY <3>1, <4>1, <4>2, <4>3
    <3>2. CASE r # k
      <4>1. r \in 0..(k - 1) /\ g[r] = f[r]
        BY <3>2
      <4>2. r # 0 => g[r - 1] = f[r - 1]
        <5>1. r # 0 => r - 1 # k /\ r - 1 \in 0..m
          BY <3>2
        <5> QED BY <5>1
      <4>3. f[r] = Row(f[r - 1], r = 0)
        BY <2>1, <4>1
      <4>4. Row(f[r - 1], TRUE) = Row(g[r - 1], TRUE)
        BY DEF Row
      <4> HIDE DEF g
      <4>5. CASE r = 0
        <5>1. (r = 0) = TRUE
          BY <4>5
        <5> QED BY <5>1, <4>1, <4>3, <4>4
      <4>6. CASE r # 0
        BY <4>6, <4>1, <4>2, <4>3
      <4> QED BY <4>5, <4>6
    <3> QED BY <3>1, <3>2
  <2> HIDE DEF g
  <2> QED BY <2>2, <2>3
<1> HIDE DEF P
<1>3. S = {}
  <2> SUFFICES ASSUME S # {} PROVE FALSE
    OBVIOUS
  <2>1. PICK x \in S : \A k \in S : x <= k
    <3>1. S \in SUBSET Nat
      OBVIOUS
    <3> HIDE DEF S
    <3> QED BY <3>1, Least
  <2>2. x # 0
    BY <1>1, <2>1
  <2>3. x \in 1..m /\ x - 1 \in 0..m /\ ~(x <= x - 1)
    BY <2>1, <2>2
  <2>4. P(x - 1)
    BY <2>1, <2>3
  <2> QED BY <1>2, <2>1, <2>3, <2>4
<1>4. P(m)
  BY <1>3
<1>5. PICK f \in [0..m -> [0..StreamLen -> Nat]] :
          \A r \in 0..m : f[r] = Row(f[r - 1], r = 0)
  BY <1>4 DEF P
<1>6. f = [r \in 0..m |-> Row(f[r - 1], r = 0)]
  BY <1>5
<1> QED BY <1>5, <1>6 DEF Row

\* The equation of the count.
LEMMA CountStep ==
    ASSUME WellTyped, NEW e \in 0..StreamLen, NEW m \in Nat,
           NEW r \in 0..m, NEW q \in 0..StreamLen
    PROVE  Count(e, m)[r][q] =
               IF r = 0 \/ Incomplete(q, e) THEN 0
               ELSE (IF Decodes(q, e) THEN 1 ELSE 0)
                       + Count(e, m)[r - 1][q + Advance(q, e)]
<1>1. Count(e, m) = [s \in 0..m |-> [p \in 0..StreamLen |->
               IF s = 0 \/ Incomplete(p, e) THEN 0
               ELSE (IF Decodes(p, e) THEN 1 ELSE 0)
                       + Count(e, m)[s - 1][p + Advance(p, e)]]]
  <2> DEFINE T(f) == f = [s \in 0..m |-> [p \in 0..StreamLen |->
               IF s = 0 \/ Incomplete(p, e) THEN 0
               ELSE (IF Decodes(p, e) THEN 1 ELSE 0)
                       + f[s - 1][p + Advance(p, e)]]]
  <2>1. Count(e, m) = CHOOSE f : T(f)
    BY DEF Count
  <2>2. \E f : T(f)
    <3>1. PICK f : f \in [0..m -> [0..StreamLen -> Nat]] /\ T(f)
      BY CountExists
    <3> HIDE DEF T
    <3> QED BY <3>1
  <2> HIDE DEF T
  <2>3. T(Count(e, m))
    BY <2>1, <2>2
  <2> USE DEF T
  <2> QED BY <2>3
<1>2. Count(e, m)[r] = [p \in 0..StreamLen |->
               IF r = 0 \/ Incomplete(p, e) THEN 0
               ELSE (IF Decodes(p, e) THEN 1 ELSE 0)
                       + Count(e, m)[r - 1][p + Advance(p, e)]]
  <2> DEFINE F(s) == [p \in 0..StreamLen |->
               IF s = 0 \/ Incomplete(p, e) THEN 0
               ELSE (IF Decodes(p, e) THEN 1 ELSE 0)
                       + Count(e, m)[s - 1][p + Advance(p, e)]]
  <2>1. Count(e, m) = [s \in 0..m |-> F(s)]
    BY <1>1
  <2> HIDE DEF F
  <2>2. Count(e, m)[r] = F(r)
    BY <2>1
  <2> QED BY <2>2 DEF F
<1> QED BY <1>2

\* Messages is the count with its bound as the number of records.
LEMMA MessagesIsCount ==
    \A p, e, m : Messages(p, e, m) = Count(e, m)[m][p]
  BY DEF Messages, Count

\* The count is a number.
LEMMA CountType ==
    ASSUME WellTyped, NEW e \in 0..StreamLen, NEW m \in Nat
    PROVE  \A r \in 0..m : \A q \in 0..StreamLen : Count(e, m)[r][q] \in Nat
<1> DEFINE S == {r \in 0..m : \E q \in 0..StreamLen : Count(e, m)[r][q] \notin Nat}
<1> SUFFICES ASSUME S # {} PROVE FALSE
  OBVIOUS
<1>1. PICK r \in S : \A k \in S : r <= k
  <2>1. S \in SUBSET Nat
    OBVIOUS
  <2> HIDE DEF S
  <2> QED BY <2>1, Least
<1>2. PICK q \in 0..StreamLen : Count(e, m)[r][q] \notin Nat
  BY <1>1
<1>3. r \in 0..m /\ r \in Nat
  BY <1>1
<1>4. ~(r = 0 \/ Incomplete(q, e))
  <2> HIDE DEF S
  <2> QED BY <1>2, <1>3, CountStep
<1>5. q + Advance(q, e) \in 0..StreamLen
  BY <1>4, AdvanceFits
<1>6. Count(e, m)[r - 1][q + Advance(q, e)] \in Nat
  <2>1. r - 1 \in 0..m /\ ~(r <= r - 1)
    BY <1>3, <1>4
  <2>2. r - 1 \notin S
    <3> HIDE DEF S
    <3> QED BY <1>1, <2>1
  <2> QED BY <1>5, <2>1, <2>2
<1>7. Count(e, m)[r][q] = (IF Decodes(q, e) THEN 1 ELSE 0)
                             + Count(e, m)[r - 1][q + Advance(q, e)]
  <2> HIDE DEF S
  <2> QED BY <1>3, <1>4, CountStep
<1>8. (IF Decodes(q, e) THEN 1 ELSE 0) \in Nat
  OBVIOUS
<1> QED BY <1>2, <1>6, <1>7, <1>8

-----------------------------------------------------------------------------
(***************************************************************************)
(* detect_alignment                                                        *)
(***************************************************************************)

\* Among n scores there is a best one, the lowest of those that tie.
LEMMA BestExists ==
    ASSUME NEW n \in Nat \ {0}, NEW s \in [0..(n - 1) -> Nat]
    PROVE  \E o \in 0..(n - 1) : \A u \in 0..(n - 1) :
               (u < o => s[o] > s[u]) /\ (u > o => ~(s[u] > s[o]))
<1> DEFINE Best(o, k) == \A u \in 0..k :
               (u < o => s[o] > s[u]) /\ (u > o => ~(s[u] > s[o]))
           P(k) == \E o \in 0..k : Best(o, k)
           S == {k \in 0..(n - 1) : ~P(k)}
<1>1. P(0)
  <2>1. Best(0, 0)
    OBVIOUS
  <2> QED BY <2>1
<1>2. ASSUME NEW k \in 1..(n - 1), P(k - 1) PROVE P(k)
  <2>1. PICK o \in 0..(k - 1) : Best(o, k - 1)
    BY <1>2
  <2>2. \A u \in 0..k : u \in 0..(k - 1) \/ u = k
    OBVIOUS
  <2>3. s[o] \in Nat /\ s[k] \in Nat /\ \A u \in 0..(k - 1) : s[u] \in Nat
    OBVIOUS
  <2>4. CASE s[k] > s[o]
    <3>1. ASSUME NEW u \in 0..(k - 1) PROVE s[k] > s[u]
      <4>1. s[u] <= s[o]
        <5>1. (u < o => s[o] > s[u]) /\ (u > o => ~(s[u] > s[o]))
          BY <2>1
        <5>2. u < o \/ u = o \/ u > o
          OBVIOUS
        <5> QED BY <5>1, <5>2, <2>3
      <4> QED BY <4>1, <2>3, <2>4
    <3>2. Best(k, k)
      <4>1. ASSUME NEW u \in 0..k
            PROVE  (u < k => s[k] > s[u]) /\ (u > k => ~(s[u] > s[k]))
        BY <2>2, <3>1
      <4> QED BY <4>1
    <3> QED BY <3>2
  <2>5. CASE ~(s[k] > s[o])
    <3>1. Best(o, k)
      <4>1. ASSUME NEW u \in 0..k
            PROVE  (u < o => s[o] > s[u]) /\ (u > o => ~(s[u] > s[o]))
        <5>1. CASE u \in 0..(k - 1)
          BY <5>1, <2>1
        <5>2. CASE u = k
          BY <5>2, <2>5
        <5> QED BY <5>1, <5>2, <2>2
      <4> QED BY <4>1
    <3>2. o \in 0..k
      OBVIOUS
    <3> HIDE DEF Best
    <3> QED BY <3>1, <3>2
  <2> QED BY <2>4, <2>5
<1> HIDE DEF P
<1>3. S = {}
  <2> SUFFICES ASSUME S # {} PROVE FALSE
    OBVIOUS
  <2>1. PICK x \in S : \A k \in S : x <= k
    <3>1. S \in SUBSET Nat
      OBVIOUS
    <3> HIDE DEF S
    <3> QED BY <3>1, Least
  <2>2. x # 0
    BY <1>1, <2>1
  <2>3. x \in 1..(n - 1) /\ x - 1 \in 0..(n - 1) /\ ~(x <= x - 1)
    BY <2>1, <2>2
  <2>4. P(x - 1)
    BY <2>1, <2>3
  <2> QED BY <1>2, <2>1, <2>3, <2>4
<1>4. P(n - 1)
  BY <1>3
<1> QED BY <1>4 DEF P

\* A score is a number, that of the offset cut off at the end of the bytes.
LEMMA ScoreType ==
    ASSUME WellTyped, NEW h \in 0..StreamLen, NEW o \in Nat
    PROVE  /\ Smaller(o, h) \in 0..StreamLen
           /\ Score(o, h) = Count(h, Probes)[Probes][Smaller(o, h)]
           /\ Score(o, h) \in Nat
<1>0. Probes \in Nat \ {0} /\ StreamLen \in Nat
  BY DecoderAssumption DEF DecoderAssumption
<1>1. Smaller(o, h) \in 0..StreamLen
  BY <1>0 DEF Smaller
<1>2. Score(o, h) = Count(h, Probes)[Probes][Smaller(o, h)]
  BY MessagesIsCount DEF Score
<1>3. Count(h, Probes)[Probes][Smaller(o, h)] \in Nat
  BY <1>0, <1>1, CountType
<1> QED BY <1>1, <1>2, <1>3

\* detect_alignment returns an offset, and the best one.
LEMMA DetectBest ==
    ASSUME WellTyped, NEW h \in 0..StreamLen
    PROVE  /\ Detect(h) \in 0..(WordSize - 1)
           /\ \A u \in 0..(WordSize - 1) :
                  /\ u < Detect(h) => Score(Detect(h), h) > Score(u, h)
                  /\ u > Detect(h) => ~(Score(u, h) > Score(Detect(h), h))
<1> DEFINE Best(o) == \A u \in 0..(WordSize - 1) :
               (u < o => Score(o, h) > Score(u, h)) /\ (u > o => ~(Score(u, h) > Score(o, h)))
           s == [o \in 0..(WordSize - 1) |-> Score(o, h)]
<1>0. WordSize \in Nat \ {0}
  BY DecoderAssumption DEF DecoderAssumption
<1>1. s \in [0..(WordSize - 1) -> Nat]
  <2>1. \A o \in 0..(WordSize - 1) : o \in Nat
    BY <1>0
  <2>2. \A o \in 0..(WordSize - 1) : Score(o, h) \in Nat
    BY <2>1, ScoreType
  <2> QED BY <2>2
<1>2. \E o \in 0..(WordSize - 1) : Best(o)
  <2>1. PICK o \in 0..(WordSize - 1) : \A u \in 0..(WordSize - 1) :
               (u < o => s[o] > s[u]) /\ (u > o => ~(s[u] > s[o]))
    <3> HIDE DEF s
    <3> QED BY <1>0, <1>1, BestExists
  <2>2. Best(o)
    BY <2>1
  <2> QED BY <2>2
<1>3. Detect(h) = CHOOSE o \in 0..(WordSize - 1) : Best(o)
  BY DEF Detect, Better
<1> HIDE DEF Best
<1>4. Detect(h) \in 0..(WordSize - 1) /\ Best(Detect(h))
  BY <1>2, <1>3
<1> QED BY <1>4 DEF Best

\* There is no message past the end of the bytes.
LEMMA PastTheEnd ==
    ASSUME WellTyped, NEW e \in 0..StreamLen, NEW m \in Nat, NEW r \in 0..m,
           NEW q \in e..StreamLen
    PROVE  Count(e, m)[r][q] = 0
<1>1. q \in 0..StreamLen /\ ~(q < e)
  BY DecoderAssumption DEF DecoderAssumption
<1>2. Incomplete(q, e)
  BY <1>1 DEF Incomplete
<1> QED BY <1>1, <1>2, CountStep

\* The offset lies within the bytes it was found in, so that all bytes
\* before it are there to be stripped (decode.py:283-288).
LEMMA DetectFits ==
    ASSUME WellTyped, NEW h \in 0..StreamLen
    PROVE  Detect(h) <= h
<1>0. WordSize \in Nat \ {0} /\ StreamLen \in Nat /\ Probes \in Nat
  BY DecoderAssumption DEF DecoderAssumption
<1>1. Detect(h) \in 0..(WordSize - 1) /\ Detect(h) \in Nat /\ 0 \in 0..(WordSize - 1)
  BY <1>0, DetectBest
<1> SUFFICES ASSUME Detect(h) > h PROVE FALSE
  BY <1>1
<1>2. Score(Detect(h), h) > Score(0, h)
  <2>1. 0 < Detect(h)
    BY <1>1
  <2> QED BY <1>1, <2>1, DetectBest
<1>3. Score(Detect(h), h) = 0
  <2>1. Smaller(Detect(h), h) = h /\ h \in h..StreamLen
    BY <1>0, <1>1 DEF Smaller
  <2>2. Count(h, Probes)[Probes][h] = 0
    BY <1>0, <2>1, PastTheEnd
  <2> QED BY <1>1, <2>1, <2>2, ScoreType
<1>4. Score(0, h) \in Nat
  BY ScoreType
<1> QED BY <1>2, <1>3, <1>4

-----------------------------------------------------------------------------
(***************************************************************************)
(* The inductive invariant                                                 *)
(***************************************************************************)
Typed ==
    /\ WellTyped
    /\ arrived \in 0..StreamLen /\ ended \in BOOLEAN /\ feeding \in BOOLEAN
    /\ held \in Nat /\ pos \in Nat /\ given \in Nat
    /\ packets \in Nat /\ errors \in Nat /\ resync \in Nat
    /\ align \in 0..(WordSize - 1) \cup {Unknown}

\* Until the alignment is known the decoder has nothing.
Unaligned ==
    ~Aligned => /\ held < Sample /\ ~feeding
                /\ given = 0 /\ pos = 0
                /\ packets = 0 /\ errors = 0 /\ resync = 0

\* Between two feeds the rest is incomplete: that bounds it.
Tail == /\ pos <= given
        /\ ~feeding => Incomplete(pos, given)

\* A record is a byte at least, and a skip a word at most.
Counted == resync <= errors * WordSize /\ packets + errors <= pos

DInv == Typed /\ Unaligned /\ NothingHeldBack /\ Tail /\ Counted

\* The constants' types.
LEMMA Bounds ==
    /\ WordSize \in Nat \ {0} /\ MaxPacket \in Nat \ {0}
    /\ Probes \in Nat \ {0} /\ Sample \in Nat \ {0}
    /\ StreamLen \in Nat /\ MaxChunk \in Nat
    /\ Unknown \notin 0..(WordSize - 1)
  BY DecoderAssumption DEF DecoderAssumption

\* The invariant holds at the start.
LEMMA DInvInit == Init => DInv
<1> SUFFICES ASSUME Init PROVE DInv
  OBVIOUS
<1> USE Bounds
<1>1. Typed
  <2>1. Start \in 0..(WordSize - 1) \cup {Unknown}
    BY DecoderAssumption DEF DecoderAssumption
  <2>2. ended \in BOOLEAN /\ feeding \in BOOLEAN
    BY DEF Init
  <2>3. WellTyped
    BY DEF Init, WellTyped
  <2>4. arrived \in 0..StreamLen /\ held \in Nat /\ pos \in Nat /\ given \in Nat
        /\ packets \in Nat /\ errors \in Nat /\ resync \in Nat /\ align = Start
    BY DEF Init
  <2> QED BY <2>1, <2>2, <2>3, <2>4 DEF Typed
<1>2. Tail
  BY DEF Init, Tail, Incomplete
<1> QED BY <1>1, <1>2 DEF Init, DInv, Unaligned, NothingHeldBack, Counted, Aligned

\* Resolving what is held, wherever it is called.
LEMMA DInvResolve ==
    ASSUME DInv, ~Aligned, NEW h \in 0..StreamLen, Resolve(h),
           arrived' = h, ended' \in BOOLEAN,
           UNCHANGED <<verdict, packets, errors, resync>>
    PROVE  DInv'
<1> USE Bounds
<1>1. WellTyped
  BY DEF DInv, Typed
<1>2. align' \in 0..(WordSize - 1) /\ align' \in Nat
  BY <1>1, DetectBest DEF Resolve
<1>3. align' <= h
  BY <1>1, DetectFits DEF Resolve
<1>4. pos' = align'
  BY <1>2, <1>3 DEF Resolve, Smaller
<1>5. Typed'
  BY <1>2, <1>4 DEF DInv, Typed, WellTyped, Resolve
<1>6. NothingHeldBack' /\ Unaligned' /\ Tail'
  BY <1>2, <1>3, <1>4 DEF NothingHeldBack, Unaligned, Tail, Aligned, Resolve
<1>7. Counted'
  BY <1>2, <1>4 DEF DInv, Typed, Counted, Unaligned
<1> QED BY <1>5, <1>6, <1>7 DEF DInv

\* Aligner.feed.
LEMMA DInvChunk ==
    ASSUME DInv, NEW k \in 0..MaxChunk, NEW gap \in BOOLEAN, Chunk(k, gap)
    PROVE  DInv'
<1> USE Bounds
<1>1. CASE align # Unknown
  <2>1. given' = given + k /\ feeding' = TRUE /\ UNCHANGED <<held, align, pos>>
    BY <1>1 DEF Chunk
  <2>2. Typed'
    BY <2>1 DEF DInv, Typed, WellTyped, Chunk
  <2>3. NothingHeldBack' /\ Unaligned' /\ Tail' /\ Counted'
    BY <1>1, <2>1 DEF DInv, Typed, Chunk, NothingHeldBack, Unaligned, Tail, Counted, Aligned
  <2> QED BY <2>2, <2>3 DEF DInv
<1>2. CASE align = Unknown /\ Enough(held + k, k, gap)
  <2>1. Resolve(held + k)
    BY <1>2 DEF Chunk
  <2>2. arrived' = held + k /\ held + k \in 0..StreamLen /\ ended' \in BOOLEAN
    BY <1>2 DEF Chunk, DInv, Typed, NothingHeldBack, Unaligned, Aligned
  <2>3. ~Aligned /\ UNCHANGED <<verdict, packets, errors, resync>>
    BY <1>2 DEF Chunk, Aligned
  <2> QED BY <2>1, <2>2, <2>3, DInvResolve
<1>3. CASE align = Unknown /\ ~Enough(held + k, k, gap)
  <2>1. held' = held + k /\ UNCHANGED <<align, pos, given, feeding>>
    BY <1>3 DEF Chunk
  <2>2. Typed'
    BY <2>1 DEF DInv, Typed, WellTyped, Chunk
  <2>3. held' < Sample
    BY <1>3, <2>1 DEF Enough, DInv, Typed
  <2>4. NothingHeldBack'
    BY <1>3, <2>1 DEF DInv, Typed, Chunk, NothingHeldBack, Aligned
  <2>5. Unaligned'
    BY <1>3, <2>1, <2>3 DEF DInv, Chunk, Unaligned, Aligned
  <2>6. Tail' /\ Counted'
    BY <2>1 DEF DInv, Chunk, Tail, Counted, Incomplete, RanOff, GivesUp
  <2> QED BY <2>2, <2>4, <2>5, <2>6 DEF DInv
<1> QED BY <1>1, <1>2, <1>3

\* The end of the stream.
LEMMA DInvEnd == ASSUME DInv, End PROVE DInv'
<1> USE Bounds
<1>1. CASE align = Unknown /\ held > 0
  <2>1. Resolve(held)
    BY <1>1 DEF End, Flush
  <2>2. arrived' = held /\ held \in 0..StreamLen /\ ended' \in BOOLEAN
    BY <1>1 DEF End, DInv, Typed, NothingHeldBack, Unaligned, Aligned
  <2>3. ~Aligned /\ UNCHANGED <<verdict, packets, errors, resync>>
    BY <1>1 DEF End, Aligned
  <2> QED BY <2>1, <2>2, <2>3, DInvResolve
<1>2. CASE ~(align = Unknown /\ held > 0)
  <2>1. UNCHANGED <<verdict, arrived, held, align, pos, given, feeding, packets, errors, resync>>
    BY <1>2 DEF End, Flush
  <2>2. ended' \in BOOLEAN
    BY DEF End
  <2> QED BY <2>1, <2>2 DEF DInv, Typed, WellTyped, NothingHeldBack, Unaligned, Tail,
                            Counted, Aligned, Incomplete, RanOff, GivesUp
<1> QED BY <1>1, <1>2

\* The decoder runs only on a stream whose alignment is known, and moves by
\* as much as _decode_one says, within its buffer.
LEMMA FeedMoves ==
    ASSUME DInv, feeding, ~Incomplete(pos, given)
    PROVE  /\ Aligned /\ given \in 0..StreamLen /\ pos \in 0..StreamLen
           /\ pos < given /\ pos \in Positions
           /\ Advance(pos, given) \in Nat \ {0}
           /\ pos + Advance(pos, given) <= given
<1> USE Bounds
<1>1. Aligned
  BY DEF DInv, Unaligned
<1>2. given \in 0..StreamLen /\ pos \in 0..StreamLen /\ WellTyped
  BY <1>1 DEF DInv, Typed, NothingHeldBack, Tail
<1> QED BY <1>1, <1>2, AdvanceFits

\* A message.
LEMMA DInvEmit == ASSUME DInv, Emit PROVE DInv'
<1> USE Bounds
<1>1. Advance(pos, given) = verdict[pos].n
  BY DEF Emit, Advance
<1>2. Aligned /\ verdict[pos].n \in Nat \ {0} /\ pos + verdict[pos].n <= given
  BY <1>1, FeedMoves DEF Emit
<1>3. Typed'
  BY <1>2 DEF DInv, Typed, WellTyped, Emit
<1>4. Counted'
  <2>1. packets' = packets + 1 /\ errors' = errors /\ resync' = resync
        /\ pos' = pos + verdict[pos].n
    BY DEF Emit
  <2>2. pos \in Nat /\ packets \in Nat /\ errors \in Nat
    BY DEF DInv, Typed
  <2> QED BY <1>2, <2>1, <2>2 DEF DInv, Counted
<1>5. NothingHeldBack' /\ Unaligned' /\ Tail'
  BY <1>2 DEF DInv, Typed, NothingHeldBack, Unaligned, Tail, Aligned, Emit
<1> QED BY <1>3, <1>4, <1>5 DEF DInv

\* A skip drops a word, or what there is of it.
LEMMA DropFits ==
    ASSUME DInv, Skip
    PROVE  /\ Aligned /\ Drop = Advance(pos, given)
           /\ Drop \in 1..WordSize /\ pos + Drop <= given
<1> USE Bounds
<1>1. Drop = Advance(pos, given)
  BY DEF Skip, Advance, Drop
<1>2. Aligned /\ Drop \in Nat \ {0} /\ pos + Drop <= given
  BY <1>1, FeedMoves DEF Skip
<1>3. Drop <= WordSize
  BY DEF Drop, Skipped, Smaller, DInv, Typed
<1> QED BY <1>1, <1>2, <1>3

\* A skip.
LEMMA DInvSkip == ASSUME DInv, Skip PROVE DInv'
<1> USE Bounds
<1> DEFINE d == Drop
<1>2. Aligned /\ d \in 1..WordSize /\ pos + d <= given
  BY DropFits
<1>0. /\ pos' = pos + d /\ errors' = errors + 1 /\ resync' = resync + d
      /\ UNCHANGED <<verdict, arrived, ended, held, align, given, feeding, packets>>
      /\ feeding
  BY DEF Skip
<1> HIDE DEF d
<1>3. Typed'
  BY <1>0, <1>2 DEF DInv, Typed, WellTyped
<1>4. Counted'
  <2>1. pos \in Nat /\ packets \in Nat /\ errors \in Nat /\ resync \in Nat
    BY DEF DInv, Typed
  <2>2. (errors + 1) * WordSize = errors * WordSize + WordSize /\ errors * WordSize \in Nat
    BY <2>1
  <2>3. resync + d <= errors * WordSize + WordSize
    BY <1>2, <2>1, <2>2 DEF DInv, Counted
  <2>4. packets + (errors + 1) <= pos + d
    BY <1>2, <2>1 DEF DInv, Counted
  <2> QED BY <1>0, <2>2, <2>3, <2>4 DEF Counted
<1>5. NothingHeldBack' /\ Unaligned' /\ Tail'
  BY <1>0, <1>2 DEF DInv, Typed, NothingHeldBack, Unaligned, Tail, Aligned
<1> QED BY <1>3, <1>4, <1>5 DEF DInv

\* The end of a feed, and stuttering.
LEMMA DInvWait == ASSUME DInv, Wait PROVE DInv'
  BY DEF DInv, Typed, WellTyped, NothingHeldBack, Unaligned, Tail, Counted,
         Aligned, Wait, Incomplete, RanOff, GivesUp

LEMMA DInvStutter == ASSUME DInv, UNCHANGED vars PROVE DInv'
  BY DEF DInv, Typed, WellTyped, NothingHeldBack, Unaligned, Tail, Counted,
         Aligned, vars, Incomplete, RanOff, GivesUp

\* DInv holds in every reachable state.
THEOREM Invariance == Spec => []DInv
<1>1. DInv /\ [Next]_vars => DInv'
  BY DInvChunk, DInvEnd, DInvEmit, DInvSkip, DInvWait, DInvStutter DEF Next
<1> QED BY DInvInit, <1>1, PTL DEF Spec

\* Positions stay within the bytes that have arrived, and fewer bytes than a
\* sample are ever held back.
THEOREM TypeCorrectness == Spec => []TypeOK
<1>1. DInv => TypeOK
  BY Bounds DEF DInv, Typed, NothingHeldBack, Unaligned, Tail, TypeOK, Aligned
<1> QED BY Invariance, <1>1, PTL

\* Once the alignment is known no byte is held, and until then all are.
THEOREM NothingIsHeldBack == Spec => []NothingHeldBack
<1>1. DInv => NothingHeldBack
  BY DEF DInv
<1> QED BY Invariance, <1>1, PTL

\* Whatever the stream, the buffer is shorter than MAX_PACKET_BYTES between
\* two feeds.
THEOREM TailIsBounded == Spec => []TailBounded
<1>1. DInv => TailBounded
  BY Bounds DEF DInv, Typed, Tail, TailBounded, Incomplete, GivesUp
<1> QED BY Invariance, <1>1, PTL

-----------------------------------------------------------------------------
(***************************************************************************)
(* Cutting the stream into chunks                                          *)
(*                                                                         *)
(* Short and Whole are the hypotheses of ChunkIndependent.  AsInOneGo(e)   *)
(* compares the decoder with a run over the bytes up to e, for every e     *)
(* that the buffer may still grow to: what the decoder has decided on the  *)
(* bytes it has, it would have decided on more.                            *)
(***************************************************************************)
Short == \A p \in Positions : verdict[p].n <= MaxPacket
Whole == resync = errors * WordSize

\* messages among the first r records from q on
Found(e, r, q) == Count(e, StreamLen)[r][q]

AsInOneGo(e) ==
    /\ StopsAt(align, e) = StopsAt(pos, e)
    /\ Found(e, StreamLen, align) = packets + Found(e, StreamLen - packets - errors, pos)

Synced == Aligned /\ Short /\ Whole =>
              align <= given /\ \A e \in given..StreamLen : AsInOneGo(e)

\* A message is one, whatever follows it.
LEMMA EmitPersists ==
    ASSUME WellTyped, NEW p \in Positions, NEW g \in 0..StreamLen, NEW e \in g..StreamLen,
           p < g, Decodes(p, g)
    PROVE  ~Incomplete(p, e) /\ Decodes(p, e) /\ Advance(p, e) = verdict[p].n
<1>1. verdict[p].n \in Nat \ {0}
  BY VerdictType
<1> QED BY <1>1, Bounds DEF Incomplete, RanOff, Decodes, Advance, Positions

\* A whole word that is skipped would be skipped with more bytes there,
\* if no message is longer than the cap: a tail is given up only at the cap.
LEMMA SkipPersists ==
    ASSUME WellTyped, Short, NEW p \in Positions, NEW g \in 0..StreamLen,
           NEW e \in g..StreamLen, p < g, ~Incomplete(p, g), ~Decodes(p, g),
           Skipped(p, g) = WordSize
    PROVE  ~Incomplete(p, e) /\ ~Decodes(p, e) /\ Advance(p, e) = WordSize
<1> USE Bounds
<1> DEFINE n == verdict[p].n
<1>1. n \in Nat \ {0} /\ n <= MaxPacket /\ verdict[p].kind \in {"type", "good", "bad"}
  BY VerdictType DEF Short
<1>2. p \in Nat /\ g \in Nat /\ e \in Nat /\ g <= e
  BY DEF Positions
<1>3. e - p >= g - p /\ g - p >= WordSize
  BY <1>2 DEF Skipped, Smaller
<1>4. ~Incomplete(p, e)
  BY <1>1, <1>2, <1>3 DEF Incomplete, RanOff, GivesUp
<1>5. ~Decodes(p, e)
  BY <1>1, <1>2, <1>3 DEF Incomplete, RanOff, GivesUp, Decodes
<1>6. Advance(p, e) = WordSize
  BY <1>2, <1>3, <1>5 DEF Advance, Skipped, Smaller
<1> QED BY <1>4, <1>5, <1>6

\* Type and equation of Found.
LEMMA FoundType ==
    ASSUME WellTyped, NEW e \in 0..StreamLen, NEW r \in 0..StreamLen, NEW q \in 0..StreamLen
    PROVE  Found(e, r, q) \in Nat
  BY Bounds, CountType DEF Found

LEMMA FoundStep ==
    ASSUME WellTyped, NEW e \in 0..StreamLen, NEW r \in 1..StreamLen, NEW q \in 0..StreamLen,
           ~Incomplete(q, e)
    PROVE  Found(e, r, q) = (IF Decodes(q, e) THEN 1 ELSE 0) + Found(e, r - 1, q + Advance(q, e))
<1>1. r \in 0..StreamLen /\ r # 0 /\ StreamLen \in Nat
  BY Bounds
<1> QED BY <1>1, CountStep DEF Found

\* One record of the buffer is the same record of the stream in one go.
LEMMA AsInOneGoStep ==
    ASSUME DInv, feeding, ~Incomplete(pos, given), verdict' = verdict, align' = align,
           NEW e \in given..StreamLen, AsInOneGo(e),
           ~Incomplete(pos, e), Advance(pos, e) = Advance(pos, given),
           pos' = pos + Advance(pos, e),
           \/ Decodes(pos, e) /\ packets' = packets + 1 /\ errors' = errors
           \/ ~Decodes(pos, e) /\ packets' = packets /\ errors' = errors + 1
    PROVE  AsInOneGo(e)'
<1> USE Bounds
<1>1. /\ Aligned /\ given \in 0..StreamLen /\ pos \in 0..StreamLen /\ pos < given
      /\ e \in 0..StreamLen /\ WellTyped
      /\ packets \in Nat /\ errors \in Nat /\ packets + errors <= pos
  BY FeedMoves DEF DInv, Typed, Counted
<1>2. pos' \in 0..StreamLen
  BY <1>1, AdvanceFits
<1>3. StopsAt(pos, e) = StopsAt(pos', e)
  BY <1>1, StopStep
<1> DEFINE r == StreamLen - packets - errors
           s == StreamLen - packets' - errors'
           x == IF Decodes(pos, e) THEN 1 ELSE 0
<1>4. r \in 1..StreamLen /\ s = r - 1 /\ s \in 0..StreamLen /\ packets' = packets + x /\ x \in Nat
  BY <1>1
<1>5. Found(e, r, pos) = x + Found(e, s, pos')
  <2> HIDE DEF r, s
  <2> QED BY <1>1, <1>4, FoundStep
<1>6. Found(e, StreamLen, align) = packets + Found(e, r, pos)
  BY DEF AsInOneGo
<1>7. Found(e, s, pos') \in Nat
  BY <1>1, <1>2, <1>4, FoundType
<1>8. Found(e, StreamLen, align) = packets' + Found(e, s, pos')
  <2> HIDE DEF r, s, x
  <2> QED BY <1>1, <1>4, <1>5, <1>6, <1>7
<1>9. StopsAt(align, e) = StopsAt(pos', e)
  BY <1>3 DEF AsInOneGo
<1> HIDE DEF s
<1>10. /\ StopsAt(align, e)' = StopsAt(align, e) /\ StopsAt(pos, e)' = StopsAt(pos', e)
       /\ Found(e, StreamLen, align)' = Found(e, StreamLen, align)
       /\ Found(e, s, pos') = Found(e, StreamLen - packets - errors, pos)'
  <2>1. StopsAt(align, e)' = StopsAt(align', e) /\ StopsAt(pos, e)' = StopsAt(pos', e)
    BY DEF StopsAt, Incomplete, RanOff, GivesUp, Advance, Decodes, Skipped, Smaller
  <2>2. /\ Found(e, StreamLen, align)' = Found(e, StreamLen, align')
        /\ Found(e, StreamLen - packets - errors, pos)' = Found(e, s, pos')
    BY DEF Found, Count, Incomplete, RanOff, GivesUp, Advance, Decodes, Skipped, Smaller, s
  <2> QED BY <2>1, <2>2
<1> QED BY <1>8, <1>9, <1>10 DEF AsInOneGo

\* If all skips so far are whole words, this one is and those before were.
LEMMA WholeBefore ==
    ASSUME DInv, Skip, Whole'
    PROVE  Whole /\ Drop = WordSize
<1> USE Bounds
<1> DEFINE d == Drop
<1>1. d \in 1..WordSize
  BY DropFits
<1>2. errors' = errors + 1 /\ resync' = resync + d
  BY DEF Skip
<1> HIDE DEF d
<1>3. resync \in Nat /\ errors \in Nat /\ resync <= errors * WordSize
  BY DEF DInv, Typed, Counted
<1>4. (errors + 1) * WordSize = errors * WordSize + WordSize /\ errors * WordSize \in Nat
  BY <1>3
<1>5. resync + d = errors * WordSize + WordSize
  BY <1>2, <1>4 DEF Whole
<1>6. resync = errors * WordSize /\ d = WordSize
  BY <1>1, <1>3, <1>4, <1>5
<1> QED BY <1>6 DEF Whole, d

\* The decoder starts where a run in one go does.
LEMMA SyncedResolve ==
    ASSUME DInv, ~Aligned, NEW h \in 0..StreamLen, Resolve(h), verdict' = verdict,
           UNCHANGED <<packets, errors>>
    PROVE  Synced'
<1> USE Bounds
<1>1. WellTyped /\ packets = 0 /\ errors = 0
  BY DEF DInv, Typed, Unaligned
<1>2. align' \in Nat /\ align' <= h /\ given' = h
  <2>1. Detect(h) \in 0..(WordSize - 1) /\ Detect(h) <= h
    BY <1>1, DetectBest, DetectFits
  <2> QED BY <2>1 DEF Resolve
<1>3. pos' = align'
  BY <1>2 DEF Resolve, Smaller
<1>4. ASSUME NEW e \in h..StreamLen PROVE AsInOneGo(e)'
  <2>1. StopsAt(align, e)' = StopsAt(pos, e)'
    BY <1>3
  <2>2. Found(e, StreamLen, align)' = packets' + Found(e, StreamLen - packets - errors, pos)'
    <3>1. StreamLen - packets' - errors' = StreamLen /\ packets' = 0 /\ errors' = 0
      BY <1>1
    <3>2. align' \in 0..StreamLen /\ e \in 0..StreamLen
      BY <1>2
    <3>3. WellTyped'
      BY <1>1 DEF WellTyped
    <3>4. Found(e, StreamLen, align)' = Found(e, StreamLen, align')
      BY DEF Found, Count, Incomplete, RanOff, GivesUp, Advance, Decodes, Skipped, Smaller
    <3>5. Found(e, StreamLen, align)' \in Nat
      BY <1>1, <3>2, <3>4, FoundType
    <3>6. Found(e, StreamLen - packets - errors, pos)' = Found(e, StreamLen, align)'
      BY <1>3, <3>1
    <3> QED BY <3>1, <3>5, <3>6
  <2> QED BY <2>1, <2>2 DEF AsInOneGo
<1> QED BY <1>2, <1>4 DEF Synced

\* More bytes leave fewer ends to compare with.
LEMMA SyncedSame ==
    ASSUME DInv, Synced, Aligned,
           UNCHANGED <<verdict, align, pos, packets, errors, resync>>,
           given' \in Nat, given <= given'
    PROVE  Synced'
<1> USE Bounds
<1> SUFFICES ASSUME Short', Whole' PROVE (align <= given /\ \A e \in given..StreamLen : AsInOneGo(e))'
  BY DEF Synced
<1>1. Short /\ Whole
  BY DEF Short, Whole
<1>2. align \in Nat /\ given \in Nat
  BY DEF DInv, Typed, Aligned
<1>3. align <= given /\ \A e \in given..StreamLen : AsInOneGo(e)
  BY <1>1 DEF Synced
<1>4. ASSUME NEW e \in given'..StreamLen PROVE AsInOneGo(e)'
  <2>1. AsInOneGo(e)
    <3>1. e \in given..StreamLen
      BY <1>2
    <3> QED BY <1>3, <3>1
  <2>2. AsInOneGo(e)' = AsInOneGo(e)
    BY DEF AsInOneGo, StopsAt, Found, Count, Incomplete, RanOff, GivesUp, Advance,
           Decodes, Skipped, Smaller
  <2> QED BY <2>1, <2>2
<1> QED BY <1>2, <1>3, <1>4

\* The actions, one by one.
LEMMA SyncedEmit == ASSUME DInv, Synced, Emit PROVE Synced'
<1> USE Bounds
<1> SUFFICES ASSUME Short', Whole' PROVE (align <= given /\ \A e \in given..StreamLen : AsInOneGo(e))'
  BY DEF Synced
<1>1. Short /\ Whole
  BY DEF Short, Whole, Emit
<1>2. Aligned /\ given \in 0..StreamLen /\ pos < given /\ pos \in Positions /\ WellTyped
  BY FeedMoves DEF Emit, DInv, Typed
<1>3. align <= given /\ \A e \in given..StreamLen : AsInOneGo(e)
  BY <1>1, <1>2 DEF Synced
<1>4. UNCHANGED <<verdict, align, given, errors>> /\ pos' = pos + verdict[pos].n
      /\ packets' = packets + 1 /\ feeding /\ ~Incomplete(pos, given) /\ Decodes(pos, given)
  BY DEF Emit
<1>5. ASSUME NEW e \in given..StreamLen PROVE AsInOneGo(e)'
  <2>1. ~Incomplete(pos, e) /\ Decodes(pos, e) /\ Advance(pos, e) = verdict[pos].n
    BY <1>2, <1>4, EmitPersists
  <2>2. Advance(pos, given) = verdict[pos].n
    BY <1>4 DEF Advance
  <2> QED BY <1>3, <1>4, <2>1, <2>2, AsInOneGoStep
<1> QED BY <1>3, <1>4, <1>5

LEMMA SyncedSkip == ASSUME DInv, Synced, Skip PROVE Synced'
<1> USE Bounds
<1> SUFFICES ASSUME Short', Whole' PROVE (align <= given /\ \A e \in given..StreamLen : AsInOneGo(e))'
  BY DEF Synced
<1>1. Short /\ Whole /\ Drop = WordSize
  BY WholeBefore DEF Short, Skip
<1>2. Aligned /\ given \in 0..StreamLen /\ pos < given /\ pos \in Positions /\ WellTyped
  BY FeedMoves DEF Skip, DInv, Typed
<1>3. align <= given /\ \A e \in given..StreamLen : AsInOneGo(e)
  BY <1>1, <1>2 DEF Synced
<1>4. UNCHANGED <<verdict, align, given, packets>> /\ pos' = pos + WordSize
      /\ errors' = errors + 1 /\ feeding /\ ~Incomplete(pos, given) /\ ~Decodes(pos, given)
      /\ Skipped(pos, given) = WordSize
  BY <1>1 DEF Skip, Drop
<1>5. ASSUME NEW e \in given..StreamLen PROVE AsInOneGo(e)'
  <2>1. ~Incomplete(pos, e) /\ ~Decodes(pos, e) /\ Advance(pos, e) = WordSize
    BY <1>1, <1>2, <1>4, SkipPersists
  <2>2. Advance(pos, given) = WordSize
    BY <1>4 DEF Advance
  <2> QED BY <1>3, <1>4, <2>1, <2>2, AsInOneGoStep
<1> QED BY <1>3, <1>4, <1>5

LEMMA SyncedChunk ==
    ASSUME DInv, Synced, NEW k \in 0..MaxChunk, NEW gap \in BOOLEAN, Chunk(k, gap)
    PROVE  Synced'
<1> USE Bounds
<1>1. UNCHANGED <<verdict, packets, errors, resync>>
  BY DEF Chunk
<1>2. CASE align # Unknown
  <2>1. given' = given + k /\ UNCHANGED <<align, pos>>
    BY <1>2 DEF Chunk
  <2>2. given' \in Nat /\ given <= given'
    BY <2>1 DEF DInv, Typed
  <2> QED BY <1>1, <1>2, <2>1, <2>2, SyncedSame DEF Aligned
<1>3. CASE align = Unknown /\ Enough(held + k, k, gap)
  <2>1. Resolve(held + k) /\ ~Aligned
    BY <1>3 DEF Chunk, Aligned
  <2>2. held + k \in 0..StreamLen
    BY <2>1 DEF Chunk, DInv, Typed, NothingHeldBack, Unaligned
  <2> QED BY <1>1, <2>1, <2>2, SyncedResolve
<1>4. CASE align = Unknown /\ ~Enough(held + k, k, gap)
  BY <1>4 DEF Chunk, Synced, Aligned
<1> QED BY <1>2, <1>3, <1>4

LEMMA SyncedEnd == ASSUME DInv, Synced, End PROVE Synced'
<1> USE Bounds
<1>1. UNCHANGED <<verdict, packets, errors, resync>>
  BY DEF End
<1>2. CASE align = Unknown /\ held > 0
  <2>1. Resolve(held) /\ ~Aligned
    BY <1>2 DEF End, Flush, Aligned
  <2>2. held \in 0..StreamLen
    BY <2>1 DEF DInv, Typed, NothingHeldBack, Unaligned
  <2> QED BY <1>1, <2>1, <2>2, SyncedResolve
<1>3. CASE ~(align = Unknown /\ held > 0)
  <2>1. UNCHANGED <<align, pos, given>>
    BY <1>3 DEF End, Flush
  <2>2. CASE Aligned
    BY <1>1, <2>1, <2>2, SyncedSame DEF DInv, Typed
  <2>3. CASE ~Aligned
    BY <2>1, <2>3 DEF Synced, Aligned
  <2> QED BY <2>2, <2>3
<1> QED BY <1>2, <1>3

LEMMA SyncedStutter ==
    ASSUME DInv, Synced, Wait \/ UNCHANGED vars
    PROVE  Synced'
<1>1. UNCHANGED <<verdict, align, pos, given, packets, errors, resync>>
  BY DEF Wait, vars
<1>2. CASE Aligned
  BY <1>1, <1>2, SyncedSame DEF DInv, Typed
<1>3. CASE ~Aligned
  BY <1>1, <1>3 DEF Synced, Aligned
<1> QED BY <1>2, <1>3

\* An alignment of 0 strips nothing.
LEMMA SyncedInit == ASSUME Start \in {0, Unknown}, Init PROVE Synced
<1> USE Bounds
<1> SUFFICES ASSUME Aligned PROVE align <= given /\ \A e \in given..StreamLen : AsInOneGo(e)
  BY DEF Synced
<1>1. align = 0 /\ given = 0 /\ pos = 0 /\ packets = 0 /\ errors = 0 /\ WellTyped
  BY DEF Init, Aligned, WellTyped
<1>2. ASSUME NEW e \in 0..StreamLen PROVE AsInOneGo(e)
  <2>1. Found(e, StreamLen, 0) \in Nat
    BY <1>1, FoundType
  <2>2. StreamLen - packets - errors = StreamLen
    BY <1>1
  <2> QED BY <1>1, <2>1, <2>2 DEF AsInOneGo
<1> QED BY <1>1, <1>2

\* Between two feeds the run in one go is over too.
LEMMA SyncedGives == ASSUME DInv, Synced PROVE ChunkIndependent
<1> USE Bounds
<1> SUFFICES ASSUME Aligned, ~feeding, Short, Whole
             PROVE  /\ pos = StopsAt(Smaller(align, given), given)
                    /\ packets = Messages(Smaller(align, given), given, StreamLen)
  BY DEF ChunkIndependent, Short, Whole
<1>1. /\ given \in 0..StreamLen /\ pos \in 0..StreamLen /\ WellTyped /\ Incomplete(pos, given)
      /\ packets \in Nat /\ errors \in Nat /\ packets + errors <= pos
      /\ align \in Nat
  BY DEF DInv, Typed, NothingHeldBack, Tail, Counted, Aligned
<1>2. align <= given /\ AsInOneGo(given)
  BY <1>1 DEF Synced
<1>3. Smaller(align, given) = align
  BY <1>1, <1>2 DEF Smaller
<1>4. StopsAt(pos, given) = pos
  BY <1>1, StopStep
<1>5. Found(given, StreamLen - packets - errors, pos) = 0
  <2>1. StreamLen - packets - errors \in 0..StreamLen
    BY <1>1
  <2> QED BY <1>1, <2>1, CountStep DEF Found
<1>6. Messages(align, given, StreamLen) = Found(given, StreamLen, align)
  BY MessagesIsCount DEF Found
<1> QED BY <1>1, <1>2, <1>3, <1>4, <1>5, <1>6 DEF AsInOneGo

\* How the bytes were cut does not matter.  An alignment that is asked for
\* and not 0 is excluded: none of its bytes are stripped (decode.py:266-267).
THEOREM ChunksDoNotMatter ==
    ASSUME Start \in {0, Unknown}
    PROVE  Spec => []ChunkIndependent
<1>1. DInv /\ Synced /\ [Next]_vars => Synced'
  BY SyncedChunk, SyncedEnd, SyncedEmit, SyncedSkip, SyncedStutter DEF Next
<1>2. Init => Synced
  BY SyncedInit
<1>3. DInv /\ Synced => ChunkIndependent
  BY SyncedGives
<1> QED BY Invariance, <1>1, <1>2, <1>3, PTL DEF Spec

-----------------------------------------------------------------------------
(***************************************************************************)
(* The alignment                                                           *)
(***************************************************************************)

\* Adding a multiple of c changes no remainder.
LEMMA SamePhase ==
    ASSUME NEW c \in Nat \ {0}, NEW a \in Nat, NEW b \in Nat, b % c = 0
    PROVE  (a + b) % c = a % c
<1> DEFINE q == a \div c
           r == a % c
           k == b \div c
<1>1. a = c * q + r /\ r \in 0..(c - 1) /\ q \in Nat
  <2>1. q \in Nat /\ r \in 0..(c - 1)
    OBVIOUS
  <2>2. a = c * q + r
    OBVIOUS
  <2> QED BY <2>1, <2>2
<1>2. b = c * k /\ k \in Nat
  <2>1. k \in Nat
    OBVIOUS
  <2>2. b = c * k + (b % c)
    OBVIOUS
  <2>3. c * k \in Nat
    BY <2>1
  <2> QED BY <2>1, <2>2, <2>3
<1> HIDE DEF q, r, k
<1>3. c * q + c * k = c * (q + k)
  BY <1>1, <1>2
<1>4. a + b = c * (q + k) + r /\ q + k \in Nat
  BY <1>1, <1>2, <1>3
<1>5. \A x \in Nat : (c * x + r) % c = r
  BY <1>1
<1> QED BY <1>4, <1>5 DEF r

\* Where no message begins, a decoder that skips whole words finds none.
LEMMA OutOfPhase ==
    ASSUME WellTyped, NEW o, OnlyAt(o), NEW e \in 0..StreamLen, NEW m \in Nat
    PROVE  \A r \in 0..m : \A q \in 0..StreamLen :
               q % WordSize # o \/ q >= e => Count(e, m)[r][q] = 0
<1> USE Bounds
<1> DEFINE Off(q) == q % WordSize # o \/ q >= e
           S == {r \in 0..m : \E q \in 0..StreamLen : Off(q) /\ Count(e, m)[r][q] # 0}
<1> SUFFICES ASSUME S # {} PROVE FALSE
  OBVIOUS
<1>1. PICK r \in S : \A k \in S : r <= k
  <2>1. S \in SUBSET Nat
    OBVIOUS
  <2> HIDE DEF S
  <2> QED BY <2>1, Least
<1>2. r \in 0..m /\ r \in Nat
  BY <1>1
<1>3. PICK q \in 0..StreamLen : Off(q) /\ Count(e, m)[r][q] # 0
  BY <1>1
<1>4. ~(r = 0 \/ Incomplete(q, e))
  <2> HIDE DEF S
  <2> QED BY <1>2, <1>3, CountStep
<1>5. q < e /\ q \in Positions
  BY <1>4, AdvanceFits
<1>6. q % WordSize # o
  BY <1>3, <1>5
<1>7. ~Decodes(q, e)
  BY <1>5, <1>6 DEF OnlyAt, Decodes
<1> DEFINE p == q + Advance(q, e)
<1>8. Count(e, m)[r][q] = 0 + Count(e, m)[r - 1][p]
  <2> HIDE DEF S
  <2> QED BY <1>2, <1>4, <1>7, CountStep
<1>9. p \in 0..StreamLen
  BY <1>4, AdvanceFits
<1>10. Off(p)
  <2>1. CASE WordSize < e - q
    <3>1. p = q + WordSize
      BY <1>7, <2>1 DEF Advance, Skipped, Smaller
    <3>2. (q + WordSize) % WordSize = q % WordSize
      <4>1. WordSize % WordSize = 0
        OBVIOUS
      <4>2. q \in Nat /\ WordSize \in Nat
        OBVIOUS
      <4> QED BY <4>1, <4>2, SamePhase
    <3> QED BY <3>1, <3>2, <1>6
  <2>2. CASE ~(WordSize < e - q)
    <3>1. p = q + (e - q)
      BY <1>7, <2>2 DEF Advance, Skipped, Smaller
    <3> QED BY <3>1
  <2> QED BY <2>1, <2>2
<1>11. r - 1 \in 0..m /\ ~(r <= r - 1)
  BY <1>2, <1>4
<1>12. r - 1 \notin S
  <2> HIDE DEF S
  <2> QED BY <1>1, <1>11
<1>13. Count(e, m)[r - 1][p] = 0
  <2> HIDE DEF p, Off
  <2> QED BY <1>9, <1>10, <1>11, <1>12
<1> QED BY <1>3, <1>8, <1>13

\* Every other offset scores nothing.
LEMMA DetectFinds ==
    ASSUME WellTyped, NEW h \in 0..StreamLen, NEW o \in 0..(WordSize - 1), OnlyAt(o),
           o = 0 \/ Messages(o, h, Probes) > 0
    PROVE  Detect(h) = o
<1> USE Bounds
<1> DEFINE d == Detect(h)
<1>1. /\ d \in 0..(WordSize - 1) /\ d \in Nat /\ o \in Nat
      /\ \A u \in 0..(WordSize - 1) :
             /\ u < d => Score(d, h) > Score(u, h)
             /\ u > d => ~(Score(u, h) > Score(d, h))
  BY DetectBest
<1>2. \A u \in 0..(WordSize - 1) : u \in Nat /\ Score(u, h) \in Nat
  <2>1. \A u \in 0..(WordSize - 1) : u \in Nat
    OBVIOUS
  <2> QED BY <2>1, ScoreType
<1>3. ASSUME NEW u \in 0..(WordSize - 1), u # o PROVE Score(u, h) = 0
  <2>1. Smaller(u, h) \in 0..StreamLen /\ Score(u, h) = Count(h, Probes)[Probes][Smaller(u, h)]
    BY ScoreType
  <2>2. Smaller(u, h) % WordSize # o \/ Smaller(u, h) >= h
    <3>1. u % WordSize = u
      OBVIOUS
    <3> QED BY <1>3, <3>1 DEF Smaller
  <2> QED BY <2>1, <2>2, OutOfPhase
<1> HIDE DEF d
<1> SUFFICES ASSUME d # o PROVE FALSE
  BY DEF d
<1>4. Score(d, h) = 0 /\ Score(o, h) \in Nat
  BY <1>1, <1>2, <1>3
<1>5. ~(o < d)
  BY <1>1, <1>4
<1>6. o > d
  BY <1>1, <1>5
<1>7. Messages(o, h, Probes) > 0
  BY <1>1, <1>6
<1>8. Messages(o, h, Probes) = Count(h, Probes)[Probes][o]
  BY MessagesIsCount
<1>9. o \in 0..StreamLen
  <2>1. PICK p \in Positions : verdict[p].kind = "good" /\ p % WordSize = o
    BY DEF OnlyAt
  <2>2. p \in Nat /\ p < StreamLen
    BY <2>1 DEF Positions
  <2>3. p % WordSize <= p
    BY <2>2
  <2> QED BY <2>1, <2>2, <2>3
<1>10. o < h
  <2>1. ASSUME ~(o < h) PROVE FALSE
    <3>1. o \in h..StreamLen
      BY <1>9, <2>1
    <3>2. Count(h, Probes)[Probes][o] = 0
      BY <3>1, PastTheEnd
    <3> QED BY <1>7, <1>8, <3>2
  <2> QED BY <2>1
<1>11. Score(o, h) = Messages(o, h, Probes)
  BY <1>10 DEF Score, Smaller
<1>12. ~(Score(o, h) > Score(d, h))
  BY <1>1, <1>6
<1> QED BY <1>4, <1>7, <1>11, <1>12

\* The step that resolves the alignment finds the right one.
THEOREM AlignmentIsFound == Spec => AlignmentFound
<1> USE Bounds
<1> DEFINE A == \A o \in 0..(WordSize - 1) :
                align = Unknown /\ align' # Unknown /\ OnlyAt(o)
                    /\ (o = 0 \/ Messages(o, given', Probes) > 0)
                => align' = o
<1>1. ASSUME DInv, Next PROVE A
  <2> SUFFICES ASSUME NEW o \in 0..(WordSize - 1), ~Aligned, align' # Unknown, OnlyAt(o),
                      o = 0 \/ Messages(o, given', Probes) > 0
               PROVE  align' = o
    BY DEF Aligned
  <2>1. WellTyped
    BY <1>1 DEF DInv, Typed
  <2>2. \E h \in 0..StreamLen : Resolve(h)
    <3>1. ASSUME NEW k \in 0..MaxChunk, NEW gap \in BOOLEAN, Chunk(k, gap)
          PROVE  Resolve(held + k) /\ held + k \in 0..StreamLen
      BY <1>1, <3>1 DEF Chunk, Aligned, DInv, Typed, NothingHeldBack, Unaligned
    <3>2. ASSUME End PROVE Resolve(held) /\ held \in 0..StreamLen
      BY <1>1, <3>2 DEF End, Flush, Aligned, DInv, Typed, NothingHeldBack, Unaligned
    <3>3. ~Emit /\ ~Skip /\ ~Wait
      BY <1>1 DEF Emit, Skip, Wait, DInv, Unaligned
    <3> QED BY <1>1, <3>1, <3>2, <3>3 DEF Next
  <2>3. PICK h \in 0..StreamLen : Resolve(h)
    BY <2>2
  <2>4. align' = Detect(h) /\ given' = h
    BY <2>3 DEF Resolve
  <2> QED BY <2>1, <2>4, DetectFinds
<1>2. ASSUME UNCHANGED vars PROVE A
  BY <1>2 DEF vars
<1>3. DInv /\ [Next]_vars => [A]_vars
  BY <1>1
<1> QED BY Invariance, <1>3, PTL DEF Spec, AlignmentFound

-----------------------------------------------------------------------------
(***************************************************************************)
(* Staying in phase.  StaysInPhase fails when a word is cut before it is   *)
(* skipped, and when an alignment is asked for; it fails in no other way.  *)
(***************************************************************************)
PhaseInv == Whole /\ Aligned /\ OnlyAt(align) => pos % WordSize = align

\* The stripped stream begins in phase.
LEMMA PhaseResolve ==
    ASSUME DInv, NEW h \in 0..StreamLen, Resolve(h)
    PROVE  PhaseInv'
<1> USE Bounds
<1>1. WellTyped
  BY DEF DInv, Typed
<1>2. align' \in 0..(WordSize - 1) /\ align' <= h
  BY <1>1, DetectBest, DetectFits DEF Resolve
<1>3. pos' = align'
  BY <1>2 DEF Resolve, Smaller
<1>4. pos' % WordSize = align'
  <2>1. \A x \in 0..(WordSize - 1) : x % WordSize = x
    OBVIOUS
  <2> QED BY <1>2, <1>3, <2>1
<1> QED BY <1>4 DEF PhaseInv

\* A message in phase, and a whole word, lead to the phase again.
LEMMA PhaseNext == ASSUME DInv, PhaseInv, [Next]_vars PROVE PhaseInv'
<1> USE Bounds
<1>1. ASSUME UNCHANGED <<verdict, align, pos, errors, resync>> PROVE PhaseInv'
  BY <1>1 DEF PhaseInv, Whole, Aligned, OnlyAt
<1>2. ASSUME NEW k \in 0..MaxChunk, NEW gap \in BOOLEAN, Chunk(k, gap) PROVE PhaseInv'
  <2>1. CASE align = Unknown /\ Enough(held + k, k, gap)
    <3>1. Resolve(held + k) /\ held + k \in 0..StreamLen
      BY <1>2, <2>1 DEF Chunk, Aligned, DInv, Typed, NothingHeldBack, Unaligned
    <3> QED BY <3>1, PhaseResolve
  <2>2. CASE ~(align = Unknown /\ Enough(held + k, k, gap))
    BY <1>1, <1>2, <2>2 DEF Chunk
  <2> QED BY <2>1, <2>2
<1>3. ASSUME End PROVE PhaseInv'
  <2>1. CASE align = Unknown /\ held > 0
    <3>1. Resolve(held) /\ held \in 0..StreamLen
      BY <1>3, <2>1 DEF End, Flush, Aligned, DInv, Typed, NothingHeldBack, Unaligned
    <3> QED BY <3>1, PhaseResolve
  <2>2. CASE ~(align = Unknown /\ held > 0)
    BY <1>1, <1>3, <2>2 DEF End, Flush
  <2> QED BY <2>1, <2>2
<1>4. ASSUME Emit PROVE PhaseInv'
  <2> SUFFICES ASSUME Whole', OnlyAt(align)' PROVE pos' % WordSize = align'
    BY DEF PhaseInv
  <2>1. pos' = pos + verdict[pos].n /\ align' = align /\ verdict[pos].kind = "good"
        /\ UNCHANGED <<verdict, errors, resync>>
    BY <1>4 DEF Emit, Decodes
  <2>2. Aligned /\ pos \in Positions /\ WellTyped
    BY <1>4, FeedMoves DEF Emit, DInv, Typed
  <2>3. Whole /\ OnlyAt(align)
    BY <2>1 DEF Whole, OnlyAt
  <2>4. verdict[pos].n \in Nat /\ pos \in Nat
    BY <2>2, VerdictType DEF Positions
  <2>5. verdict[pos].n % WordSize = 0
    BY <2>1, <2>2, <2>3 DEF OnlyAt
  <2>6. (pos + verdict[pos].n) % WordSize = pos % WordSize
    BY <2>4, <2>5, SamePhase
  <2> QED BY <2>1, <2>2, <2>3, <2>6 DEF PhaseInv
<1>5. ASSUME Skip PROVE PhaseInv'
  <2> SUFFICES ASSUME Whole', OnlyAt(align)' PROVE pos' % WordSize = align'
    BY DEF PhaseInv
  <2>1. Whole /\ Drop = WordSize /\ Aligned
    BY <1>5, WholeBefore, DropFits
  <2>2. pos' = pos + WordSize /\ align' = align /\ UNCHANGED verdict
    BY <1>5, <2>1 DEF Skip
  <2>3. OnlyAt(align)
    BY <2>2 DEF OnlyAt
  <2>4. WordSize % WordSize = 0 /\ pos \in Nat /\ WordSize \in Nat
    BY DEF DInv, Typed
  <2>5. (pos + WordSize) % WordSize = pos % WordSize
    BY <2>4, SamePhase
  <2> QED BY <2>1, <2>2, <2>3, <2>5 DEF PhaseInv
<1>6. ASSUME Wait \/ UNCHANGED vars PROVE PhaseInv'
  BY <1>1, <1>6 DEF Wait, vars
<1> QED BY <1>2, <1>3, <1>4, <1>5, <1>6 DEF Next

\* As long as every skip was of a whole word, a stream whose messages are
\* of whole words is decoded in the phase that was found for it.
THEOREM WholeWordsKeepPhase ==
    ASSUME Start \in {0, Unknown}
    PROVE  Spec => [](Whole => StaysInPhase)
<1>1. Init => PhaseInv
  <2>1. 0 % WordSize = 0
    BY Bounds
  <2> QED BY <2>1 DEF Init, PhaseInv, Aligned
<1>2. DInv /\ PhaseInv /\ [Next]_vars => PhaseInv'
  BY PhaseNext
<1>3. PhaseInv => (Whole => StaysInPhase)
  BY DEF PhaseInv, StaysInPhase
<1> QED BY Invariance, <1>1, <1>2, <1>3, PTL DEF Spec

-----------------------------------------------------------------------------
(***************************************************************************)
(* Out of phase after a reset of the target.                               *)
(***************************************************************************)

\* Off the grid no message begins, and a whole word leads off the grid again.
LEMMA OffGridStep ==
    ASSUME DInv, Aligned, NEW q \in Positions, Resumes(q), OffGrid(q), Next
    PROVE  packets' = packets /\ (OffGrid(q)' \/ given - pos < WordSize)
<1> USE Bounds
<1>1. pos \in Nat /\ q \in Nat /\ pos - q \in Nat
  BY DEF DInv, Typed, OffGrid, Positions
<1>2. ASSUME UNCHANGED <<pos, packets>>
      PROVE  packets' = packets /\ OffGrid(q)'
  BY <1>2 DEF OffGrid
<1>3. ASSUME NEW k \in 0..MaxChunk, NEW gap \in BOOLEAN, Chunk(k, gap)
      PROVE  UNCHANGED <<pos, packets>>
  BY <1>3 DEF Chunk, Aligned
<1>4. ASSUME End PROVE UNCHANGED <<pos, packets>>
  BY <1>4 DEF End, Flush, Aligned
<1>5. ASSUME Emit PROVE FALSE
  <2>1. pos \in Positions /\ verdict[pos].kind = "good"
    BY <1>5, FeedMoves DEF Emit, Decodes
  <2> QED BY <2>1 DEF Resumes, OffGrid
<1>6. ASSUME Skip, ~(given - pos < WordSize)
      PROVE  packets' = packets /\ OffGrid(q)'
  <2>1. given \in Nat /\ WordSize \in Nat
    BY DEF DInv, Typed
  <2>2. Drop = WordSize
    BY <1>1, <1>6, <2>1 DEF Drop, Skipped, Smaller
  <2>3. pos' = pos + WordSize /\ packets' = packets
    BY <1>6, <2>2 DEF Skip
  <2>4. WordSize % WordSize = 0
    OBVIOUS
  <2>5. ((pos - q) + WordSize) % WordSize = (pos - q) % WordSize
    BY <1>1, <2>1, <2>4, SamePhase
  <2>6. pos' - q = (pos - q) + WordSize /\ pos' >= q
    BY <1>1, <2>1, <2>3
  <2> QED BY <2>3, <2>5, <2>6 DEF OffGrid
<1>7. ASSUME Skip PROVE packets' = packets
  BY <1>7 DEF Skip
<1>8. ASSUME Wait PROVE UNCHANGED <<pos, packets>>
  BY <1>8 DEF Wait
<1> QED BY <1>2, <1>3, <1>4, <1>5, <1>6, <1>7, <1>8 DEF Next

\* A decoder off the words of a target that was reset stays off them, except
\* for a word cut off by the end of a read.
THEOREM OffGridRemains == Spec => OffGridStays
<1> DEFINE A == \A q \in Positions : Resumes(q) /\ Aligned /\ OffGrid(q) =>
                   /\ packets' = packets
                   /\ OffGrid(q)' \/ given - pos < WordSize
<1>1. DInv /\ [Next]_vars => [A]_vars
  BY OffGridStep
<1> QED BY Invariance, <1>1, PTL DEF Spec, OffGridStays
=============================================================================
