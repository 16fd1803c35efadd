--------------------------- MODULE LogRingProofs ---------------------------
(***************************************************************************)
(* The ring of log words for every capacity, every width of the counter    *)
(* and every packet size.  The inductive invariant says which word each    *)
(* slot holds (Recent) and ties the counter to the number of words stored  *)
(* modulo its width (Counting); that Capacity divides Modulus is what lets *)
(* the slot be computed from a counter that has overflowed.                *)
(***************************************************************************)
EXTENDS LogRing, SequenceTheorems, TLAPS

-----------------------------------------------------------------------------
(***************************************************************************)
(* Remainders                                                              *)
(***************************************************************************)
LEMMA Division ==
    ASSUME NEW c \in Nat \ {0}, NEW a \in Nat
    PROVE  a = c * (a \div c) + (a % c)
  OBVIOUS

LEMMA Parts ==
    ASSUME NEW c \in Nat \ {0}, NEW a \in Nat
    PROVE  a % c \in 0..(c - 1) /\ a % c \in Nat /\ a \div c \in Nat
  <1>1. a % c \in 0..(c - 1)
    OBVIOUS
  <1>2. a \div c \in Nat
    OBVIOUS
  <1> QED
    BY <1>1, <1>2

\* A quotient and a remainder determine the remainder.
LEMMA Remainder ==
    ASSUME NEW c \in Nat \ {0}, NEW q \in Nat, NEW r \in 0..(c - 1)
    PROVE  (c * q + r) % c = r
  OBVIOUS

\* Fewer than c successive numbers have different remainders.
LEMMA SlotsDiffer ==
    ASSUME NEW c \in Nat \ {0}, NEW a \in Nat, NEW b \in Nat, a < b, b - a < c
    PROVE  a % c # b % c
  <1> SUFFICES ASSUME a % c = b % c PROVE FALSE
    OBVIOUS
  <1> DEFINE p == a \div c
             q == b \div c
             r == a % c
  <1>1. a = c * p + r /\ b = c * q + r /\ p \in Nat /\ q \in Nat /\ r \in Nat
    BY Division, Parts
  <1> HIDE DEF p, q, r
  <1>2. b - a = c * (q - p)
    <2>1. c * q - c * p = c * (q - p)
      BY <1>1
    <2> QED
      BY <1>1, <2>1
  <1>3. CASE q - p >= 1
    <2>1. c * (q - p) >= c
      BY <1>1, <1>3
    <2> QED
      BY <1>2, <2>1
  <1>4. CASE q - p <= 0
    <2>1. c * (q - p) <= 0
      BY <1>1, <1>4
    <2> QED
      BY <1>2, <2>1
  <1> QED
    BY <1>1, <1>3, <1>4

\* A counter that overflows at a multiple of c loses nothing modulo c.
LEMMA OverflowKeepsSlot ==
    ASSUME NEW c \in Nat \ {0}, NEW m \in Nat \ {0}, m % c = 0, NEW a \in Nat
    PROVE  (a % m) % c = a % c
  <1> DEFINE q == a \div m
             r == a % m
             k == m \div c
             p == r \div c
             s == r % c
  <1>1. a = m * q + r /\ r \in Nat /\ q \in Nat
    BY Division, Parts
  <1>2. m = c * k + (m % c) /\ k \in Nat
    BY Division, Parts
  <1>3. r = c * p + s /\ p \in Nat /\ s \in 0..(c - 1)
    BY <1>1, Division, Parts
  <1> HIDE DEF q, r, k, p, s
  <1>4. m = c * k
    BY <1>2
  <1>5. m * q = c * (k * q)
    BY <1>1, <1>2, <1>4
  <1>6. k * q + p \in Nat
    BY <1>1, <1>2, <1>3
  <1>7. a = c * (k * q + p) + s
    BY <1>1, <1>2, <1>3, <1>5
  <1>8. a % c = s
    BY <1>3, <1>6, <1>7, Remainder
  <1> QED
    BY <1>8 DEF r, s

\* An increment commutes with the overflow.
LEMMA IncrementWraps ==
    ASSUME NEW m \in Nat \ {0}, NEW a \in Nat
    PROVE  ((a % m) + 1) % m = (a + 1) % m
  <1> DEFINE q == a \div m
             r == a % m
  <1>1. a = m * q + r /\ r \in 0..(m - 1) /\ q \in Nat
    BY Division, Parts
  <1> HIDE DEF q, r
  <1>2. CASE r + 1 < m
    <2>1. (a + 1) % m = r + 1
      BY <1>1, <1>2
    <2> QED
      BY <1>1, <1>2, <2>1 DEF r
  <1>3. CASE r + 1 = m
    <2>1. a + 1 = m * (q + 1)
      BY <1>1, <1>3
    <2>2. (a + 1) % m = 0
      BY <1>1, <2>1
    <2> QED
      BY <1>3, <2>2 DEF r
  <1> QED
    BY <1>1, <1>2, <1>3

\* A full turn of the ring comes back to the same slot.
LEMMA FullTurn ==
    ASSUME NEW c \in Nat \ {0}, NEW a \in Nat, NEW j \in Nat, c <= a
    PROVE  ((a % c) + j) % c = (a - c + j) % c
  <1> DEFINE q == a \div c
             r == a % c
             p == (r + j) \div c
             s == (r + j) % c
  <1>1. a = c * q + r /\ r \in 0..(c - 1) /\ q \in Nat
    BY Division, Parts
  <1>2. r + j = c * p + s /\ s \in 0..(c - 1) /\ p \in Nat
    <2>1. r + j \in Nat
      BY <1>1
    <2> HIDE DEF r
    <2> QED
      BY <2>1, Division, Parts
  <1> HIDE DEF q, r, p, s
  <1>3. q >= 1
    <2>1. CASE q = 0
      BY <1>1, <2>1
    <2> QED
      BY <1>1, <2>1
  <1> DEFINE k == q - 1 + p
  <1>4. a - c + j = c * k + s
    BY <1>1, <1>2
  <1>5. k \in Nat
    BY <1>1, <1>2, <1>3
  <1> HIDE DEF k
  <1>6. (c * k + s) % c = s
    BY <1>2, <1>5, Remainder
  <1>7. (a - c + j) % c = s
    BY <1>4, <1>6
  <1> QED
    BY <1>7 DEF r, s

-----------------------------------------------------------------------------
(***************************************************************************)
(* The invariant                                                           *)
(***************************************************************************)
Counting ==
    /\ stored => written >= 1 /\ left >= 1
    /\ written + left <= MaxWords + (IF stored THEN 1 ELSE 0)
    /\ total_words = (IF stored THEN written - 1 ELSE written) % Modulus

Recent ==
    \A k \in 1..written :
        k > written - Capacity => words[(k - 1) % Capacity] = k

RingInv == TypeOK /\ Counting /\ Recent

LEMMA EmptyRing ==
    /\ 0 % Modulus = 0 /\ 0 \in 0..(Modulus - 1) /\ 0 \in 0..MaxWords
    /\ [i \in 0..(Capacity - 1) |-> 0] \in [0..(Capacity - 1) -> 0..MaxWords]
  BY RingAssumption

LEMMA InitRing == Init => RingInv
  <1> SUFFICES ASSUME Init PROVE RingInv
    OBVIOUS
  <1>0. /\ words = [i \in 0..(Capacity - 1) |-> 0] /\ total_words = 0
        /\ written = 0 /\ left = 0 /\ stored = FALSE
    BY DEF Init
  <1>1. TypeOK
    BY <1>0, EmptyRing DEF TypeOK
  <1>2. Counting
    BY <1>0, EmptyRing, RingAssumption DEF Counting
  <1>3. Recent
    BY DEF Init, Recent
  <1> QED
    BY <1>1, <1>2, <1>3 DEF RingInv

LEMMA StoreRing == RingInv /\ Store => RingInv'
  <1> SUFFICES ASSUME RingInv, Store PROVE RingInv'
    OBVIOUS
  <1>1. /\ left > 0 /\ ~stored /\ stored' = TRUE
        /\ words' = [words EXCEPT ![Slot(total_words)] = written + 1]
        /\ written' = written + 1
        /\ UNCHANGED <<total_words, left>>
    BY DEF Store
  <1>2. /\ Capacity \in Nat \ {0} /\ Modulus \in Nat \ {0} /\ MaxWords \in Nat
        /\ Modulus % Capacity = 0
    BY RingAssumption
  <1>3. /\ written \in 0..MaxWords /\ left \in Nat /\ total_words \in Nat
        /\ words \in [0..(Capacity - 1) -> 0..MaxWords]
        /\ written + left <= MaxWords
        /\ total_words = written % Modulus
    BY <1>1, <1>2 DEF RingInv, TypeOK, Counting
  <1>4. Slot(total_words) = written % Capacity
        /\ written % Capacity \in 0..(Capacity - 1)
    <2>1. written \in Nat
      BY <1>2, <1>3
    <2> QED
      BY <1>2, <1>3, <2>1, OverflowKeepsSlot, Parts DEF Slot
  <1>5. written + 1 \in 0..MaxWords
    BY <1>1, <1>2, <1>3
  <1>6. TypeOK'
    BY <1>1, <1>3, <1>4, <1>5 DEF RingInv, TypeOK
  <1>7. Counting'
    BY <1>1, <1>2, <1>3 DEF Counting
  <1>8. Recent'
    <2> SUFFICES ASSUME NEW k \in 1..written', k > written' - Capacity
                 PROVE  words'[(k - 1) % Capacity] = k
      BY DEF Recent
    <2>0. k \in 1..(written + 1) /\ k > written + 1 - Capacity
      BY <1>1, <1>2, <1>3
    <2>1. (k - 1) % Capacity \in 0..(Capacity - 1)
      <3>1. k - 1 \in Nat
        BY <1>2, <1>3, <2>0
      <3> QED
        BY <1>2, <3>1, Parts
    <2>2. CASE k = written + 1
      BY <1>1, <1>3, <1>4, <2>2
    <2>3. CASE k <= written
      <3>1. words[(k - 1) % Capacity] = k
        BY <1>2, <1>3, <2>0, <2>3 DEF RingInv, Recent
      <3>2. k - 1 \in Nat /\ k - 1 < written /\ written - (k - 1) < Capacity
        BY <1>2, <1>3, <2>0, <2>3
      <3>3. (k - 1) % Capacity # written % Capacity
        <4>1. written \in Nat
          BY <1>2, <1>3
        <4>2. \A a \in Nat : a < written /\ written - a < Capacity
                              => a % Capacity # written % Capacity
          BY <1>2, <4>1, SlotsDiffer
        <4> QED
          BY <3>2, <4>2
      <3> QED
        BY <1>1, <1>3, <1>4, <2>1, <3>1, <3>3
    <2> QED
      BY <1>3, <2>0, <2>2, <2>3
  <1> QED
    BY <1>6, <1>7, <1>8 DEF RingInv

LEMMA CountRing == RingInv /\ Count => RingInv'
  <1> SUFFICES ASSUME RingInv, Count PROVE RingInv'
    OBVIOUS
  <1>1. /\ stored /\ stored' = FALSE /\ left' = left - 1
        /\ total_words' = (total_words + 1) % Modulus
        /\ UNCHANGED <<words, written>>
    BY DEF Count, Increment
  <1>2. Modulus \in Nat \ {0} /\ MaxWords \in Nat
    BY RingAssumption
  <1>3. /\ written \in 0..MaxWords /\ written >= 1 /\ left \in Nat /\ left >= 1
        /\ written + left <= MaxWords + 1
        /\ total_words = (written - 1) % Modulus
    BY <1>1 DEF RingInv, TypeOK, Counting
  <1>4. (((written - 1) % Modulus) + 1) % Modulus = written % Modulus
    <2>1. written - 1 \in Nat /\ written - 1 + 1 = written
      BY <1>2, <1>3
    <2> QED
      BY <1>2, <2>1, IncrementWraps
  <1>5. total_words' = written % Modulus
    BY <1>1, <1>3, <1>4
  <1>6. total_words' \in 0..(Modulus - 1)
    BY <1>2, <1>3, <1>5, Parts
  <1>7. TypeOK'
    <2>1. left' \in Nat
      BY <1>1, <1>3
    <2>3. stored' \in BOOLEAN
      BY <1>1
    <2>2. words' \in [0..(Capacity - 1) -> 0..MaxWords] /\ written' \in 0..MaxWords
      BY <1>1 DEF RingInv, TypeOK
    <2> QED
      BY <1>6, <2>1, <2>2, <2>3 DEF TypeOK
  <1>8. Counting'
    BY <1>1, <1>2, <1>3, <1>5 DEF Counting
  <1>9. Recent'
    BY <1>1 DEF RingInv, Recent
  <1> QED
    BY <1>7, <1>8, <1>9 DEF RingInv

LEMMA RingStep == RingInv /\ [Next]_vars => RingInv'
  <1> SUFFICES ASSUME RingInv, [Next]_vars PROVE RingInv'
    OBVIOUS
  <1>1. ASSUME NEW n \in Sizes, Log(n) PROVE RingInv'
    <2>1. n \in Nat /\ MaxWords \in Nat
      BY RingAssumption
    <2> QED
      BY <1>1, <2>1 DEF Log, RingInv, TypeOK, Counting, Recent
  <1>2. CASE Reset
    <2>1. /\ words' = [i \in 0..(Capacity - 1) |-> 0] /\ total_words' = 0
          /\ written' = 0 /\ left' = 0 /\ stored' = FALSE
      BY <1>2 DEF Reset
    <2>2. TypeOK'
      BY <2>1, EmptyRing DEF TypeOK
    <2>3. Counting'
      BY <2>1, EmptyRing, RingAssumption DEF Counting
    <2>4. Recent'
      BY <2>1 DEF Recent
    <2> QED
      BY <2>2, <2>3, <2>4 DEF RingInv
  <1>3. CASE UNCHANGED vars
    BY <1>3 DEF vars, RingInv, TypeOK, Counting, Recent
  <1> QED
    BY <1>1, <1>2, <1>3, StoreRing, CountRing DEF Next

\* RingInv is an invariant of the ring.
THEOREM RingInvariance == Spec => []RingInv
  BY InitRing, RingStep, PTL DEF Spec

\* The ring holds the latest words, whatever its counter has been through.
THEOREM RecentWords == Spec => []RingIsRecent
  <1>1. RingInv => RingIsRecent
    BY DEF RingInv, Recent, RingIsRecent
  <1> QED
    BY <1>1, RingInvariance, PTL

-----------------------------------------------------------------------------
(***************************************************************************)
(* What unwrap makes of a dump                                             *)
(***************************************************************************)
LEMMA SmallRemainder ==
    ASSUME NEW m \in Nat \ {0}, NEW a \in Nat, a < m
    PROVE  a % m = a
  OBVIOUS

\* The word in the slot the dump has at place i, from k words stored on.
LEMMA SlotOfWord ==
    ASSUME RingInv, NEW k \in 1..written, k > written - Capacity,
           NEW n \in Nat, n % Capacity = (k - 1) % Capacity
    PROVE  words[n % Capacity] = k
  BY DEF RingInv, Recent

LEMMA RingTypes ==
    ASSUME RingInv
    PROVE  /\ Capacity \in Nat \ {0} /\ Modulus \in Nat \ {0}
           /\ written \in Nat
           /\ stored => written >= 1
  BY RingAssumption DEF RingInv, TypeOK, Counting

\* Any dump is the words at successive slots, as a sequence.
LEMMA LiveIsSequence ==
    ASSUME NEW n \in Nat, n = IF Wrapped THEN Capacity ELSE total_words
    PROVE  /\ Len(Live) = n
           /\ Live = [i \in 1..n |-> words[(Oldest + i - 1) % Capacity]]
  BY DEF Live

LEMMA DumpBetweenWords == RingInv => DumpIsExact
  <1> SUFFICES ASSUME RingInv, ~stored, written < Modulus
               PROVE  /\ Live = Last(written, Smaller(written, Capacity))
                      /\ Lost = written - Len(Live)
    BY DEF DumpIsExact
  <1> DEFINE n == Smaller(written, Capacity)
  <1>1. /\ Capacity \in Nat \ {0} /\ Modulus \in Nat \ {0} /\ written \in Nat
    BY RingTypes
  <1>2. total_words = written
    <2>1. total_words = written % Modulus
      BY DEF RingInv, Counting
    <2> QED
      BY <1>1, <2>1, SmallRemainder
  <1>3. n \in Nat /\ n = IF Wrapped THEN Capacity ELSE total_words
    BY <1>1, <1>2 DEF Smaller, Wrapped
  <1>4. ASSUME NEW i \in 1..n
        PROVE  words[(Oldest + i - 1) % Capacity] = written - n + i
    <2> DEFINE k == written - n + i
    <2>1. k \in 1..written /\ k > written - Capacity /\ k - 1 \in Nat
      BY <1>1 DEF Smaller
    <2>2. Oldest + i - 1 \in Nat
          /\ (Oldest + i - 1) % Capacity = (k - 1) % Capacity
      <3>1. CASE Wrapped
        <4>1. n = Capacity /\ Capacity <= written /\ i - 1 \in Nat
          BY <1>1, <1>2, <1>3, <3>1 DEF Wrapped
        <4>2. Oldest = written % Capacity /\ Oldest \in Nat
          BY <1>1, <1>2, <3>1, Parts DEF Oldest
        <4>3. ((written % Capacity) + (i - 1)) % Capacity
                = (written - Capacity + (i - 1)) % Capacity
          BY <1>1, <4>1, FullTurn
        <4>4. Oldest + i - 1 = (written % Capacity) + (i - 1)
              /\ k - 1 = written - Capacity + (i - 1)
          BY <1>1, <4>1, <4>2
        <4> QED
          BY <4>1, <4>2, <4>3, <4>4
      <3>2. CASE ~Wrapped
        <4>1. n = written /\ Oldest = 0
          BY <1>2, <1>3, <3>2 DEF Oldest
        <4> QED
          BY <1>1, <4>1
      <3> QED
        BY <3>1, <3>2
    <2> QED
      BY <2>1, <2>2, SlotOfWord
  <1>5. Live = [i \in 1..n |-> words[(Oldest + i - 1) % Capacity]]
        /\ Len(Live) = n
    BY <1>3, LiveIsSequence
  <1>6. Live = Last(written, n)
    BY <1>4, <1>5 DEF Last
  <1>7. Lost = written - n
    BY <1>1, <1>2, <1>3 DEF Lost, Smaller, Wrapped
  <1> QED
    BY <1>5, <1>6, <1>7

LEMMA NewestInFront ==
    ASSUME NEW c \in Nat \ {0}, NEW k \in Nat, c < k,
           NEW s, s = [i \in 1..c |-> IF i = 1 THEN k ELSE k - c + i - 1]
    PROVE  s = <<k>> \o Last(k - 1, c - 1)
  <1> DEFINE t == Last(k - 1, c - 1)
             u == <<k>> \o t
  <1>1. t \in Seq(Nat) /\ Len(t) = c - 1
        /\ \A i \in 1..(c - 1) : t[i] = k - c + i
    BY DEF Last
  <1>2. <<k>> \in Seq(Nat) /\ Len(<<k>>) = 1 /\ <<k>>[1] = k
    OBVIOUS
  <1> HIDE DEF t
  <1>3. /\ u \in Seq(Nat) /\ Len(u) = 1 + (c - 1)
        /\ \A i \in 1..(1 + (c - 1)) :
                u[i] = IF i <= 1 THEN <<k>>[i] ELSE t[i - 1]
    BY <1>1, <1>2, ConcatProperties
  <1> HIDE DEF u
  <1>4. Len(u) = c /\ DOMAIN u = 1..c /\ u = [i \in 1..c |-> u[i]]
    BY <1>3
  <1>5. \A i \in 1..c : u[i] = IF i = 1 THEN k ELSE k - c + i - 1
    <2> TAKE i \in 1..c
    <2>1. CASE i = 1
      BY <1>2, <1>3, <2>1
    <2>2. CASE i # 1
      <3>1. i - 1 \in 1..(c - 1) /\ ~(i <= 1)
        BY <2>2
      <3>2. u[i] = t[i - 1]
        BY <1>3, <3>1
      <3>3. t[i - 1] = k - c + (i - 1)
        BY <1>1, <3>1
      <3> QED
        BY <2>2, <3>2, <3>3
    <2> QED
      BY <2>1, <2>2
  <1>6. s = u
    BY <1>4, <1>5
  <1> QED
    BY <1>6 DEF t, u

LEMMA DumpWithinWord == RingInv => TornByOneWord
  <1> SUFFICES ASSUME RingInv, stored, written < Modulus
               PROVE  IF written > Capacity
                      THEN Live = <<written>> \o Last(written - 1, Capacity - 1)
                      ELSE Live = Last(written - 1, written - 1)
    BY DEF TornByOneWord
  <1>1. /\ Capacity \in Nat \ {0} /\ Modulus \in Nat \ {0} /\ written \in Nat
        /\ written >= 1
    BY RingTypes
  <1>2. total_words = written - 1
    <2>1. total_words = (written - 1) % Modulus
      BY DEF RingInv, Counting
    <2>2. written - 1 \in Nat /\ written - 1 < Modulus
      BY <1>1
    <2> QED
      BY <1>1, <2>1, <2>2, SmallRemainder
  <1> DEFINE n == IF Wrapped THEN Capacity ELSE total_words
             at(i) == (Oldest + i - 1) % Capacity
  <1>3. n \in Nat
    BY <1>1, <1>2
  <1>4. Live = [i \in 1..n |-> words[at(i)]]
    BY <1>3, LiveIsSequence
  <1>5. CASE written > Capacity
    <2>1. n = Capacity
      BY <1>1, <1>2, <1>5 DEF Wrapped
    <2>2. \A i \in 1..Capacity :
            Oldest + i - 1 \in Nat /\ at(i) = (written - Capacity - 1 + (i - 1)) % Capacity
      <3> TAKE i \in 1..Capacity
      <3>1. CASE Wrapped
        <4>1. written - 1 \in Nat /\ Capacity <= written - 1 /\ i - 1 \in Nat
          BY <1>1, <1>2, <1>5, <3>1 DEF Wrapped
        <4>2. Oldest = (written - 1) % Capacity /\ Oldest \in Nat
          BY <1>1, <1>2, <3>1, <4>1, Parts DEF Oldest
        <4>3. (((written - 1) % Capacity) + (i - 1)) % Capacity
                = ((written - 1) - Capacity + (i - 1)) % Capacity
          BY <1>1, <4>1, FullTurn
        <4>4. Oldest + i - 1 = ((written - 1) % Capacity) + (i - 1)
              /\ (written - 1) - Capacity + (i - 1)
                    = written - Capacity - 1 + (i - 1)
          BY <1>1, <4>1, <4>2
        <4> QED
          BY <4>1, <4>2, <4>3, <4>4
      <3>2. CASE ~Wrapped
        <4>1. Oldest = 0 /\ written - 1 = Capacity
          BY <1>1, <1>2, <1>5, <3>2 DEF Wrapped, Oldest
        <4> QED
          BY <1>1, <4>1
      <3> QED
        BY <3>1, <3>2
    <2>3. \A i \in 1..Capacity :
            words[at(i)] = IF i = 1 THEN written ELSE written - Capacity + i - 1
      <3> TAKE i \in 1..Capacity
      <3>1. CASE i = 1
        <4>1. written - 1 \in Nat /\ Capacity <= written - 1 /\ 0 \in Nat
          BY <1>1, <1>5
        <4>2. (((written - 1) % Capacity) + 0) % Capacity
                = ((written - 1) - Capacity + 0) % Capacity
          BY <1>1, <4>1, FullTurn
        <4>3. (((written - 1) % Capacity) + 0) % Capacity = (written - 1) % Capacity
          <5>1. (written - 1) % Capacity \in 0..(Capacity - 1)
            BY <1>1, <4>1, Parts
          <5> DEFINE r == (written - 1) % Capacity
          <5> HIDE DEF r
          <5>2. r \in Nat /\ r < Capacity /\ r + 0 = r
            BY <1>1, <5>1 DEF r
          <5>3. r % Capacity = r
            BY <1>1, <5>2, SmallRemainder
          <5> QED
            BY <5>2, <5>3 DEF r
        <4>4. at(1) = (written - 1) % Capacity
          <5>1. (written - 1) - Capacity + 0 = written - Capacity - 1 + (1 - 1)
            BY <1>1
          <5> QED
            BY <1>1, <2>2, <4>2, <4>3, <5>1
        <4>5. Oldest + 1 - 1 \in Nat
          BY <1>1, <2>2
        <4>6. written \in 1..written /\ written > written - Capacity
          BY <1>1
        <4> QED
          BY <3>1, <4>4, <4>5, <4>6, SlotOfWord
      <3>2. CASE i # 1
        <4> DEFINE k == written - Capacity + i - 1
        <4>1. k \in 1..written /\ k > written - Capacity
              /\ k - 1 = written - Capacity - 1 + (i - 1)
          BY <1>1, <1>5, <3>2
        <4>2. at(i) = (k - 1) % Capacity /\ Oldest + i - 1 \in Nat
          BY <2>2, <4>1
        <4> HIDE DEF k
        <4>3. words[at(i)] = k
          BY <4>1, <4>2, SlotOfWord
        <4> QED
          BY <3>2, <4>3 DEF k
      <3> QED
        BY <3>1, <3>2
    <2>4. Live = [i \in 1..Capacity |->
                    IF i = 1 THEN written ELSE written - Capacity + i - 1]
      BY <1>4, <2>1, <2>3
    <2>5. Live = <<written>> \o Last(written - 1, Capacity - 1)
      BY <1>1, <1>5, <2>4, NewestInFront
    <2> QED
      BY <1>5, <2>5
  <1>6. CASE ~(written > Capacity)
    <2>1. ~Wrapped /\ n = written - 1 /\ Oldest = 0
      BY <1>1, <1>2, <1>6 DEF Wrapped, Oldest
    <2>2. \A i \in 1..(written - 1) : words[at(i)] = written - 1 - (written - 1) + i
      <3> TAKE i \in 1..(written - 1)
      <3>1. i \in 1..written /\ i > written - Capacity
        BY <1>1, <1>6
      <3>2. Oldest + i - 1 \in Nat /\ at(i) = (i - 1) % Capacity
        BY <1>1, <2>1
      <3> QED
        BY <1>1, <3>1, <3>2, SlotOfWord
    <2>3. Live = Last(written - 1, written - 1)
      BY <1>4, <2>1, <2>2 DEF Last
    <2> QED
      BY <1>6, <2>3
  <1> QED
    BY <1>5, <1>6

\* A dump between two words is the words that survive, oldest first, with
\* the number of the others, until the counter overflows.
THEOREM ExactDump == Spec => []DumpIsExact
  BY DumpBetweenWords, RingInvariance, PTL

\* A dump within a word displaces the newest word and loses no other.
THEOREM TornDump == Spec => []TornByOneWord
  BY DumpWithinWord, RingInvariance, PTL
=============================================================================
