--------------------------- MODULE MonitorProofs ---------------------------
(***************************************************************************)
(* The accounting of the monitor, for any bounds: no record goes missing   *)
(* without being counted, and the rows a rebuild renders from are the      *)
(* newest rows on screen.                                                  *)
(***************************************************************************)
EXTENDS Monitor, SequenceTheorems, TLAPS

\* TypeOK and the types of what it leaves open.
Types ==
    /\ TypeOK
    /\ decoded \in Nat /\ decoded + batch <= MaxRecords
    /\ queue \in Seq(Nat) /\ pending \in Seq(Nat)
    /\ rows \in Seq(Nat) /\ table \in Seq(Nat)
    /\ dropped \in Nat /\ shown \in Nat /\ cleared \in Nat

MInv == Types /\ Conserved /\ RebuildIsExact

-----------------------------------------------------------------------------
(***************************************************************************)
(* A bounded deque                                                         *)
(***************************************************************************)

\* It holds the last elements appended, at most n of them.
LEMMA NewestProperties ==
    ASSUME NEW S, NEW s \in Seq(S), NEW n \in Nat
    PROVE  /\ Newest(s, n) \in Seq(S)
           /\ Len(Newest(s, n)) = IF Len(s) > n THEN n ELSE Len(s)
           /\ \A i \in 1..Len(Newest(s, n)) :
                  Newest(s, n)[i] = s[Len(s) - Len(Newest(s, n)) + i]
<1>0. Len(s) \in Nat
  OBVIOUS
<1>1. CASE Len(s) > n
  <2> DEFINE m == Len(s) - n + 1
  <2>1. m \in Int /\ Newest(s, n) = SubSeq(s, m, Len(s))
    BY <1>0, <1>1 DEF Newest
  <2>2. \A i \in m..Len(s) : s[i] \in S
    BY <1>0, <1>1
  <2>3. /\ SubSeq(s, m, Len(s)) \in Seq(S)
        /\ Len(SubSeq(s, m, Len(s))) = IF m <= Len(s) THEN Len(s) - m + 1 ELSE 0
        /\ \A i \in 1..(Len(s) - m + 1) : SubSeq(s, m, Len(s))[i] = s[m + i - 1]
    <3> HIDE DEF m
    <3> QED BY <1>0, <2>1, <2>2, SubSeqProperties
  <2>4. Len(Newest(s, n)) = n
    BY <1>0, <1>1, <2>1, <2>3
  <2> QED BY <1>0, <1>1, <2>1, <2>3, <2>4
<1>2. CASE ~(Len(s) > n)
  BY <1>0, <1>2 DEF Newest
<1> QED BY <1>1, <1>2

\* What fell off before does not matter to what a deque holds in the end.
LEMMA NewestOfConcat ==
    ASSUME NEW S, NEW s \in Seq(S), NEW t \in Seq(S), NEW n \in Nat
    PROVE  Newest(Newest(s, n) \o t, n) = Newest(s \o t, n)
<1> DEFINE k == Newest(s, n)
           u == Newest(k \o t, n)
           v == Newest(s \o t, n)
<1>1. /\ k \in Seq(S)
      /\ Len(k) = IF Len(s) > n THEN n ELSE Len(s)
      /\ \A i \in 1..Len(k) : k[i] = s[Len(s) - Len(k) + i]
  BY NewestProperties
<1>2. Len(s) \in Nat /\ Len(t) \in Nat /\ Len(k) \in Nat
  BY <1>1
<1> HIDE DEF k
<1>3. /\ k \o t \in Seq(S) /\ Len(k \o t) = Len(k) + Len(t)
      /\ \A i \in 1..(Len(k) + Len(t)) :
             (k \o t)[i] = IF i <= Len(k) THEN k[i] ELSE t[i - Len(k)]
  BY <1>1, ConcatProperties
<1>4. /\ s \o t \in Seq(S) /\ Len(s \o t) = Len(s) + Len(t)
      /\ \A i \in 1..(Len(s) + Len(t)) :
             (s \o t)[i] = IF i <= Len(s) THEN s[i] ELSE t[i - Len(s)]
  BY ConcatProperties
<1>5. /\ u \in Seq(S)
      /\ Len(u) = IF Len(k \o t) > n THEN n ELSE Len(k \o t)
      /\ \A i \in 1..Len(u) : u[i] = (k \o t)[Len(k \o t) - Len(u) + i]
  BY <1>3, NewestProperties
<1>6. /\ v \in Seq(S)
      /\ Len(v) = IF Len(s \o t) > n THEN n ELSE Len(s \o t)
      /\ \A i \in 1..Len(v) : v[i] = (s \o t)[Len(s \o t) - Len(v) + i]
  BY <1>4, NewestProperties
<1> HIDE DEF u, v
<1>7. Len(u) = Len(v) /\ Len(u) \in Nat
  BY <1>1, <1>2, <1>3, <1>4, <1>5, <1>6
<1>8. ASSUME NEW i \in 1..Len(u) PROVE u[i] = v[i]
  <2> DEFINE a == Len(k) + Len(t) - Len(u) + i
             b == Len(s) + Len(t) - Len(v) + i
  <2>1. a \in 1..(Len(k) + Len(t)) /\ b \in 1..(Len(s) + Len(t))
    BY <1>2, <1>3, <1>4, <1>5, <1>6, <1>7
  <2>2. u[i] = (k \o t)[a] /\ v[i] = (s \o t)[b]
    <3>1. u[i] = (k \o t)[Len(k \o t) - Len(u) + i]
      BY <1>5
    <3>2. v[i] = (s \o t)[Len(s \o t) - Len(v) + i]
      BY <1>6, <1>7
    <3> QED BY <1>3, <1>4, <3>1, <3>2
  <2>3. b = a + Len(s) - Len(k)
    BY <1>2, <1>7
  <2>4. CASE a <= Len(k)
    <3>1. u[i] = k[a]
      BY <1>3, <2>1, <2>2, <2>4
    <3>2. k[a] = s[b]
      <4>1. a \in 1..Len(k) /\ Len(s) - Len(k) + a = b
        BY <1>2, <2>1, <2>3, <2>4
      <4> HIDE DEF a, b
      <4> QED BY <1>1, <4>1
    <3>3. v[i] = s[b]
      BY <1>2, <1>4, <2>1, <2>2, <2>3, <2>4
    <3> QED BY <3>1, <3>2, <3>3
  <2>5. CASE ~(a <= Len(k))
    <3>1. u[i] = t[a - Len(k)]
      BY <1>3, <2>1, <2>2, <2>5
    <3>2. v[i] = t[b - Len(s)]
      BY <1>2, <1>4, <2>1, <2>2, <2>3, <2>5
    <3>3. b - Len(s) = a - Len(k)
      BY <1>2, <1>7, <2>3
    <3> QED BY <3>1, <3>2, <3>3
  <2> QED BY <2>4, <2>5
<1>9. u = v
  BY <1>5, <1>6, <1>7, <1>8, SeqEqual
<1> QED BY <1>9 DEF u, v, k

-----------------------------------------------------------------------------
(***************************************************************************)
(* The invariant                                                           *)
(***************************************************************************)

LEMMA InitLemma == Init => MInv
<1> SUFFICES ASSUME Init PROVE MInv
  OBVIOUS
<1>1. Types
  <2>1. cancelled \in BOOLEAN /\ paused \in BOOLEAN
    BY DEF Init
  <2>2. inUse \in [Fields -> 0..MaxBuilds]
    BY MonitorAssumption DEF Init
  <2> QED BY <2>1, <2>2, MonitorAssumption DEF Init, Types, TypeOK
<1>2. Conserved
  BY DEF Init, Conserved
<1>3. RebuildIsExact
  BY MonitorAssumption DEF Init, RebuildIsExact, Newest
<1> QED BY <1>1, <1>2, <1>3 DEF MInv

\* Holding a record: what falls off is counted.
LEMMA StashLemma ==
    ASSUME Types, NEW x \in Nat, Stash(x)
    PROVE  /\ pending' \in Seq(Nat) /\ Len(pending') <= MaxRows
           /\ dropped' \in Nat
           /\ Len(pending') + dropped' = Len(pending) + dropped + 1
<1> DEFINE a == Append(pending, x)
<1>1. MaxRows \in Nat \ {0} /\ Len(pending) \in Nat /\ Len(pending) <= MaxRows
  BY MonitorAssumption DEF Types, TypeOK
<1>2. a \in Seq(Nat) /\ Len(a) = Len(pending) + 1
  BY DEF Types
<1>3. /\ Newest(a, MaxRows) \in Seq(Nat)
      /\ Len(Newest(a, MaxRows)) = IF Len(a) > MaxRows THEN MaxRows ELSE Len(a)
  BY <1>1, <1>2, NewestProperties
<1>4. /\ pending' = Newest(a, MaxRows)
      /\ dropped' = IF Len(pending) = MaxRows THEN dropped + 1 ELSE dropped
  BY DEF Stash
<1> HIDE DEF a
<1>5. /\ dropped' \in Nat
      /\ Len(pending') + dropped' = Len(pending) + dropped + 1
  <2>1. dropped \in Nat
    BY DEF Types
  <2>2. CASE Len(pending) = MaxRows
    <3>1. Len(pending') = MaxRows /\ dropped' = dropped + 1
      BY <1>1, <1>2, <1>3, <1>4, <2>2
    <3> QED BY <1>1, <2>1, <2>2, <3>1
  <2>3. CASE Len(pending) # MaxRows
    <3>1. Len(pending') = Len(pending) + 1 /\ dropped' = dropped
      BY <1>1, <1>2, <1>3, <1>4, <2>3
    <3> QED BY <1>1, <2>1, <3>1
  <2> QED BY <2>2, <2>3
<1> QED BY <1>1, <1>2, <1>3, <1>4, <1>5

\* A render takes everything held: some of it to the screen, the rest is
\* counted; and the rows it leaves are the newest of the table it leaves.
LEMMA RenderLemma ==
    ASSUME Types, RebuildIsExact, Render
    PROVE  /\ pending' = <<>> /\ dropped' \in Nat /\ shown' \in Nat
           /\ shown' + dropped' = shown + dropped + Len(pending)
           /\ rows' \in Seq(Nat) /\ Len(rows') <= MaxRows
           /\ table' \in Seq(Nat) /\ Len(table') <= MaxRows + TrimSlack
           /\ RebuildIsExact'
<1> DEFINE new == Newest(pending, MaxAppend)
           r == Newest(rows \o new, MaxRows)
           t == table \o new
<1>1. /\ MaxRows \in Nat \ {0} /\ TrimSlack \in Nat /\ MaxAppend \in Nat
      /\ pending \in Seq(Nat) /\ rows \in Seq(Nat) /\ table \in Seq(Nat)
  BY MonitorAssumption DEF Types
<1>2. new \in Seq(Nat) /\ Len(new) \in Nat /\ Len(new) <= Len(pending)
  BY <1>1, NewestProperties
<1>3. /\ dropped' = dropped + Len(pending) - Len(new)
      /\ shown' = shown + Len(new)
      /\ rows' = r
      /\ table' = IF Len(t) <= MaxRows + TrimSlack THEN t ELSE r
      /\ pending' = <<>>
  BY DEF Render, Keep, EnforceCap
<1> HIDE DEF new
<1>4. rows \o new \in Seq(Nat) /\ t \in Seq(Nat)
  BY <1>1, <1>2, ConcatProperties
<1>5. r \in Seq(Nat) /\ Len(r) \in Nat /\ Len(r) <= MaxRows
  <2> DEFINE c == rows \o new
  <2>1. c \in Seq(Nat) /\ Len(c) \in Nat
    BY <1>4
  <2> HIDE DEF c
  <2>2. Newest(c, MaxRows) \in Seq(Nat)
        /\ Len(Newest(c, MaxRows)) = IF Len(c) > MaxRows THEN MaxRows ELSE Len(c)
    BY <1>1, <2>1, NewestProperties
  <2> QED BY <1>1, <2>1, <2>2 DEF c
<1>6. r = Newest(t, MaxRows)
  BY <1>1, <1>2, NewestOfConcat DEF RebuildIsExact
<1>7. Newest(r, MaxRows) = r
  BY <1>1, <1>5 DEF Newest
<1>8. RebuildIsExact'
  BY <1>3, <1>6, <1>7 DEF RebuildIsExact
<1>9. dropped' \in Nat /\ shown' \in Nat
      /\ shown' + dropped' = shown + dropped + Len(pending)
  BY <1>1, <1>2, <1>3 DEF Types
<1>10. /\ table' \in Seq(Nat) /\ Len(table') <= MaxRows + TrimSlack
  BY <1>1, <1>3, <1>4, <1>5
<1> QED BY <1>3, <1>5, <1>8, <1>9, <1>10

\* A step that leaves the records where they are.
LEMMA ElsewhereLemma ==
    ASSUME MInv, TypeOK',
           UNCHANGED <<batch, decoded, queue, pending, rows, table, dropped,
                       shown, cleared>>
    PROVE  MInv'
BY DEF MInv, Types, Conserved, RebuildIsExact

LEMMA StepLemma == MInv /\ [Next]_vars => MInv'
<1> SUFFICES ASSUME MInv, [Next]_vars PROVE MInv'
  OBVIOUS
<1>0. MaxRows \in Nat \ {0} /\ TrimSlack \in Nat /\ MaxChunk \in Nat
      /\ MaxRecords \in Nat /\ MaxBuilds \in Nat
  BY MonitorAssumption
<1>1. ASSUME NEW n \in 0..MaxChunk, ReadChunk(n) \/ SourceEnds(n) PROVE MInv'
  <2>1. /\ batch' \in 0..MaxChunk /\ decoded + batch' <= MaxRecords
        /\ reader' \in {"reading", "done"}
        /\ UNCHANGED <<decoded, cancelled, queue, ui, screen, catalog>>
    BY <1>0, <1>1 DEF ReadChunk, SourceEnds, MInv, Types, TypeOK
  <2> QED BY <2>1 DEF MInv, Types, TypeOK, Conserved, RebuildIsExact,
                      screen, catalog
<1>2. CASE Put
  <2>1. /\ batch > 0 /\ batch' = batch - 1
        /\ decoded' = decoded + 1
        /\ queue' = Append(queue, decoded + 1)
        /\ UNCHANGED <<reader, cancelled, ui, screen, catalog>>
    BY <1>2 DEF Put
  <2>2. decoded + 1 \in 1..MaxRecords /\ batch' \in 0..MaxChunk
        /\ decoded' + batch' <= MaxRecords
    BY <1>0, <2>1 DEF MInv, Types, TypeOK
  <2>3. queue' \in Seq(1..MaxRecords) /\ queue' \in Seq(Nat)
        /\ Len(queue') = Len(queue) + 1 /\ Len(queue) \in Nat
    BY <2>1, <2>2 DEF MInv, Types, TypeOK
  <2>4. Conserved'
    BY <2>1, <2>3 DEF MInv, Types, Conserved, screen
  <2> QED BY <2>1, <2>2, <2>3, <2>4
          DEF MInv, Types, TypeOK, RebuildIsExact, screen, catalog
<1>3. CASE Drain \/ Quit
  <2>1. TypeOK'
    BY <1>3 DEF Drain, Quit, MInv, Types, TypeOK, source, screen, catalog
  <2> QED BY <1>3, <2>1, ElsewhereLemma DEF Drain, Quit, source, screen, catalog
<1>4. CASE Get
  <2>1. /\ queue # <<>> /\ queue' = Tail(queue) /\ Stash(Head(queue))
        /\ UNCHANGED <<reader, batch, decoded, cancelled, ui, paused, rows, table,
                       shown, cleared, catalog>>
    BY <1>4 DEF Get
  <2>2. /\ Head(queue) \in Nat /\ Tail(queue) \in Seq(Nat)
        /\ Tail(queue) \in Seq(1..MaxRecords)
        /\ Len(Tail(queue)) = Len(queue) - 1 /\ Len(queue) \in Nat
    BY <2>1 DEF MInv, Types, TypeOK
  <2>3. /\ pending' \in Seq(Nat) /\ Len(pending') <= MaxRows /\ dropped' \in Nat
        /\ Len(pending') + dropped' = Len(pending) + dropped + 1
    BY <2>1, <2>2, StashLemma DEF MInv
  <2>4. Conserved'
    <3>1. Len(pending) \in Nat /\ Len(pending') \in Nat
      BY <2>3 DEF MInv, Types
    <3>2. decoded = Len(queue) + Len(pending) + shown + dropped + cleared
          /\ Len(queue') = Len(queue) - 1
      BY <2>1, <2>2 DEF MInv, Conserved
    <3>3. decoded' = decoded /\ shown' = shown /\ cleared' = cleared
      BY <2>1
    <3>4. /\ Len(queue) \in Nat /\ shown \in Nat /\ cleared \in Nat
          /\ dropped \in Nat /\ dropped' \in Nat
          /\ Len(pending') + dropped' = Len(pending) + dropped + 1
      BY <2>2, <2>3 DEF MInv, Types
    <3> QED BY <3>1, <3>2, <3>3, <3>4 DEF Conserved
  <2> QED BY <2>1, <2>2, <2>3, <2>4
          DEF MInv, Types, TypeOK, RebuildIsExact, catalog
<1>5. CASE EndDrain
  <2>1. /\ ui' = "idle" /\ UNCHANGED <<source, paused, cleared, catalog>>
        /\ Render \/ UNCHANGED <<dropped, shown, rows, table, pending>>
    BY <1>5 DEF EndDrain
  <2>2. CASE Render
    <3>1. /\ pending' = <<>> /\ dropped' \in Nat /\ shown' \in Nat
          /\ shown' + dropped' = shown + dropped + Len(pending)
          /\ rows' \in Seq(Nat) /\ Len(rows') <= MaxRows
          /\ table' \in Seq(Nat) /\ Len(table') <= MaxRows + TrimSlack
          /\ RebuildIsExact'
      BY <2>2, RenderLemma DEF MInv
    <3>2. Conserved'
      <4>1. Len(pending) \in Nat /\ Len(queue) \in Nat /\ Len(pending') = 0
        BY <3>1 DEF MInv, Types
      <4>2. decoded' = decoded /\ Len(queue') = Len(queue) /\ cleared' = cleared
        BY <2>1 DEF source
      <4> DEFINE q == Len(queue)
                 p == Len(pending)
      <4>3. /\ q \in Nat /\ p \in Nat /\ shown \in Nat /\ cleared \in Nat
            /\ dropped \in Nat /\ dropped' \in Nat /\ shown' \in Nat
        BY <3>1, <4>1 DEF MInv, Types
      <4>4. decoded = q + p + shown + dropped + cleared
        BY DEF MInv, Conserved
      <4>5. shown' + dropped' = shown + dropped + p
        BY <3>1
      <4> HIDE DEF q, p
      <4>6. ASSUME NEW t \in Nat, NEW e \in Nat, t + e = shown + dropped + p
            PROVE  decoded = q + t + e + cleared
        BY <4>3, <4>4, <4>6
      <4>7. decoded = q + shown' + dropped' + cleared
        BY <4>3, <4>5, <4>6
      <4> QED BY <4>1, <4>2, <4>3, <4>7 DEF Conserved, q
    <3>3. TypeOK'
      BY <1>0, <2>1, <3>1 DEF MInv, Types, TypeOK, source, catalog
    <3> QED BY <2>1, <3>1, <3>2, <3>3 DEF MInv, Types, source
  <2>3. CASE UNCHANGED <<dropped, shown, rows, table, pending>>
    <3>1. TypeOK'
      BY <2>1, <2>3 DEF MInv, Types, TypeOK, source, catalog
    <3> QED BY <2>1, <2>3, <3>1, ElsewhereLemma DEF source
  <2> QED BY <2>1, <2>2, <2>3
<1>6. CASE TogglePause
  <2>1. TypeOK'
    BY <1>6 DEF TogglePause, MInv, Types, TypeOK, source, catalog
  <2> QED BY <1>6, <2>1, ElsewhereLemma DEF TogglePause, source
<1>7. CASE Clear
  <2>1. /\ table' = <<>> /\ rows' = <<>> /\ pending' = <<>>
        /\ cleared' = cleared + Len(pending)
        /\ UNCHANGED <<source, ui, paused, dropped, shown, catalog>>
    BY <1>7 DEF Clear, ClearRows
  <2>2. RebuildIsExact'
    BY <1>0, <2>1 DEF RebuildIsExact, Newest
  <2>3. Conserved'
    BY <2>1 DEF MInv, Types, Conserved, source
  <2>4. TypeOK'
    BY <1>0, <2>1 DEF MInv, Types, TypeOK, source, catalog
  <2> QED BY <2>1, <2>2, <2>3, <2>4 DEF MInv, Types, source
<1>8. CASE BuildStarts \/ BuildGoesOn
  <2>1. /\ disk' \in 0..MaxBuilds /\ file' \in {"whole", "part", "missing"}
        /\ UNCHANGED <<source, ui, screen, inUse>>
    BY <1>0, <1>8 DEF BuildStarts, BuildGoesOn, MInv, Types, TypeOK
  <2>2. TypeOK'
    BY <2>1 DEF MInv, Types, TypeOK, source, screen
  <2> QED BY <2>1, <2>2, ElsewhereLemma DEF source, screen
<1>9. CASE CheckCatalog
  <2>1. TypeOK'
    BY <1>9 DEF CheckCatalog, Fields, MInv, Types, TypeOK, source, screen, catalog
  <2> QED BY <1>9, <2>1, ElsewhereLemma DEF CheckCatalog, source, screen
<1>10. CASE Reload
  <2>1. ASSUME NEW f \in Fields, NEW v \in 0..MaxBuilds,
               NEW next \in Fields \cup {"stat"}, Assign(f, v, next)
        PROVE  MInv'
    <3>1. inUse' \in [Fields -> 0..MaxBuilds]
      BY <2>1 DEF Assign, MInv, Types, TypeOK
    <3>2. TypeOK'
      BY <2>1, <3>1 DEF Assign, MInv, Types, TypeOK, source, screen
    <3> QED BY <2>1, <3>2, ElsewhereLemma DEF Assign, source, screen
  <2>2. "db" \in Fields /\ "messages" \in Fields /\ "modules" \in Fields
        /\ disk \in 0..MaxBuilds /\ inUse["db"] \in 0..MaxBuilds
    BY DEF Fields, MInv, Types, TypeOK
  <2>3. CASE Stat
    <3>1. TypeOK'
      BY <2>3 DEF Stat, MInv, Types, TypeOK, source, screen
    <3> QED BY <2>3, <3>1, ElsewhereLemma DEF Stat, source, screen
  <2>4. CASE Raises
    <3>1. TypeOK'
      BY <2>4 DEF Raises, MInv, Types, TypeOK, screen, catalog
    <3> QED BY <2>4, <3>1, ElsewhereLemma DEF Raises, screen
  <2> QED BY <1>10, <2>1, <2>2, <2>3, <2>4 DEF Reload, AssignModules
<1>11. CASE UNCHANGED vars
  <2>1. TypeOK'
    BY <1>11 DEF vars, MInv, Types, TypeOK, source, screen, catalog
  <2> QED BY <1>11, <2>1, ElsewhereLemma DEF vars, source, screen
<1> QED BY <1>1, <1>2, <1>3, <1>4, <1>5, <1>6, <1>7, <1>8, <1>9, <1>10, <1>11
        DEF Next

-----------------------------------------------------------------------------
\* MInv holds in every reachable state.
THEOREM Invariance == Spec => []MInv
<1> QED BY InitLemma, StepLemma, PTL DEF Spec

\* Every bound is kept: of what is held back, of the rows and of the table
\* (tui.py:129-135, 256-279).
THEOREM TypeCorrectness == Spec => []TypeOK
<1>1. MInv => TypeOK
  BY DEF MInv, Types
<1> QED BY <1>1, Invariance, PTL

\* No record disappears without being shown, counted or cleared
\* (tui.py:214-245).
THEOREM Conservation == Spec => []Conserved
<1>1. MInv => Conserved
  BY DEF MInv
<1> QED BY <1>1, Invariance, PTL

\* A rebuild of the table never brings back or reorders a row
\* (tui.py:131-135, 256-279).
THEOREM ExactRebuild == Spec => []RebuildIsExact
<1>1. MInv => RebuildIsExact
  BY DEF MInv
<1> QED BY <1>1, Invariance, PTL
-----------------------------------------------------------------------------
(***************************************************************************)
(* Gaps.  Queue and pending rows are runs of successive records, since a   *)
(* bounded deque loses from the left only; so of the records that have     *)
(* left pending since a row of the table was rendered, every one is below  *)
(* that row or counted.                                                    *)
(***************************************************************************)

\* The records that have left both queue and pending.
Out == decoded - Len(queue) - Len(pending)

Runs ==
    /\ \A i \in 1..Len(queue) : queue[i] = decoded - Len(queue) + i
    /\ \A i \in 1..Len(pending) : pending[i] = Out + i

\* Row i has Len(t) - i rows below it.
Accounted(t, out, lost) ==
    \A i \in 1..Len(t) : t[i] <= out /\ out - t[i] - (Len(t) - i) <= lost

GapInv == Runs /\ Accounted(table, Out, dropped)

\* Rows that fall off on the left leave the accounts of the others.
LEMMA AccountedNewest ==
    ASSUME NEW t \in Seq(Nat), NEW n \in Nat, NEW out \in Int, NEW lost \in Nat,
           Accounted(t, out, lost)
    PROVE  Accounted(Newest(t, n), out, lost)
<1> DEFINE r == Newest(t, n)
<1>0. /\ r \in Seq(Nat)
      /\ Len(r) = IF Len(t) > n THEN n ELSE Len(t)
      /\ \A i \in 1..Len(r) : r[i] = t[Len(t) - Len(r) + i]
  BY NewestProperties
<1> HIDE DEF r
<1>1. Len(t) \in Nat /\ Len(r) \in Nat /\ Len(r) <= Len(t)
  BY <1>0
<1>2. ASSUME NEW i \in 1..Len(r)
      PROVE  r[i] <= out /\ out - r[i] - (Len(r) - i) <= lost
  <2> DEFINE j == Len(t) - Len(r) + i
  <2>1. j \in 1..Len(t) /\ Len(t) - j = Len(r) - i
    BY <1>1
  <2>2. r[i] = t[j]
    BY <1>0
  <2> HIDE DEF j
  <2> QED BY <2>1, <2>2 DEF Accounted
<1>3. Accounted(r, out, lost)
  BY <1>2 DEF Accounted
<1> QED BY <1>3 DEF r

LEMMA GetGaps ==
    ASSUME Types, GapInv, Get
    PROVE  GapInv'
<1> DEFINE q == Len(queue)
           p == Len(pending)
           a == Append(pending, Head(queue))
<1>1. /\ queue \in Seq(Nat) /\ queue # <<>> /\ queue' = Tail(queue)
      /\ pending' = Newest(a, MaxRows)
      /\ dropped' = IF p = MaxRows THEN dropped + 1 ELSE dropped
      /\ UNCHANGED <<decoded, table>>
  BY DEF Types, Get, Stash
<1>2. /\ q \in Nat \ {0} /\ p \in Nat /\ p <= MaxRows /\ MaxRows \in Nat \ {0}
      /\ decoded \in Nat /\ dropped \in Nat
      /\ pending \in Seq(Nat) /\ table \in Seq(Nat)
  BY <1>1, MonitorAssumption DEF Types, TypeOK
<1>3. /\ Len(queue') = q - 1 /\ \A i \in 1..(q - 1) : queue'[i] = queue[i + 1]
      /\ Head(queue) = queue[1] /\ Head(queue) \in Nat
  BY <1>1
<1>4. Head(queue) = Out + p + 1 /\ Out = decoded - q - p /\ Out \in Int
  BY <1>2, <1>3 DEF GapInv, Runs, Out
<1>5. /\ a \in Seq(Nat) /\ Len(a) = p + 1
      /\ \A i \in 1..(p + 1) : a[i] = IF i = p + 1 THEN Head(queue) ELSE pending[i]
  BY <1>2, <1>3
<1>6. \A i \in 1..p : pending[i] = Out + i
  BY DEF GapInv, Runs
<1>7. \A i \in 1..q : queue[i] = decoded - q + i
  BY DEF GapInv, Runs
<1>8. \A i \in 1..Len(table) :
          table[i] <= Out /\ Out - table[i] - (Len(table) - i) <= dropped
  BY DEF GapInv, Accounted
<1> HIDE DEF q, p, a
<1>9. \A i \in 1..(p + 1) : a[i] = Out + i
  BY <1>2, <1>4, <1>5, <1>6
<1>10. \A i \in 1..(q - 1) : queue'[i] = decoded' - (q - 1) + i
  <2> TAKE i \in 1..(q - 1)
  <2>1. i + 1 \in 1..q
    BY <1>2
  <2> QED BY <1>1, <1>2, <1>3, <1>7, <2>1
<1>11. CASE p < MaxRows
  <2>1. pending' = a /\ dropped' = dropped
    BY <1>1, <1>2, <1>5, <1>11 DEF Newest
  <2>2. Out' = Out
    <3>1. Out' = decoded' - Len(queue') - Len(pending')
      BY DEF Out
    <3>2. Len(queue') = q - 1 /\ Len(pending') = p + 1 /\ decoded' = decoded
      BY <1>1, <1>3, <1>5, <2>1
    <3> QED BY <1>2, <1>4, <3>1, <3>2
  <2>3. Accounted(table, Out, dropped)'
    BY <1>1, <2>1, <2>2, <1>8 DEF Accounted
  <2>4. Runs'
    BY <1>3, <1>5, <1>9, <1>10, <2>1, <2>2 DEF Runs
  <2> QED BY <2>3, <2>4 DEF GapInv
<1>12. CASE p = MaxRows
  <2>1. /\ Len(pending') = p /\ dropped' = dropped + 1
        /\ \A i \in 1..p : pending'[i] = a[1 + i]
    <3>1. /\ Len(Newest(a, MaxRows)) = IF Len(a) > MaxRows THEN MaxRows ELSE Len(a)
          /\ \A i \in 1..Len(Newest(a, MaxRows)) :
                Newest(a, MaxRows)[i] = a[Len(a) - Len(Newest(a, MaxRows)) + i]
      BY <1>2, <1>5, NewestProperties
    <3>2. Len(pending') = p
      BY <1>1, <1>2, <1>5, <1>12, <3>1
    <3>3. Len(a) - Len(pending') = 1
      BY <1>2, <1>5, <3>2
    <3> QED BY <1>1, <1>12, <3>1, <3>2, <3>3
  <2>2. Out' = Out + 1
    BY <1>1, <1>2, <1>3, <1>4, <2>1 DEF Out, p, q
  <2>3. \A i \in 1..p : pending'[i] = Out' + i
    <3> TAKE i \in 1..p
    <3>1. 1 + i \in 1..(p + 1) /\ i \in Int
      BY <1>2
    <3>2. pending'[i] = a[1 + i] /\ a[1 + i] = Out + (1 + i)
      BY <1>9, <2>1, <3>1
    <3> QED BY <1>4, <2>2, <3>1, <3>2
  <2>4. Runs'
    BY <1>3, <1>10, <2>1, <2>3 DEF Runs
  <2>5. ASSUME NEW i \in 1..Len(table)
        PROVE  table[i] <= Out' /\ Out' - table[i] - (Len(table) - i) <= dropped'
    <3>1. table[i] \in Int /\ Len(table) \in Int /\ i \in Int
      BY <1>2
    <3>2. table[i] <= Out /\ Out - table[i] - (Len(table) - i) <= dropped
      BY <1>8
    <3> DEFINE x == table[i]
               l == Len(table)
    <3>3. x \in Int /\ l \in Int /\ x <= Out /\ Out - x - (l - i) <= dropped
      BY <3>1, <3>2
    <3> HIDE DEF x, l
    <3>4. /\ dropped \in Int /\ Out \in Int /\ i \in Int
          /\ dropped' = dropped + 1 /\ Out' = Out + 1
      BY <1>2, <1>4, <2>1, <2>2
    <3>5. x <= Out' /\ Out' - x - (l - i) <= dropped'
      BY <3>3, <3>4
    <3> QED BY <3>5 DEF x, l
  <2>6. Accounted(table, Out', dropped')
    BY <2>5 DEF Accounted
  <2>7. Accounted(table, Out, dropped)'
    BY <1>1, <2>6 DEF Accounted
  <2> QED BY <2>4, <2>7 DEF GapInv
<1> QED BY <1>2, <1>11, <1>12

LEMMA RenderGaps ==
    ASSUME Types, RebuildIsExact, GapInv, Render, UNCHANGED <<decoded, queue>>
    PROVE  GapInv'
<1> DEFINE p == Len(pending)
           new == Newest(pending, MaxAppend)
           n == Len(new)
           t == table \o new
<1>1. /\ MaxRows \in Nat \ {0} /\ TrimSlack \in Nat /\ MaxAppend \in Nat
      /\ pending \in Seq(Nat) /\ rows \in Seq(Nat) /\ table \in Seq(Nat)
      /\ decoded \in Nat /\ dropped \in Nat /\ p \in Nat /\ Len(queue) \in Nat
      /\ Len(table) \in Nat
  BY MonitorAssumption DEF Types
<1>2. /\ new \in Seq(Nat) /\ n \in Nat /\ n <= p
      /\ \A i \in 1..n : new[i] = pending[p - n + i]
  BY <1>1, NewestProperties
<1>3. /\ dropped' = dropped + p - n
      /\ table' = IF Len(t) <= MaxRows + TrimSlack THEN t
                  ELSE Newest(rows \o new, MaxRows)
      /\ pending' = <<>>
  BY DEF Render, Keep, EnforceCap
<1>4. Out \in Int /\ Out' = Out + p
  BY <1>1, <1>3 DEF Out
<1>5. \A i \in 1..p : pending[i] = Out + i
  BY DEF GapInv, Runs
<1>6. \A i \in 1..Len(table) :
          table[i] <= Out /\ Out - table[i] - (Len(table) - i) <= dropped
  BY DEF GapInv, Accounted
<1>7. Newest(rows \o new, MaxRows) = Newest(t, MaxRows)
  BY <1>1, <1>2, NewestOfConcat DEF RebuildIsExact
<1>8. /\ t \in Seq(Nat) /\ Len(t) = Len(table) + n
      /\ \A i \in 1..(Len(table) + n) :
             t[i] = IF i <= Len(table) THEN table[i] ELSE new[i - Len(table)]
  BY <1>1, <1>2, ConcatProperties
<1> DEFINE l == Len(table)
<1> HIDE DEF p, new, n, t, l
<1>9. ASSUME NEW i \in 1..Len(t)
      PROVE  t[i] <= Out' /\ Out' - t[i] - (Len(t) - i) <= dropped'
  <2>1. CASE i <= l
    <3>1. t[i] = table[i] /\ i \in 1..l /\ t[i] \in Nat /\ l \in Nat
      BY <1>1, <1>8, <1>9, <2>1 DEF l
    <3>2. t[i] <= Out /\ Out - t[i] - (l - i) <= dropped
      BY <1>6, <3>1 DEF l
    <3>3. Len(t) = l + n /\ i \in Int
      BY <1>1, <1>2, <1>8 DEF l
    <3>4. t[i] <= Out'
      BY <1>1, <1>4, <3>1, <3>2
    <3> DEFINE x == t[i]
               m == Len(t)
    <3>5. /\ p \in Int /\ n \in Int /\ dropped \in Int /\ x \in Int /\ l \in Int
          /\ i \in Int /\ Out \in Int /\ Out - x - (l - i) <= dropped
          /\ Out' = Out + p /\ dropped' = dropped + p - n /\ m = l + n
      BY <1>1, <1>2, <1>3, <1>4, <3>1, <3>2, <3>3 DEF p
    <3> HIDE DEF x, m
    <3>6. Out' - x - (m - i) <= dropped'
      BY <3>5
    <3> QED BY <3>4, <3>6 DEF x, m
  <2>2. CASE ~(i <= l)
    <3>1. /\ t[i] = new[i - l] /\ i - l \in 1..n /\ l \in Nat /\ Len(t) = l + n
          /\ i \in Int
      <4>1. l \in Nat /\ Len(t) = l + n /\ i \in 1..(l + n)
        BY <1>1, <1>8, <1>9 DEF l
      <4>2. i - l \in 1..n /\ i \in Int
        BY <1>2, <2>2, <4>1
      <4>3. t[i] = new[i - l]
        BY <1>8, <2>2, <4>1 DEF l
      <4> QED BY <4>1, <4>2, <4>3
    <3>2. t[i] = pending[p - n + (i - l)] /\ p - n + (i - l) \in 1..p
      BY <1>1, <1>2, <3>1
    <3>3. t[i] = Out + (p - n + (i - l))
      BY <1>5, <3>2
    <3> QED BY <1>1, <1>2, <1>3, <1>4, <3>1, <3>3
  <2> QED BY <2>1, <2>2
<1>10. Accounted(t, Out', dropped')
  BY <1>9 DEF Accounted
<1>11. dropped' \in Nat /\ Out' \in Int
  BY <1>1, <1>2, <1>3, <1>4
<1>12. Accounted(Newest(t, MaxRows), Out', dropped')
  BY <1>1, <1>8, <1>10, <1>11, AccountedNewest
<1>13. Accounted(table', Out', dropped')
  BY <1>3, <1>7, <1>10, <1>12
<1>14. Runs'
  <2>1. ~\E i \in 1..Len(pending') : TRUE
    BY <1>3
  <2> QED BY <2>1 DEF GapInv, Runs
<1> QED BY <1>13, <1>14 DEF GapInv, Accounted

LEMMA GapStep ==
    ASSUME MInv, GapInv, [Next]_vars
    PROVE  GapInv'
<1>0. Types /\ RebuildIsExact
  BY DEF MInv
<1>1. CASE UNCHANGED <<decoded, queue, pending, table, dropped>>
  BY <1>1 DEF GapInv, Runs, Out, Accounted
<1>2. CASE Put
  <2>1. /\ decoded' = decoded + 1 /\ queue' = Append(queue, decoded + 1)
        /\ UNCHANGED <<pending, table, dropped>>
    BY <1>2 DEF Put, screen
  <2>2. /\ decoded \in Nat /\ Len(queue) \in Nat /\ Len(pending) \in Nat
        /\ queue \in Seq(Nat)
    BY <1>0 DEF Types
  <2>3. /\ Len(queue') = Len(queue) + 1
        /\ \A i \in 1..Len(queue') :
               queue'[i] = IF i = Len(queue) + 1 THEN decoded + 1 ELSE queue[i]
    BY <2>1, <2>2
  <2>4. Out' = Out
    BY <2>1, <2>2, <2>3 DEF Out
  <2>5. \A i \in 1..Len(queue') : queue'[i] = decoded' - Len(queue') + i
    BY <2>1, <2>2, <2>3 DEF GapInv, Runs
  <2> QED BY <2>1, <2>4, <2>5 DEF GapInv, Runs, Accounted
<1>3. CASE Get
  BY <1>0, <1>3, GetGaps
<1>4. CASE EndDrain
  <2>1. CASE Render
    BY <1>0, <1>4, <2>1, RenderGaps DEF EndDrain, source
  <2>2. CASE UNCHANGED <<dropped, shown, rows, table, pending>>
    BY <1>1, <1>4, <2>2 DEF EndDrain, source
  <2> QED BY <1>4, <2>1, <2>2 DEF EndDrain
<1>5. CASE Clear
  <2>1. /\ table' = <<>> /\ pending' = <<>> /\ UNCHANGED <<decoded, queue>>
    BY <1>5 DEF Clear, source
  <2>2. ~(\E i \in 1..Len(table') : TRUE) /\ ~(\E i \in 1..Len(pending') : TRUE)
    BY <2>1
  <2> QED BY <2>1, <2>2 DEF GapInv, Runs, Accounted
<1>6. ASSUME NEW n \in 0..MaxChunk, ReadChunk(n) \/ SourceEnds(n) PROVE GapInv'
  BY <1>1, <1>6 DEF ReadChunk, SourceEnds, screen
<1>7. CASE Drain \/ TogglePause \/ Quit \/ BuildStarts \/ BuildGoesOn
           \/ CheckCatalog \/ Reload
  BY <1>1, <1>7
  DEF Drain, TogglePause, Quit, BuildStarts, BuildGoesOn, CheckCatalog, Reload,
      Assign, AssignModules, Stat, Raises, source, screen
<1>8. CASE UNCHANGED vars
  BY <1>1, <1>8 DEF vars, source, screen
<1> QED BY <1>2, <1>3, <1>4, <1>5, <1>6, <1>7, <1>8 DEF Next

\* What is missing between the rows on screen has been counted as dropped.
THEOREM NoSilentGap == Spec => []GapsCounted
<1>1. Init => GapInv
  <2> SUFFICES ASSUME Init PROVE GapInv
    OBVIOUS
  <2>1. /\ ~(\E i \in 1..Len(table) : TRUE) /\ ~(\E i \in 1..Len(queue) : TRUE)
        /\ ~(\E i \in 1..Len(pending) : TRUE)
    BY DEF Init
  <2> QED BY <2>1 DEF GapInv, Runs, Accounted
<1>2. MInv /\ GapInv /\ [Next]_vars => GapInv'
  BY GapStep
<1>3. MInv /\ GapInv => GapsCounted
  <2> SUFFICES ASSUME MInv, GapInv, table # <<>>
               PROVE  Last(table) - Head(table) + 1 - Len(table) <= dropped
    BY DEF GapsCounted
  <2> DEFINE l == Len(table)
  <2>1. /\ table \in Seq(Nat) /\ l \in Nat \ {0} /\ dropped \in Nat
        /\ Head(table) = table[1] /\ Last(table) = table[l]
        /\ table[1] \in Nat /\ table[l] \in Nat
    BY DEF MInv, Types, Last
  <2>2. Out \in Int
    BY DEF MInv, Types, Out
  <2>3. 1 \in 1..l /\ l \in 1..l
    BY <2>1
  <2>4. table[l] <= Out /\ Out - table[1] - (l - 1) <= dropped
    BY <2>3 DEF GapInv, Accounted
  <2> HIDE DEF l
  <2>5. Last(table) - Head(table) + 1 - l <= dropped
    BY <2>1, <2>2, <2>4
  <2> QED BY <2>5 DEF l
<1> QED BY <1>1, <1>2, <1>3, Invariance, PTL DEF Spec

\* The catalogue in use is one file's, but for a reload's last two assignments,
\* between which it is a mix of two; for any number of builds, at any time.
THEOREM WholeCatalog == Spec => []CatalogWhole
<1>1. Init => CatalogWhole
  BY DEF Init, CatalogWhole, Fields
<1>2. MInv /\ CatalogWhole /\ [Next]_vars => CatalogWhole'
  <2> SUFFICES ASSUME MInv, CatalogWhole, [Next]_vars PROVE CatalogWhole'
    OBVIOUS
  <2>1. inUse \in [Fields -> 0..MaxBuilds]
    BY DEF MInv, Types, TypeOK
  <2>2. CASE UNCHANGED <<ui, inUse>>
    BY <2>2 DEF CatalogWhole
  <2>3. CASE UNCHANGED inUse /\ ui \notin {"messages", "modules"}
                             /\ ui' \notin {"messages", "modules"}
    BY <2>3 DEF CatalogWhole
  <2>4. CASE Assign("db", disk, "messages")
    BY <2>1, <2>4 DEF Assign, CatalogWhole, Fields
  <2>5. CASE Assign("messages", inUse["db"], "modules")
    BY <2>1, <2>5 DEF Assign, CatalogWhole, Fields
  <2>6. CASE AssignModules
    BY <2>1, <2>6 DEF AssignModules, Assign, CatalogWhole, Fields
  <2>7. ASSUME NEW n \in 0..MaxChunk, ReadChunk(n) \/ SourceEnds(n)
        PROVE  CatalogWhole'
    BY <2>2, <2>7 DEF ReadChunk, SourceEnds, catalog
  <2>8. CASE Put \/ Get \/ TogglePause \/ Clear \/ BuildStarts \/ BuildGoesOn
    BY <2>2, <2>8
    DEF Put, Get, TogglePause, Clear, BuildStarts, BuildGoesOn, catalog
  <2>9. CASE Drain \/ EndDrain \/ Quit \/ CheckCatalog \/ Stat \/ Raises
    BY <2>3, <2>9 DEF Drain, EndDrain, Quit, CheckCatalog, Stat, Raises, catalog
  <2>10. CASE UNCHANGED vars
    BY <2>2, <2>10 DEF vars, catalog
  <2> QED BY <2>4, <2>5, <2>6, <2>7, <2>8, <2>9, <2>10 DEF Next, Reload
<1> QED BY <1>1, <1>2, Invariance, PTL DEF Spec
=============================================================================
