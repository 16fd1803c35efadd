---------------------------- MODULE RegionProofs ----------------------------
(***************************************************************************)
(* Type correctness, exclusivity, the agreement of queue and pending bits, *)
(* the waiter count, and that the region implements RegionAbs: for every   *)
(* number of contexts and operations.                                      *)
(*                                                                         *)
(* The inductive invariant IInv speaks of the region's state only, never   *)
(* of the call stacks: a critical section is safe whoever runs it.  Six    *)
(* lemmas say what each kind of critical section does to it; the step      *)
(* lemma sorts the actions into the six kinds.                             *)
(*                                                                         *)
(* Who completes an operation is a matter of the stacks: OwnInv, further   *)
(* down, adds them to IInv.                                                *)
(***************************************************************************)
EXTENDS Region, FifoProofs, FiniteSetTheorems

\* The part of IInv that is not about types.
Core == Exclusive /\ QueueAgrees /\ CountInv

\* An operation moves, but neither into nor out of the region or its queue.
LEMMA MoveLemma ==
    ASSUME TypeInv, Core, NEW o \in Ops, NEW p \in Points,
           pc' = [pc EXCEPT ![o] = p],
           pc[o] # "queued", p # "queued",
           pc[o] \in HoldPoints <=> p \in HoldPoints,
           UNCHANGED <<waiters, queue, pending>>
    PROVE  Core'
<1>1. Holders' = Holders
  BY DEF Holders, TypeInv
<1>2. \A x \in Ops : pc'[x] = "queued" <=> pc[x] = "queued"
  BY DEF TypeInv
<1> QED BY <1>1, <1>2 DEF Core, Exclusive, QueueAgrees, CountInv

\* An operation takes the free region.
LEMMA TakeLemma ==
    ASSUME TypeInv, Core, NEW o \in Ops, NEW p \in HoldPoints,
           pc' = [pc EXCEPT ![o] = p],
           pc[o] # "queued",
           waiters = 0, waiters' = 1,
           UNCHANGED <<queue, pending>>
    PROVE  Core'
<1>1. Holders = {} /\ queue = <<>>
  BY DEF Core, CountInv, TypeInv
<1>2. Holders' = {o}
  BY <1>1 DEF Holders, TypeInv
<1>3. \A x \in Ops : pc'[x] = "queued" <=> pc[x] = "queued"
  BY DEF TypeInv, HoldPoints
<1>4. Len(queue') = 0
  BY <1>1
<1> QED BY <1>1, <1>2, <1>3, <1>4 DEF Core, Exclusive, QueueAgrees, CountInv

\* An operation joins the queue of the held region.
LEMMA EnqueueLemma ==
    ASSUME TypeInv, Core, NEW o \in Ops,
           pc' = [pc EXCEPT ![o] = "queued"],
           pc[o] # "queued", pc[o] \notin HoldPoints,
           waiters # 0, waiters' = waiters + 1,
           queue' = Append(queue, o),
           pending' = [pending EXCEPT ![o] = TRUE]
    PROVE  Core'
<1>1. Holders' = Holders
  BY DEF Holders, TypeInv, HoldPoints
<1>2. ~Linked(queue, o) /\ Distinct(queue) /\ queue \in Seq(Ops)
  BY DEF Core, QueueAgrees, TypeInv
<1>3. /\ Len(queue') = Len(queue) + 1
      /\ Distinct(queue')
      /\ \A y : Linked(queue', y) <=> Linked(queue, y) \/ y = o
  BY <1>2, PushBackProperties
<1>4. Holders # {}
  BY DEF Core, QueueAgrees, CountInv, TypeInv
<1>5. Exclusive'
  BY <1>1 DEF Core, Exclusive
<1>6. QueueAgrees'
  BY <1>1, <1>3, <1>4 DEF Core, QueueAgrees, TypeInv
<1>7. CountInv'
  BY <1>1, <1>2, <1>3 DEF Core, CountInv, TypeInv
<1> QED BY <1>5, <1>6, <1>7 DEF Core

\* The last one out leaves the region free.
LEMMA LeaveLemma ==
    ASSUME TypeInv, Core, NEW o \in Ops,
           pc' = [pc EXCEPT ![o] = "forward"],
           pc[o] \in HoldPoints,
           waiters = 1, waiters' = 0,
           UNCHANGED <<queue, pending>>
    PROVE  Core'
<1>1. Holders = {o}
  BY DEF Core, Exclusive, Holders
<1>2. Holders' = {}
  BY <1>1 DEF Holders, TypeInv, HoldPoints
<1>3. queue = <<>> /\ Len(queue) = 0
  BY <1>1 DEF Core, CountInv, TypeInv
<1>4. \A x \in Ops : pc'[x] = "queued" <=> pc[x] = "queued"
  BY DEF TypeInv, HoldPoints
<1> QED BY <1>2, <1>3, <1>4 DEF Core, Exclusive, QueueAgrees, CountInv

\* The leaver hands the region to the front of the queue.
LEMMA HandOffLemma ==
    ASSUME TypeInv, Core, NEW o \in Ops,
           queue # <<>>,
           pc' = [pc EXCEPT ![o] = "forward", ![Head(queue)] = "granted"],
           pc[o] \in HoldPoints,
           waiters' = waiters - 1,
           queue' = Tail(queue),
           pending' = [pending EXCEPT ![Head(queue)] = FALSE]
    PROVE  Core' /\ Head(queue) # o /\ pc[Head(queue)] = "queued"
<1> DEFINE t == Head(queue)
<1>1. /\ queue \in Seq(Ops)
      /\ t \in Ops
      /\ Len(queue') = Len(queue) - 1
      /\ Distinct(queue')
      /\ Linked(queue, t)
      /\ \A y : Linked(queue', y) <=> Linked(queue, y) /\ y # t
  BY PopFrontProperties DEF Core, QueueAgrees, TypeInv
<1>2. pc[t] = "queued" /\ t # o
  BY <1>1 DEF Core, QueueAgrees, HoldPoints
<1>3. Holders = {o}
  BY DEF Core, Exclusive, Holders
<1>4. Holders' = {t}
  BY <1>1, <1>2, <1>3 DEF Holders, TypeInv, HoldPoints
<1>5. \A x \in Ops : pc'[x] = "queued" <=> pc[x] = "queued" /\ x # t
  BY <1>1, <1>2 DEF TypeInv, HoldPoints
<1>6. Exclusive'
  BY <1>4 DEF Exclusive
<1>7. QueueAgrees'
  BY <1>1, <1>4, <1>5 DEF Core, QueueAgrees, TypeInv
<1>8. CountInv'
  <2>1. Holders # {} /\ Holders' # {}
    BY <1>3, <1>4
  <2>2. waiters = Len(queue) + 1
    BY <2>1 DEF Core, CountInv
  <2>3. Len(queue) \in Nat
    BY <1>1
  <2>4. waiters' = Len(queue') + 1
    BY <1>1, <2>2, <2>3
  <2> QED BY <2>1, <2>4 DEF CountInv
<1> QED BY <1>2, <1>6, <1>7, <1>8 DEF Core

\* A cancelled operation gives up its place.
LEMMA DequeueLemma ==
    ASSUME TypeInv, Core, NEW o \in Ops,
           pending[o],
           pc' = [pc EXCEPT ![o] = "cancelled"],
           waiters' = waiters - 1,
           queue' = Unlink(queue, o),
           pending' = [pending EXCEPT ![o] = FALSE]
    PROVE  Core' /\ pc[o] = "queued"
<1>1. pc[o] = "queued" /\ Linked(queue, o) /\ Distinct(queue) /\ queue \in Seq(Ops)
  BY DEF Core, QueueAgrees, TypeInv
<1>2. /\ Len(queue') = Len(queue) - 1
      /\ Distinct(queue')
      /\ \A y : Linked(queue', y) <=> Linked(queue, y) /\ y # o
  BY <1>1, UnlinkProperties
<1>3. Holders' = Holders
  BY <1>1 DEF Holders, TypeInv, HoldPoints
<1>4. queue # <<>>
  BY <1>1 DEF Linked
<1>5. Exclusive'
  BY <1>3 DEF Core, Exclusive
<1>6. QueueAgrees'
  BY <1>1, <1>2, <1>3, <1>4 DEF Core, QueueAgrees, TypeInv
<1>7. CountInv'
  BY <1>1, <1>2, <1>3 DEF Core, CountInv, TypeInv
<1> QED BY <1>1, <1>5, <1>6, <1>7 DEF Core

-----------------------------------------------------------------------------
\* Frames are pushed and popped by these two only.
LEMMA StackLemma ==
    ASSUME TypeInv, NEW c \in Contexts
    PROVE  /\ \A f \in Frames : Call(c, f) => stack' \in [Contexts -> Seq(Frames)]
           /\ stack[c] # <<>> /\ Return(c) => stack' \in [Contexts -> Seq(Frames)]
           /\ \A f \in Frames :
                  stack[c] # <<>> /\ stack' = [stack EXCEPT ![c] = <<f>> \o Tail(@)]
                  => stack' \in [Contexts -> Seq(Frames)]
<1>1. stack \in [Contexts -> Seq(Frames)] /\ stack[c] \in Seq(Frames)
  BY DEF TypeInv
<1>2. \A f \in Frames : <<f>> \o stack[c] \in Seq(Frames)
  BY <1>1
<1>3. stack[c] # <<>> => Tail(stack[c]) \in Seq(Frames)
  BY <1>1
<1>4. \A f \in Frames : stack[c] # <<>> => <<f>> \o Tail(stack[c]) \in Seq(Frames)
  BY <1>3
<1> QED BY <1>1, <1>2, <1>3, <1>4 DEF Call, Return

LEMMA InitLemma == Init => IInv
<1> SUFFICES ASSUME Init PROVE IInv
  OBVIOUS
<1>1. TypeInv
  BY RegionAssumption DEF Init, TypeInv, Points
<1>2. Holders = {}
  BY DEF Init, Holders, HoldPoints
<1>3. ~\E i \in 1..Len(queue) : TRUE
  BY DEF Init
<1> QED BY <1>1, <1>2, <1>3 DEF Init, IInv, Exclusive, QueueAgrees, CountInv, Linked, Distinct

\* No step breaks IInv.
LEMMA StepLemma == IInv /\ [Next]_vars => IInv'
<1> SUFFICES ASSUME IInv, [Next]_vars PROVE IInv'
  OBVIOUS
<1> USE DEF IInv, Core
<1>1. ASSUME NEW c \in Contexts, NEW o \in Ops, Start(c, o) PROVE IInv'
  <2>1. PICK stopped \in BOOLEAN :
            Goto(o, IF stopped THEN "cancelled" ELSE "fast")
    BY <1>1 DEF Start
  <2>2. Core'
    BY <1>1, <2>1, MoveLemma DEF Start, Goto, Points, HoldPoints
  <2>3. TypeInv'
    <3>1. stack' \in [Contexts -> Seq(Frames)]
      BY <1>1, StackLemma DEF Start, Frames
    <3>2. stopReq' \in [Ops -> BOOLEAN]
      <4>1. PICK b \in BOOLEAN : stopReq' = [stopReq EXCEPT ![o] = b]
        BY <1>1, Zenon DEF Start
      <4> QED BY <4>1 DEF TypeInv
    <3>3. status' \in [Ops -> {"init", "queued", "cancelled"}]
      BY <1>1 DEF Start, ResetCancelState, TypeInv
    <3>4. pc' \in [Ops -> Points]
      BY <2>1 DEF Goto, TypeInv, Points
    <3> QED BY <1>1, <3>1, <3>2, <3>3, <3>4 DEF TypeInv, Start
  <2> QED BY <2>2, <2>3
<1>2. ASSUME NEW c \in Contexts, NEW o \in Ops, Fast(c, o) PROVE IInv'
  <2>1. PICK p \in {"body", "release", "arm"} :
            Goto(o, p) /\ (p = "arm" <=> waiters # 0)
    BY <1>2 DEF Fast, FastCS, Enter
  <2>2. TypeInv'
    BY <1>2, <2>1 DEF TypeInv, Fast, FastCS, Goto, Points
  <2>3. CASE waiters = 0
    BY <1>2, <2>1, <2>2, <2>3, TakeLemma DEF Fast, FastCS, Goto, At, HoldPoints
  <2>4. CASE waiters # 0
    BY <1>2, <2>2, <2>4, MoveLemma DEF Fast, FastCS, Goto, At, HoldPoints, Points
  <2> QED BY <2>3, <2>4
<1>3. ASSUME NEW c \in Contexts, NEW o \in Ops, Arm(c, o) PROVE IInv'
  <2>1. Core'
    BY <1>3, MoveLemma DEF Arm, Goto, At, HoldPoints, Points
  <2>2. TypeInv'
    BY <1>3, StackLemma DEF TypeInv, Arm, EmplaceStopCb, Goto, Points, Frames
  <2> QED BY <2>1, <2>2
<1>4. ASSUME NEW c \in Contexts, NEW o \in Ops, Slow(c, o) PROVE IInv'
  <2>1. TypeInv'
    <3>1. stack' \in [Contexts -> Seq(Frames)]
      BY <1>4, StackLemma DEF TypeInv, Slow, At
    <3>2. queue' \in Seq(Ops)
      <4>1. queue \in Seq(Ops) /\ Append(queue, o) \in Seq(Ops)
        BY DEF TypeInv
      <4>2. queue' = queue \/ queue' = Append(queue, o)
        BY <1>4 DEF Slow, Enqueue
      <4> QED BY <4>1, <4>2
    <3> QED BY <1>4, <3>1, <3>2 DEF TypeInv, Slow, Enqueue, Goto, Points
  <2>2. CASE Goto(o, "cancelled") /\ UNCHANGED <<waiters, queue, pending>>
    BY <1>4, <2>1, <2>2, MoveLemma DEF Slow, Goto, At, HoldPoints, Points
  <2>3. CASE /\ waiters = 0 /\ waiters' = 1
             /\ Goto(o, "granted")
             /\ UNCHANGED <<queue, pending>>
    BY <1>4, <2>1, <2>3, TakeLemma DEF Slow, Goto, At, HoldPoints
  <2>4. CASE waiters # 0 /\ waiters' = waiters + 1 /\ Enqueue(o) /\ Goto(o, "queued")
    BY <1>4, <2>1, <2>4, EnqueueLemma DEF Slow, Enqueue, Goto, At, HoldPoints
  <2> QED BY <1>4, <2>2, <2>3, <2>4 DEF Slow
<1>5. ASSUME NEW c \in Contexts, NEW o \in Ops, Clear(c, o) PROVE IInv'
  <2>1. PICK p \in {"body", "release"} : Goto(o, p)
    BY <1>5 DEF Clear, Enter
  <2>2. Core'
    BY <1>5, <2>1, MoveLemma DEF Clear, Goto, At, HoldPoints, Points
  <2>3. TypeInv'
    BY <1>5, <2>1 DEF TypeInv, Clear, ClearStopCb, Goto, Points
  <2> QED BY <2>2, <2>3
<1>6. ASSUME NEW c \in Contexts, NEW o \in Ops, FinishBody(c, o) PROVE IInv'
  <2>1. Core'
    BY <1>6, MoveLemma DEF FinishBody, Goto, At, HoldPoints, Points
  <2>2. TypeInv'
    BY <1>6 DEF TypeInv, FinishBody, Goto, Points
  <2> QED BY <2>1, <2>2
<1>7. ASSUME NEW c \in Contexts, NEW o \in Ops, Suspend(c, o) PROVE IInv'
  <2>1. Core'
    BY <1>7, MoveLemma DEF Suspend, Goto, At, HoldPoints, Points
  <2>2. TypeInv'
    BY <1>7, StackLemma DEF TypeInv, Suspend, At, Goto, Points
  <2> QED BY <2>1, <2>2
<1>8. ASSUME NEW c \in Contexts, NEW o \in Ops, Resume(c, o) PROVE IInv'
  <2>1. Core'
    BY <1>8, MoveLemma DEF Resume, Goto, HoldPoints, Points
  <2>2. TypeInv'
    BY <1>8, StackLemma DEF TypeInv, Resume, Goto, Points, Frames
  <2> QED BY <2>1, <2>2
<1>9. ASSUME NEW c \in Contexts, NEW o \in Ops, Release(c, o) PROVE IInv'
  <2>1. CASE waiters = 1
    <3>1. /\ waiters' = 0 /\ Goto(o, "forward")
          /\ UNCHANGED <<queue, pending, stack, status, stopReq, armed>>
      BY <1>9, <2>1 DEF Release
    <3>2. TypeInv'
      BY <3>1 DEF TypeInv, Goto, Points
    <3> QED BY <1>9, <2>1, <3>1, <3>2, LeaveLemma DEF Release, Goto, At, HoldPoints
  <2>2. CASE waiters # 1
    <3>1. /\ queue # <<>> /\ HandOff(Head(queue))
          /\ waiters' = waiters - 1
          /\ pc' = [pc EXCEPT ![o] = "forward", ![Head(queue)] = "granted"]
          /\ Call(c, <<"op", Head(queue)>>)
          /\ UNCHANGED <<status, stopReq, armed>>
      BY <1>9, <2>2 DEF Release
    <3>2. Head(queue) \in Ops /\ Tail(queue) \in Seq(Ops)
      BY <3>1 DEF TypeInv
    <3>3. stack' \in [Contexts -> Seq(Frames)]
      BY <3>1, <3>2, StackLemma DEF Frames
    <3>4. TypeInv'
      BY <3>1, <3>2, <3>3 DEF TypeInv, HandOff, Points
    <3> QED BY <1>9, <3>1, <3>4, HandOffLemma DEF Release, At, HandOff, HoldPoints
  <2> QED BY <2>1, <2>2
<1>10. ASSUME NEW c \in Contexts, NEW o \in Ops, Complete(c, o) PROVE IInv'
  <2>1. Core'
    BY <1>10, MoveLemma DEF Complete, Goto, At, HoldPoints, Points
  <2>2. TypeInv'
    BY <1>10, StackLemma DEF TypeInv, Complete, At, Goto, Points
  <2> QED BY <2>1, <2>2
<1>11. ASSUME NEW c \in Contexts, NEW o \in Ops, RequestStop(c, o) PROVE IInv'
  <2>1. Core'
    BY <1>11 DEF RequestStop, Exclusive, QueueAgrees, CountInv, Holders
  <2>2. TypeInv'
    BY <1>11, StackLemma DEF TypeInv, RequestStop, Frames
  <2> QED BY <2>1, <2>2
<1>12. ASSUME NEW c \in Contexts, NEW o \in Ops, StopCallback(c, o) PROVE IInv'
  <2>1. stack' \in [Contexts -> Seq(Frames)]
    BY <1>12, StackLemma DEF StopCallback, Frames
  <2>2. CASE pending[o] /\ Dequeue(o) /\ Goto(o, "cancelled") /\ UNCHANGED status
    <3>1. queue \in Seq(Ops) /\ Distinct(queue) /\ Linked(queue, o)
      BY <2>2 DEF QueueAgrees, TypeInv
    <3>2. Unlink(queue, o) \in Seq(Ops)
      BY <3>1, UnlinkProperties
    <3>3. TypeInv'
      BY <1>12, <2>1, <2>2, <3>2 DEF StopCallback, Dequeue, TypeInv, Goto, Points
    <3> QED BY <2>2, <3>3, DequeueLemma DEF Dequeue, Goto
  <2>3. CASE UNCHANGED <<waiters, queue, pending, pc>>
    <3>1. TypeInv'
      BY <1>12, <2>1, <2>3 DEF StopCallback, TypeInv
    <3>2. Core'
      BY <2>3 DEF Exclusive, QueueAgrees, CountInv, Holders
    <3> QED BY <3>1, <3>2
  <2> QED BY <1>12, <2>2, <2>3 DEF StopCallback
<1>13. CASE UNCHANGED vars
  BY <1>13 DEF vars, TypeInv, Exclusive, QueueAgrees, CountInv, Holders
<1> QED BY <1>1, <1>2, <1>3, <1>4, <1>5, <1>6, <1>7, <1>8, <1>9, <1>10, <1>11,
           <1>12, <1>13 DEF Next, Step

\* IInv holds in every reachable state.
THEOREM Invariance == Spec => []IInv
BY InitLemma, StepLemma, PTL DEF Spec

-----------------------------------------------------------------------------
\* IInv implies the properties that are checked by TLC.
LEMMA CountLemma ==
    ASSUME IInv
    PROVE  /\ Cardinality(Holders) = IF Holders = {} THEN 0 ELSE 1
           /\ Len(queue) \in Nat
           /\ waiters \in Nat
<1>1. Len(queue) \in Nat
  BY DEF IInv, TypeInv
<1>2. CASE Holders = {}
  BY <1>1, <1>2, FS_EmptySet DEF IInv, CountInv
<1>3. CASE Holders # {}
  <2>1. PICK h : h \in Holders
    BY <1>3
  <2>2. Holders = {h}
    BY <2>1 DEF IInv, Exclusive, Holders
  <2>3. Cardinality(Holders) = 1
    BY <2>2, FS_Singleton
  <2> QED BY <1>1, <1>3, <2>3 DEF IInv, CountInv
<1> QED BY <1>2, <1>3

\* The holder and the queued operations are different operations, so there
\* are no more of them than operations.
LEMMA BoundLemma == IInv => waiters <= Cardinality(Ops)
<1> SUFFICES ASSUME IInv PROVE waiters <= Cardinality(Ops)
  OBVIOUS
<1> DEFINE n == Len(queue)
           who(i) == IF i <= n THEN queue[i] ELSE CHOOSE h : h \in Holders
           f == [i \in 1..waiters |-> who(i)]
<1>1. n \in Nat /\ waiters \in Nat /\ waiters = n + (IF Holders = {} THEN 0 ELSE 1)
  BY CountLemma DEF IInv, CountInv
<1>2. \A i \in 1..n : queue[i] \in Ops /\ queue[i] \notin Holders
  BY DEF IInv, TypeInv, QueueAgrees, Linked, Holders, HoldPoints
<1>3. Holders # {} => (CHOOSE h : h \in Holders) \in Holders /\ Holders \subseteq Ops
  BY DEF Holders
<1>4. \A i \in 1..waiters : i \in 1..n \/ (i = n + 1 /\ Holders # {})
  BY <1>1
<1>5. f \in [1..waiters -> Ops]
  BY <1>1, <1>2, <1>3, <1>4
<1>6. \A i, j \in 1..waiters : f[i] = f[j] => i = j
  <2> SUFFICES ASSUME NEW i \in 1..waiters, NEW j \in 1..waiters, f[i] = f[j]
               PROVE  i = j
    OBVIOUS
  <2>1. who(i) = who(j)
    OBVIOUS
  <2>2. CASE i \in 1..n /\ j \in 1..n
    BY <1>1, <2>1, <2>2 DEF IInv, QueueAgrees, Distinct
  <2>3. CASE i \in 1..n /\ j = n + 1 /\ Holders # {}
    BY <1>1, <1>2, <1>3, <2>1, <2>3
  <2>4. CASE j \in 1..n /\ i = n + 1 /\ Holders # {}
    BY <1>1, <1>2, <1>3, <2>1, <2>4
  <2> QED BY <1>4, <2>2, <2>3, <2>4
<1>7. f \in Injection(1..waiters, Ops)
  <2>1. DOMAIN f = 1..waiters
    OBVIOUS
  <2>2. IsInjective(f)
    BY <1>6, <2>1 DEF IsInjective
  <2> QED BY <1>5, <2>2 DEF Injection
<1>8. Cardinality(1..waiters) <= Cardinality(Ops)
  BY <1>7, FS_Injection, RegionAssumption
<1>9. Cardinality(1..waiters) = waiters
  <2>1. Cardinality(1..waiters) = IF 1 > waiters THEN 0 ELSE waiters - 1 + 1
    <3>1. 1 \in Int /\ waiters \in Int
      BY <1>1
    <3> QED BY <3>1, FS_Interval, Zenon
  <2> QED BY <1>1, <2>1
<1> QED BY <1>8, <1>9

\* Every variable keeps its type, and waiters_ stays between zero and the
\* number of operations: no release or cancellation drives it negative.
THEOREM TypeCorrectness == Spec => []TypeOK
<1>1. Cardinality(Ops) \in Nat
  BY FS_CardinalityType, RegionAssumption
<1>2. IInv => TypeOK
  BY <1>1, CountLemma, BoundLemma DEF TypeOK, IInv
<1> QED BY <1>2, Invariance, PTL

\* The region is exclusive.
THEOREM Exclusivity == Spec => []Exclusive
<1>1. IInv => Exclusive
  BY DEF IInv
<1> QED BY <1>1, Invariance, PTL

\* The count written down at region.hpp:107-109 is right at every boundary.
THEOREM WaiterCounting == Spec => []WaiterCount
<1>1. IInv => WaiterCount
  BY CountLemma DEF IInv, CountInv, WaiterCount
<1> QED BY <1>1, Invariance, PTL

\* The queue, the pending bits and the waiting operations always agree.
THEOREM QueueAgreement == Spec => []QueueAgrees
<1>1. IInv => QueueAgrees
  BY DEF IInv
<1> QED BY <1>1, Invariance, PTL

-----------------------------------------------------------------------------
(***************************************************************************)
(* Who owns an operation.  Exclusion needs no word about the call stacks;  *)
(* that an operation is completed by one context only does.  The stop      *)
(* source does not wait for a running callback, so a callback may outlive  *)
(* its operation's acquire and meet whatever stands there by then.         *)
(***************************************************************************)
Somewhere(f) == \E c \in Contexts : Linked(stack[c], f)

\* A frame is on a stack once, an operation's on one stack only, and nothing
\* is called from inside a callback.
Stacks ==
    /\ \A c \in Contexts : Distinct(stack[c])
    /\ \A c, d \in Contexts, o \in Ops :
          Linked(stack[c], <<"op", o>>) /\ Linked(stack[d], <<"op", o>>) => c = d
    /\ \A c \in Contexts, o \in Ops :
          Linked(stack[c], <<"cb", o>>) => Head(stack[c]) = <<"cb", o>>

\* The operation frames there are follow from where the operations stand.
Owned ==
    \A o \in Ops :
        Somewhere(<<"op", o>>) <=> pc[o] \notin {"idle", "queued", "parked"}

\* A stop of o has been told to its callback, or still will be.
Reached(o) == IF stopReq[o] THEN Somewhere(<<"cb", o>>) ELSE armed[o]

\* From arming to acquiring, stop token, callback and cancellation state agree.
Scoped ==
    \A o \in Stoppable :
        /\ pc[o] \in {"fast", "arm", "slow"} => status[o] # "queued"
        /\ pc[o] = "slow" => status[o] = "cancelled" \/ Reached(o)
        /\ pc[o] = "queued" => status[o] = "queued" /\ Reached(o)

OwnInv == IInv /\ Stacks /\ Owned /\ Scoped

\* The frames of calls and callbacks are different ones.
LEMMA FramesDiffer ==
    \A o \in Ops :
        /\ <<"op", o>> \in Frames /\ <<"cb", o>> \in Frames
        /\ \A p \in Ops : /\ <<"op", o>> # <<"cb", p>>
                          /\ <<"op", o>> = <<"op", p>> <=> o = p
                          /\ <<"cb", o>> = <<"cb", p>> <=> o = p
BY DEF Frames

\* A call puts one frame on a stack whose top is no callback.
LEMMA CallLemma ==
    ASSUME TypeInv, Stacks, NEW c \in Contexts, NEW f \in Frames,
           stack[c] # <<>> => \E o \in Ops : Head(stack[c]) = <<"op", o>>,
           \A o \in Ops : f = <<"op", o>> => ~Somewhere(f),
           Call(c, f)
    PROVE  Stacks' /\ \A g \in Frames : Somewhere(g)' <=> Somewhere(g) \/ g = f
<1> DEFINE s == stack[c]
<1>1. s \in Seq(Frames) /\ Distinct(s)
  BY DEF TypeInv, Stacks
<1>2. \A o \in Ops : ~Linked(s, <<"cb", o>>)
  <2> SUFFICES ASSUME NEW o \in Ops, Linked(s, <<"cb", o>>) PROVE FALSE
    OBVIOUS
  <2>1. s # <<>>
    BY DEF Linked
  <2> QED BY <2>1, FramesDiffer DEF Stacks
<1>3. ~Linked(s, f)
  <2>1. PICK o \in Ops : f = <<"op", o>> \/ f = <<"cb", o>>
    BY DEF Frames
  <2> QED BY <1>2, <2>1 DEF Somewhere
<1>4. stack' = [stack EXCEPT ![c] = <<f>> \o s]
  BY DEF Call
<1>5. Distinct(<<f>> \o s) /\ \A g : Linked(<<f>> \o s, g) <=> Linked(s, g) \/ g = f
  BY <1>1, <1>3, PushFrontProperties
<1>6. stack'[c] = <<f>> \o s /\ \A d \in Contexts : d # c => stack'[d] = stack[d]
  BY <1>4 DEF TypeInv
<1>7. Head(<<f>> \o s) = f
  BY <1>1
<1> HIDE DEF s
<1>8. \A d \in Contexts, g \in Frames :
          Linked(stack'[d], g) <=> Linked(stack[d], g) \/ (d = c /\ g = f)
  BY <1>5, <1>6 DEF s
<1>9. Stacks'
  <2>1. \A d \in Contexts : Distinct(stack'[d])
    BY <1>5, <1>6 DEF Stacks
  <2>2. ASSUME NEW a \in Contexts, NEW b \in Contexts, NEW o \in Ops,
               Linked(stack'[a], <<"op", o>>), Linked(stack'[b], <<"op", o>>)
        PROVE  a = b
    <3>1. CASE f = <<"op", o>>
      BY <1>8, <2>2, <3>1 DEF Somewhere
    <3>2. CASE f # <<"op", o>>
      <4>1. Linked(stack[a], <<"op", o>>) /\ Linked(stack[b], <<"op", o>>)
        BY <1>8, <2>2, <3>2, FramesDiffer
      <4> QED BY <4>1 DEF Stacks
    <3> QED BY <3>1, <3>2
  <2>3. ASSUME NEW d \in Contexts, NEW o \in Ops, Linked(stack'[d], <<"cb", o>>)
        PROVE  Head(stack'[d]) = <<"cb", o>>
    <3>1. CASE d = c
      BY <1>2, <1>5, <1>6, <1>7, <2>3, <3>1
    <3>2. CASE d # c
      BY <1>6, <2>3, <3>2 DEF Stacks
    <3> QED BY <3>1, <3>2
  <2> QED BY <2>1, <2>2, <2>3 DEF Stacks
<1> QED BY <1>8, <1>9 DEF Somewhere

\* What taking the top frame h off the stack of c leaves there.
LEMMA PopLemma ==
    ASSUME TypeInv, Stacks, NEW c \in Contexts, NEW h \in Frames,
           stack[c] # <<>>, Head(stack[c]) = h
    PROVE  /\ Tail(stack[c]) \in Seq(Frames)
           /\ Distinct(Tail(stack[c]))
           /\ Linked(stack[c], h)
           /\ \A g : Linked(Tail(stack[c]), g) <=> Linked(stack[c], g) /\ g # h
           /\ \A o \in Ops : ~Linked(Tail(stack[c]), <<"cb", o>>)
<1>1. stack[c] \in Seq(Frames) /\ Distinct(stack[c])
  BY DEF TypeInv, Stacks
<1>2. /\ Tail(stack[c]) \in Seq(Frames)
      /\ Linked(stack[c], h) /\ Distinct(Tail(stack[c]))
      /\ \A g : Linked(Tail(stack[c]), g) <=> Linked(stack[c], g) /\ g # h
  BY <1>1, PopFrontProperties
<1> QED BY <1>2 DEF Stacks

\* A return takes away the frame on top of its stack, and no other.  Another
\* callback of the same operation may still be on another stack.
LEMMA ReturnLemma ==
    ASSUME TypeInv, Stacks, NEW c \in Contexts, NEW h \in Frames,
           stack[c] # <<>>, Head(stack[c]) = h, Return(c)
    PROVE  /\ Stacks'
           /\ Somewhere(h)
           /\ \A g \in Frames : g # h => (Somewhere(g)' <=> Somewhere(g))
           /\ \A o \in Ops : h = <<"op", o>> => ~Somewhere(h)'
<1> DEFINE t == Tail(stack[c])
<1>1. /\ Linked(stack[c], h) /\ Distinct(t)
      /\ \A g : Linked(t, g) <=> Linked(stack[c], g) /\ g # h
      /\ \A o \in Ops : ~Linked(t, <<"cb", o>>)
  BY PopLemma
<1>2. stack'[c] = t /\ \A d \in Contexts : d # c => stack'[d] = stack[d]
  BY DEF Return, TypeInv
<1> HIDE DEF t
<1>3. \A d \in Contexts, g \in Frames :
          Linked(stack'[d], g) <=> Linked(stack[d], g) /\ ~(d = c /\ g = h)
  BY <1>1, <1>2
<1>4. Stacks'
  <2>1. \A d \in Contexts : Distinct(stack'[d])
    BY <1>1, <1>2 DEF Stacks
  <2>2. ASSUME NEW a \in Contexts, NEW b \in Contexts, NEW o \in Ops,
               Linked(stack'[a], <<"op", o>>), Linked(stack'[b], <<"op", o>>)
        PROVE  a = b
    BY <1>3, <2>2, FramesDiffer DEF Stacks
  <2>3. \A d \in Contexts, o \in Ops :
            Linked(stack'[d], <<"cb", o>>) => Head(stack'[d]) = <<"cb", o>>
    BY <1>1, <1>2 DEF Stacks
  <2> QED BY <2>1, <2>2, <2>3 DEF Stacks
<1>5. \A g \in Frames : g # h => (Somewhere(g)' <=> Somewhere(g))
  BY <1>3 DEF Somewhere
<1>6. \A o \in Ops : h = <<"op", o>> => ~Somewhere(h)'
  BY <1>1, <1>3 DEF Stacks, Somewhere
<1> QED BY <1>1, <1>4, <1>5, <1>6 DEF Somewhere

\* A callback that goes on to complete its operation: its frame becomes the
\* operation's.
LEMMA BecomeLemma ==
    ASSUME TypeInv, Stacks, NEW c \in Contexts, NEW o \in Ops,
           ~Somewhere(<<"op", o>>),
           stack[c] # <<>>, Head(stack[c]) = <<"cb", o>>,
           stack' = [stack EXCEPT ![c] = <<<<"op", o>>>> \o Tail(@)]
    PROVE  /\ Stacks'
           /\ \A g \in Frames :
                 g # <<"cb", o>> => (Somewhere(g)' <=> Somewhere(g) \/ g = <<"op", o>>)
<1> DEFINE f == <<"op", o>>
           h == <<"cb", o>>
           t == Tail(stack[c])
<1>1. /\ t \in Seq(Frames) /\ Distinct(t)
      /\ \A g : Linked(t, g) <=> Linked(stack[c], g) /\ g # h
      /\ \A x \in Ops : ~Linked(t, <<"cb", x>>)
  BY FramesDiffer, PopLemma
<1>2. ~Linked(t, f)
  BY <1>1 DEF Somewhere
<1>3. stack'[c] = <<f>> \o t /\ \A d \in Contexts : d # c => stack'[d] = stack[d]
  BY DEF TypeInv
<1>4. f \in Frames /\ h \in Frames /\ f # h
  BY FramesDiffer
<1> HIDE DEF f, h, t
<1>5. Distinct(<<f>> \o t) /\ \A g : Linked(<<f>> \o t, g) <=> Linked(t, g) \/ g = f
  BY <1>1, <1>2, <1>4, PushFrontProperties
<1>6. \A d \in Contexts, g \in Frames :
          Linked(stack'[d], g) <=> \/ Linked(stack[d], g) /\ ~(d = c /\ g = h)
                                   \/ d = c /\ g = f
  BY <1>1, <1>3, <1>5
<1>7. Stacks'
  <2>1. \A d \in Contexts : Distinct(stack'[d])
    BY <1>3, <1>5 DEF Stacks
  <2>2. ASSUME NEW a \in Contexts, NEW b \in Contexts, NEW x \in Ops,
               Linked(stack'[a], <<"op", x>>), Linked(stack'[b], <<"op", x>>)
        PROVE  a = b
    BY <1>6, <2>2, FramesDiffer DEF Stacks, Somewhere, f
  <2>3. ASSUME NEW d \in Contexts, NEW x \in Ops, Linked(stack'[d], <<"cb", x>>)
        PROVE  Head(stack'[d]) = <<"cb", x>>
    <3>1. CASE d = c
      <4>1. <<"cb", x>> # f /\ ~Linked(t, <<"cb", x>>)
        BY <1>1, FramesDiffer DEF f
      <4>2. Linked(<<f>> \o t, <<"cb", x>>)
        BY <1>3, <2>3, <3>1
      <4> QED BY <1>5, <4>1, <4>2
    <3>2. CASE d # c
      BY <1>3, <2>3, <3>2 DEF Stacks
    <3> QED BY <3>1, <3>2
  <2> QED BY <2>1, <2>2, <2>3 DEF Stacks
<1>8. \A g \in Frames : g # h => (Somewhere(g)' <=> Somewhere(g) \/ g = f)
  BY <1>6 DEF Somewhere
<1> QED BY <1>7, <1>8 DEF f, h

\* The stacks stay as they are.
LEMMA StayLemma ==
    ASSUME Stacks, UNCHANGED stack
    PROVE  Stacks' /\ \A g : Somewhere(g)' <=> Somewhere(g)
BY DEF Stacks, Somewhere

\* Code outside the region is on an empty stack or in an operation's frame.
LEMMA TopLemma ==
    ASSUME NEW c \in Contexts,
           InUserCode(c) \/ \E o \in Ops : \E p \in Points : At(c, o, p)
    PROVE  stack[c] # <<>> => \E o \in Ops : Head(stack[c]) = <<"op", o>>
BY DEF InUserCode, At

\* No step breaks OwnInv.
LEMMA OwnStep ==
    ASSUME OwnInv, IInv', [Next]_vars
    PROVE  OwnInv'
<1> SUFFICES Stacks' /\ Owned' /\ Scoped'
  BY DEF OwnInv
<1> USE DEF OwnInv
<1>0. TypeInv /\ QueueAgrees /\ Stoppable \subseteq Ops
  BY RegionAssumption DEF IInv
<1>1. ASSUME NEW c \in Contexts, NEW o \in Ops, Start(c, o)
      PROVE  Stacks' /\ Owned' /\ Scoped'
  <2>1. ~Somewhere(<<"op", o>>)
    BY <1>1 DEF Owned, Start
  <2>2. /\ Stacks'
        /\ \A g \in Frames : Somewhere(g)' <=> Somewhere(g) \/ g = <<"op", o>>
    BY <1>0, <1>1, <2>1, FramesDiffer, TopLemma, CallLemma DEF Start
  <2>3. PICK p \in {"cancelled", "fast"} : pc' = [pc EXCEPT ![o] = p]
    BY <1>1 DEF Start, Goto
  <2>4. Owned'
    BY <1>0, <2>2, <2>3, FramesDiffer DEF Owned, TypeInv
  <2>5. /\ o \in Stoppable => status'[o] = "init"
        /\ \A x \in Ops : x # o => status'[x] = status[x]
    BY <1>0, <1>1 DEF Start, ResetCancelState, TypeInv
  <2>6. \A x \in Ops : x # o => stopReq'[x] = stopReq[x]
    <3>1. PICK b \in BOOLEAN : stopReq' = [stopReq EXCEPT ![o] = b]
      BY <1>1, Zenon DEF Start
    <3> QED BY <1>0, <3>1 DEF TypeInv
  <2>7. \A x \in Ops : x # o => (Reached(x)' <=> Reached(x))
    BY <1>1, <2>2, <2>6, FramesDiffer DEF Reached, Start
  <2>8. Scoped'
    BY <1>0, <2>3, <2>5, <2>7 DEF Scoped, TypeInv
  <2> QED BY <2>2, <2>4, <2>8
<1>2. ASSUME NEW c \in Contexts, NEW o \in Ops, Fast(c, o)
      PROVE  Stacks' /\ Owned' /\ Scoped'
  <2>0. PICK p \in {"body", "release", "arm"} : Goto(o, p)
    BY <1>2 DEF Fast, FastCS, Enter
  <2>1. Stacks' /\ \A g : Somewhere(g)' <=> Somewhere(g)
    BY <1>2, StayLemma DEF Fast
  <2>2. \A x : Reached(x)' <=> Reached(x)
    BY <1>2, <2>1 DEF Reached, Fast
  <2>3. Owned'
    BY <1>0, <1>2, <2>0, <2>1 DEF Owned, Fast, Goto, At, TypeInv
  <2>4. Scoped'
    BY <1>0, <1>2, <2>0, <2>2 DEF Scoped, Fast, Goto, At, TypeInv
  <2> QED BY <2>1, <2>3, <2>4
<1>3. ASSUME NEW c \in Contexts, NEW o \in Ops, Arm(c, o)
      PROVE  Stacks' /\ Owned' /\ Scoped'
  <2>1. /\ pc[o] = "arm" /\ pc' = [pc EXCEPT ![o] = "slow"]
        /\ UNCHANGED <<status, stopReq>>
    BY <1>3 DEF Arm, At, Goto
  <2>2. CASE o \in Stoppable /\ stopReq[o]
    <3>1. Call(c, <<"cb", o>>) /\ UNCHANGED armed
      BY <1>3, <2>2 DEF Arm, EmplaceStopCb
    <3>2. stack[c] # <<>> => \E x \in Ops : Head(stack[c]) = <<"op", x>>
      BY <1>3 DEF Arm, At
    <3>3. /\ Stacks'
          /\ \A g \in Frames : Somewhere(g)' <=> Somewhere(g) \/ g = <<"cb", o>>
      BY <1>0, <3>1, <3>2, FramesDiffer, CallLemma
    <3>4. \A x \in Ops : Reached(x)' <=> Reached(x) \/ x = o
      BY <2>1, <2>2, <3>1, <3>3, FramesDiffer DEF Reached
    <3>5. Owned'
      BY <1>0, <2>1, <3>3, FramesDiffer DEF Owned, TypeInv
    <3>6. Scoped'
      BY <1>0, <2>1, <3>4 DEF Scoped, TypeInv
    <3> QED BY <3>3, <3>5, <3>6
  <2>3. CASE ~(o \in Stoppable /\ stopReq[o])
    <3>1. /\ UNCHANGED stack
          /\ armed' = IF o \in Stoppable THEN [armed EXCEPT ![o] = TRUE] ELSE armed
      BY <1>3, <2>3 DEF Arm, EmplaceStopCb
    <3>2. Stacks' /\ \A g : Somewhere(g)' <=> Somewhere(g)
      BY <3>1, StayLemma
    <3>3. \A x \in Stoppable : Reached(x)' <=> Reached(x) \/ x = o
      BY <1>0, <2>1, <2>3, <3>1, <3>2 DEF Reached, TypeInv
    <3>4. Owned'
      BY <1>0, <2>1, <3>2 DEF Owned, TypeInv
    <3>5. Scoped'
      BY <1>0, <2>1, <3>3 DEF Scoped, TypeInv
    <3> QED BY <3>2, <3>4, <3>5
  <2> QED BY <2>2, <2>3
<1>4. ASSUME NEW c \in Contexts, NEW o \in Ops, Slow(c, o)
      PROVE  Stacks' /\ Owned' /\ Scoped'
  <2>1. /\ pc[o] = "slow" /\ stack[c] # <<>> /\ Head(stack[c]) = <<"op", o>>
        /\ UNCHANGED <<stopReq, armed>>
    BY <1>4 DEF Slow, At
  <2>2. CASE UNCHANGED <<status, stack>>
    <3>1. PICK p \in {"cancelled", "granted"} : pc' = [pc EXCEPT ![o] = p]
      <4>1. CASE status[o] = "cancelled" \/ waiters = 0
        BY <1>4, <4>1 DEF Slow, Goto
      <4>2. CASE status[o] # "cancelled" /\ waiters # 0
        <5>1. Return(c)
          BY <1>4, <4>2 DEF Slow
        <5>2. Somewhere(<<"op", o>>)' <=> Somewhere(<<"op", o>>)
          BY <2>2, StayLemma
        <5>3. Somewhere(<<"op", o>>) /\ ~Somewhere(<<"op", o>>)'
          BY <1>0, <2>1, <5>1, ReturnLemma, FramesDiffer
        <5> QED BY <5>2, <5>3
      <4> QED BY <4>1, <4>2
    <3>2. Stacks' /\ \A g : Somewhere(g)' <=> Somewhere(g)
      BY <2>2, StayLemma
    <3>3. \A x : Reached(x)' <=> Reached(x)
      BY <2>1, <3>2 DEF Reached
    <3>4. Owned'
      BY <1>0, <2>1, <3>1, <3>2 DEF Owned, TypeInv
    <3>5. Scoped'
      BY <1>0, <2>1, <2>2, <3>1, <3>3 DEF Scoped, TypeInv
    <3> QED BY <3>2, <3>4, <3>5
  <2>3. CASE status[o] # "cancelled" /\ Enqueue(o) /\ Goto(o, "queued") /\ Return(c)
    <3>1. /\ Stacks'
          /\ \A g \in Frames : g # <<"op", o>> => (Somewhere(g)' <=> Somewhere(g))
          /\ ~Somewhere(<<"op", o>>)'
      BY <1>0, <2>1, <2>3, FramesDiffer, ReturnLemma
    <3>2. \A x \in Ops : Reached(x)' <=> Reached(x)
      BY <2>1, <3>1, FramesDiffer DEF Reached
    <3>3. Owned'
      BY <1>0, <2>1, <2>3, <3>1, FramesDiffer DEF Owned, Goto, TypeInv
    <3>4. Scoped'
      BY <1>0, <2>1, <2>3, <3>2 DEF Scoped, Enqueue, Goto, TypeInv
    <3> QED BY <3>1, <3>3, <3>4
  <2> QED BY <1>4, <2>2, <2>3 DEF Slow
<1>5. ASSUME NEW c \in Contexts, NEW o \in Ops, Clear(c, o)
      PROVE  Stacks' /\ Owned' /\ Scoped'
  <2>1. /\ pc[o] = "granted"
        /\ armed' = [armed EXCEPT ![o] = FALSE]
        /\ UNCHANGED <<status, stopReq, stack>>
    BY <1>5 DEF Clear, At, ClearStopCb
  <2>2. PICK p \in {"body", "release"} : pc' = [pc EXCEPT ![o] = p]
    BY <1>5 DEF Clear, Goto, Enter
  <2>3. Stacks' /\ \A g : Somewhere(g)' <=> Somewhere(g)
    BY <2>1, StayLemma
  <2>4. \A x \in Ops : x # o => (Reached(x)' <=> Reached(x))
    BY <1>0, <2>1, <2>3 DEF Reached, TypeInv
  <2>5. Owned'
    BY <1>0, <2>1, <2>2, <2>3 DEF Owned, TypeInv
  <2>6. Scoped'
    BY <1>0, <2>1, <2>2, <2>4 DEF Scoped, TypeInv
  <2> QED BY <2>3, <2>5, <2>6
<1>6. ASSUME NEW c \in Contexts, NEW o \in Ops, FinishBody(c, o)
      PROVE  Stacks' /\ Owned' /\ Scoped'
  <2>1. Stacks' /\ \A g : Somewhere(g)' <=> Somewhere(g)
    BY <1>6, StayLemma DEF FinishBody
  <2>2. \A x : Reached(x)' <=> Reached(x)
    BY <1>6, <2>1 DEF Reached, FinishBody
  <2>3. Owned'
    BY <1>0, <1>6, <2>1 DEF Owned, FinishBody, Goto, At, TypeInv
  <2>4. Scoped'
    BY <1>0, <1>6, <2>2 DEF Scoped, FinishBody, Goto, At, TypeInv
  <2> QED BY <2>1, <2>3, <2>4
<1>7. ASSUME NEW c \in Contexts, NEW o \in Ops, Suspend(c, o)
      PROVE  Stacks' /\ Owned' /\ Scoped'
  <2>1. stack[c] # <<>> /\ Head(stack[c]) = <<"op", o>> /\ Return(c)
    BY <1>7 DEF Suspend, At
  <2>2. /\ Stacks'
        /\ \A g \in Frames : g # <<"op", o>> => (Somewhere(g)' <=> Somewhere(g))
        /\ ~Somewhere(<<"op", o>>)'
    BY <1>0, <2>1, FramesDiffer, ReturnLemma
  <2>3. \A x \in Ops : Reached(x)' <=> Reached(x)
    BY <1>7, <2>2, FramesDiffer DEF Reached, Suspend
  <2>4. Owned'
    BY <1>0, <1>7, <2>2, FramesDiffer DEF Owned, Suspend, Goto, TypeInv
  <2>5. Scoped'
    BY <1>0, <1>7, <2>3 DEF Scoped, Suspend, Goto, At, TypeInv
  <2> QED BY <2>2, <2>4, <2>5
<1>8. ASSUME NEW c \in Contexts, NEW o \in Ops, Resume(c, o)
      PROVE  Stacks' /\ Owned' /\ Scoped'
  <2>1. ~Somewhere(<<"op", o>>)
    BY <1>8 DEF Owned, Resume
  <2>2. /\ Stacks'
        /\ \A g \in Frames : Somewhere(g)' <=> Somewhere(g) \/ g = <<"op", o>>
    BY <1>0, <1>8, <2>1, FramesDiffer, TopLemma, CallLemma DEF Resume
  <2>3. \A x \in Ops : Reached(x)' <=> Reached(x)
    BY <1>8, <2>2, FramesDiffer DEF Reached, Resume
  <2>4. Owned'
    BY <1>0, <1>8, <2>2, FramesDiffer DEF Owned, Resume, Goto, TypeInv
  <2>5. Scoped'
    BY <1>0, <1>8, <2>3 DEF Scoped, Resume, Goto, TypeInv
  <2> QED BY <2>2, <2>4, <2>5
<1>9. ASSUME NEW c \in Contexts, NEW o \in Ops, Release(c, o)
      PROVE  Stacks' /\ Owned' /\ Scoped'
  <2>1. pc[o] = "release" /\ UNCHANGED <<status, stopReq, armed>>
    BY <1>9 DEF Release, At
  <2>2. CASE pc' = [pc EXCEPT ![o] = "forward"] /\ UNCHANGED stack
    <3>1. Stacks' /\ \A g : Somewhere(g)' <=> Somewhere(g)
      BY <2>2, StayLemma
    <3>2. \A x : Reached(x)' <=> Reached(x)
      BY <2>1, <3>1 DEF Reached
    <3>3. Owned'
      BY <1>0, <2>1, <2>2, <3>1 DEF Owned, TypeInv
    <3>4. Scoped'
      BY <1>0, <2>1, <2>2, <3>2 DEF Scoped, TypeInv
    <3> QED BY <3>1, <3>3, <3>4
  <2>3. ASSUME waiters # 1
        PROVE  Stacks' /\ Owned' /\ Scoped'
    <3> DEFINE t == Head(queue)
    <3>1. /\ queue # <<>> /\ Call(c, <<"op", t>>)
          /\ pc' = [pc EXCEPT ![o] = "forward", ![t] = "granted"]
      BY <1>9, <2>3 DEF Release
    <3>2. t \in Ops /\ Linked(queue, t)
      BY <1>0, <3>1, PopFrontProperties DEF TypeInv, QueueAgrees
    <3>3. pc[t] = "queued" /\ t # o
      BY <1>0, <2>1, <3>2 DEF QueueAgrees
    <3> HIDE DEF t
    <3>4. ~Somewhere(<<"op", t>>)
      BY <3>2, <3>3 DEF Owned
    <3>5. stack[c] # <<>> => \E x \in Ops : Head(stack[c]) = <<"op", x>>
      BY <1>9 DEF Release, At
    <3>6. /\ Stacks'
          /\ \A g \in Frames : Somewhere(g)' <=> Somewhere(g) \/ g = <<"op", t>>
      BY <1>0, <3>1, <3>2, <3>4, <3>5, FramesDiffer, CallLemma
    <3>7. \A x \in Ops : Reached(x)' <=> Reached(x)
      BY <2>1, <3>2, <3>6, FramesDiffer DEF Reached
    <3>8. Owned'
      BY <1>0, <2>1, <3>1, <3>2, <3>3, <3>6, FramesDiffer DEF Owned, TypeInv
    <3>9. Scoped'
      BY <1>0, <2>1, <3>1, <3>2, <3>3, <3>7 DEF Scoped, TypeInv
    <3> QED BY <3>6, <3>8, <3>9
  <2> QED BY <1>9, <2>2, <2>3 DEF Release, Goto
<1>10. ASSUME NEW c \in Contexts, NEW o \in Ops, Complete(c, o)
      PROVE  Stacks' /\ Owned' /\ Scoped'
  <2>1. stack[c] # <<>> /\ Head(stack[c]) = <<"op", o>> /\ Return(c)
    BY <1>10 DEF Complete, At
  <2>2. /\ Stacks'
        /\ \A g \in Frames : g # <<"op", o>> => (Somewhere(g)' <=> Somewhere(g))
        /\ ~Somewhere(<<"op", o>>)'
    BY <1>0, <2>1, FramesDiffer, ReturnLemma
  <2>3. \A x \in Ops : x # o => (Reached(x)' <=> Reached(x))
    BY <1>0, <1>10, <2>2, FramesDiffer DEF Reached, Complete, TypeInv
  <2>4. Owned'
    BY <1>0, <1>10, <2>2, FramesDiffer DEF Owned, Complete, Goto, TypeInv
  <2>5. Scoped'
    BY <1>0, <1>10, <2>3 DEF Scoped, Complete, Goto, At, TypeInv
  <2> QED BY <2>2, <2>4, <2>5
<1>11. ASSUME NEW c \in Contexts, NEW o \in Ops, RequestStop(c, o)
      PROVE  Stacks' /\ Owned' /\ Scoped'
  <2>1. /\ o \in Stoppable /\ ~stopReq[o]
        /\ stopReq' = [stopReq EXCEPT ![o] = TRUE]
        /\ armed' = [armed EXCEPT ![o] = FALSE]
        /\ UNCHANGED <<status, pc>>
    BY <1>11 DEF RequestStop
  <2>2. CASE armed[o]
    <3>1. Call(c, <<"cb", o>>)
      BY <1>11, <2>2 DEF RequestStop
    <3>2. /\ Stacks'
          /\ \A g \in Frames : Somewhere(g)' <=> Somewhere(g) \/ g = <<"cb", o>>
      BY <1>0, <1>11, <3>1, FramesDiffer, TopLemma, CallLemma DEF RequestStop
    <3>3. \A x \in Ops : Reached(x) => Reached(x)'
      BY <1>0, <2>1, <3>2, FramesDiffer DEF Reached, TypeInv
    <3>4. Owned'
      BY <1>0, <2>1, <3>2, FramesDiffer DEF Owned
    <3>5. Scoped'
      BY <1>0, <2>1, <3>3 DEF Scoped
    <3> QED BY <3>2, <3>4, <3>5
  <2>3. CASE ~armed[o]
    <3>1. UNCHANGED stack
      BY <1>11, <2>3 DEF RequestStop
    <3>2. Stacks' /\ \A g : Somewhere(g)' <=> Somewhere(g)
      BY <3>1, StayLemma
    <3>3. \A x \in Ops : Reached(x) => Reached(x)'
      BY <1>0, <2>1, <2>3, <3>2 DEF Reached, TypeInv
    <3>4. Owned'
      BY <2>1, <3>2 DEF Owned
    <3>5. Scoped'
      BY <1>0, <2>1, <3>3 DEF Scoped
    <3> QED BY <3>2, <3>4, <3>5
  <2> QED BY <2>2, <2>3
<1>12. ASSUME NEW c \in Contexts, NEW o \in Ops, StopCallback(c, o)
      PROVE  Stacks' /\ Owned' /\ Scoped'
  <2>1. /\ stack[c] # <<>> /\ Head(stack[c]) = <<"cb", o>>
        /\ UNCHANGED <<stopReq, armed>>
    BY <1>12 DEF StopCallback
  <2>2. CASE /\ Return(c) /\ UNCHANGED pc
             /\ \/ status[o] # "queued" /\ status' = [status EXCEPT ![o] = "cancelled"]
                \/ status[o] = "queued" /\ ~pending[o] /\ UNCHANGED status
                \/ pc[o] \notin {"slow", "queued", "granted"} /\ UNCHANGED status
    <3>1. /\ Stacks' /\ Somewhere(<<"cb", o>>)
          /\ \A g \in Frames : g # <<"cb", o>> => (Somewhere(g)' <=> Somewhere(g))
      BY <1>0, <2>1, <2>2, FramesDiffer, ReturnLemma
    <3>2. \A x \in Ops : x # o => (Reached(x)' <=> Reached(x))
      BY <2>1, <3>1, FramesDiffer DEF Reached
    <3>3. Owned'
      BY <1>0, <2>2, <3>1, FramesDiffer DEF Owned
    <3>4. Scoped'
      BY <1>0, <2>2, <3>2 DEF Scoped, TypeInv, QueueAgrees
    <3> QED BY <3>1, <3>3, <3>4
  <2>3. CASE /\ pending[o] /\ Goto(o, "cancelled") /\ UNCHANGED status
             /\ stack' = [stack EXCEPT ![c] = <<<<"op", o>>>> \o Tail(@)]
    <3>1. pc[o] = "queued" /\ ~Somewhere(<<"op", o>>)
      BY <1>0, <2>3 DEF QueueAgrees, Owned
    <3>2. /\ Stacks'
          /\ \A g \in Frames : g # <<"cb", o>> =>
                (Somewhere(g)' <=> Somewhere(g) \/ g = <<"op", o>>)
      BY <1>0, <2>1, <2>3, <3>1, BecomeLemma
    <3>3. \A x \in Ops : x # o => (Reached(x)' <=> Reached(x))
      BY <2>1, <3>2, FramesDiffer DEF Reached
    <3>4. Owned'
      BY <1>0, <2>3, <3>1, <3>2, FramesDiffer DEF Owned, Goto, TypeInv
    <3>5. Scoped'
      BY <1>0, <2>3, <3>1, <3>3 DEF Scoped, Goto, TypeInv
    <3> QED BY <3>2, <3>4, <3>5
  <2> QED BY <1>12, <2>2, <2>3 DEF StopCallback
<1>13. CASE UNCHANGED vars
  <2>1. Stacks' /\ \A g : Somewhere(g)' <=> Somewhere(g)
    BY <1>13, StayLemma DEF vars
  <2> QED BY <1>13, <2>1 DEF vars, Owned, Scoped, Reached
<1> QED BY <1>1, <1>2, <1>3, <1>4, <1>5, <1>6, <1>7, <1>8, <1>9, <1>10, <1>11,
           <1>12, <1>13 DEF Next, Step

LEMMA OwnInit == Init => OwnInv
<1> SUFFICES ASSUME Init PROVE OwnInv
  OBVIOUS
<1>1. \A c \in Contexts : Distinct(stack[c]) /\ \A f : ~Linked(stack[c], f)
  BY DEF Init, Distinct, Linked
<1> QED BY <1>1, InitLemma, RegionAssumption
        DEF Init, OwnInv, Stacks, Owned, Somewhere, Scoped

\* OwnInv holds in every reachable state.
THEOREM Ownership == Spec => []OwnInv
<1>1. OwnInv /\ IInv' /\ [Next]_vars => OwnInv'
  BY OwnStep
<1> QED BY <1>1, OwnInit, Invariance, PTL DEF Spec

\* No stop request is lost: the callback of a queued operation whose token is
\* stopped is on its way, although callbacks of earlier acquires may be, too.
THEOREM StopsArrive == Spec => []StopNotLost
<1>1. OwnInv => StopNotLost
  BY DEF OwnInv, Scoped, Reached, Somewhere, StopNotLost
<1> QED BY <1>1, Ownership, PTL

\* An operation is on one stack exactly, and on none while it waits or rests.
LEMMA OwnerLemma == OwnInv => OneOwner
<1> SUFFICES ASSUME OwnInv, NEW o \in Ops
             PROVE  Cardinality(FramesOf(o)) =
                      IF pc[o] \in {"idle", "queued", "parked"} THEN 0 ELSE 1
  BY DEF OneOwner
<1>1. /\ Stacks
      /\ \A c \in Contexts : stack[c] \in Seq(Frames) /\ DOMAIN stack[c] = 1..Len(stack[c])
  BY DEF OwnInv, IInv, TypeInv
<1>2. \A f \in FramesOf(o) :
          \E c \in Contexts : \E i \in 1..Len(stack[c]) :
              stack[c][i] = <<"op", o>> /\ f = <<c, i>>
  BY <1>1 DEF FramesOf
<1>3. CASE pc[o] \in {"idle", "queued", "parked"}
  <2>1. FramesOf(o) = {}
    BY <1>2, <1>3 DEF OwnInv, Owned, Somewhere, Linked
  <2> QED BY <1>3, <2>1, FS_EmptySet
<1>4. CASE pc[o] \notin {"idle", "queued", "parked"}
  <2>1. PICK c \in Contexts : Linked(stack[c], <<"op", o>>)
    BY <1>4 DEF OwnInv, Owned, Somewhere
  <2>2. PICK i \in 1..Len(stack[c]) : stack[c][i] = <<"op", o>>
    BY <2>1 DEF Linked
  <2>3. <<c, i>> \in FramesOf(o)
    BY <1>1, <2>2 DEF FramesOf
  <2>4. ASSUME NEW f \in FramesOf(o) PROVE f = <<c, i>>
    <3>1. PICK d \in Contexts : \E j \in 1..Len(stack[d]) :
              stack[d][j] = <<"op", o>> /\ f = <<d, j>>
      BY <1>2
    <3>2. PICK j \in 1..Len(stack[d]) : stack[d][j] = <<"op", o>> /\ f = <<d, j>>
      BY <3>1
    <3>3. d = c
      BY <1>1, <2>1, <3>2 DEF Stacks, Linked
    <3>4. j = i
      BY <1>1, <2>2, <3>2, <3>3 DEF Stacks, Distinct
    <3> QED BY <3>2, <3>3, <3>4
  <2>5. FramesOf(o) = {<<c, i>>}
    BY <2>3, <2>4
  <2> QED BY <1>4, <2>5, FS_Singleton
<1> QED BY <1>3, <1>4

\* Every operation has exactly one owner, or none while it waits, is suspended
\* or is not started, whoever releases, cancels or starts it, and however late
\* a stop callback runs.
THEOREM SingleOwner == Spec => []OneOwner
BY OwnerLemma, Ownership, PTL

-----------------------------------------------------------------------------
(***************************************************************************)
(* Region implements RegionAbs, for every number of contexts and           *)
(* operations: the initial state is an initial state of the abstract       *)
(* region, and every step is an abstract step or changes nothing there.    *)
(***************************************************************************)

\* A stutter of the abstract region.
Idle == UNCHANGED <<Phase, queue>>

LEMMA MoveStutters ==
    ASSUME TypeInv, NEW o \in Ops, NEW p \in Points,
           pc' = [pc EXCEPT ![o] = p],
           pc[o] # "queued", p # "queued",
           pc[o] \in HoldPoints <=> p \in HoldPoints,
           UNCHANGED queue
    PROVE  Idle
BY DEF Idle, Phase, TypeInv

\* Somebody is inside exactly when there is a holder.
LEMMA OccupiedLemma == Abs!Occupied <=> Holders # {}
BY DEF Abs!Occupied, Phase, Holders

LEMMA TakeEnters ==
    ASSUME IInv, NEW o \in Ops, NEW p \in HoldPoints,
           pc' = [pc EXCEPT ![o] = p],
           pc[o] # "queued", pc[o] \notin HoldPoints,
           waiters = 0, UNCHANGED queue
    PROVE  Abs!Enter(o)
<1>1. Holders = {} /\ queue = <<>>
  BY DEF IInv, CountInv, TypeInv
<1>2. Phase' = [Phase EXCEPT ![o] = "inside"]
  BY DEF Phase, IInv, TypeInv
<1>3. Phase[o] = "out"
  BY DEF Phase
<1> QED BY <1>1, <1>2, <1>3, OccupiedLemma DEF Abs!Enter

LEMMA EnqueueJoins ==
    ASSUME IInv, NEW o \in Ops,
           pc' = [pc EXCEPT ![o] = "queued"],
           pc[o] # "queued", pc[o] \notin HoldPoints,
           waiters # 0, queue' = Append(queue, o)
    PROVE  Abs!Join(o)
<1>1. Holders # {}
  BY DEF IInv, QueueAgrees, CountInv, TypeInv
<1>2. Phase' = [Phase EXCEPT ![o] = "waiting"]
  BY DEF Phase, IInv, TypeInv, HoldPoints
<1>3. Phase[o] = "out"
  BY DEF Phase
<1> QED BY <1>1, <1>2, <1>3, OccupiedLemma DEF Abs!Join

LEMMA LastLeaves ==
    ASSUME IInv, NEW o \in Ops,
           pc' = [pc EXCEPT ![o] = "forward"],
           pc[o] \in HoldPoints,
           waiters = 1, UNCHANGED queue
    PROVE  Abs!Leave(o)
<1>1. Holders # {}
  BY DEF Holders
<1>2. queue = <<>>
  BY <1>1 DEF IInv, CountInv, TypeInv
<1>3. Phase' = [Phase EXCEPT ![o] = "out"]
  BY DEF Phase, IInv, TypeInv, HoldPoints
<1>4. Phase[o] = "inside"
  BY DEF Phase
<1> QED BY <1>2, <1>3, <1>4 DEF Abs!Leave

LEMMA HandOffHandsOver ==
    ASSUME IInv, NEW o \in Ops,
           queue # <<>>, Head(queue) \in Ops, Head(queue) # o,
           pc' = [pc EXCEPT ![o] = "forward", ![Head(queue)] = "granted"],
           pc[o] \in HoldPoints,
           queue' = Tail(queue)
    PROVE  Abs!HandOver(o)
<1>1. Phase' = [Phase EXCEPT ![o] = "out", ![Head(queue)] = "inside"]
  BY DEF Phase, IInv, TypeInv, HoldPoints
<1>2. Phase[o] = "inside"
  BY DEF Phase
<1> QED BY <1>1, <1>2 DEF Abs!HandOver

LEMMA DequeueGivesUp ==
    ASSUME IInv, NEW o \in Ops,
           pc' = [pc EXCEPT ![o] = "cancelled"],
           pc[o] = "queued",
           queue' = Unlink(queue, o)
    PROVE  Abs!GiveUp(o)
<1>1. Phase' = [Phase EXCEPT ![o] = "out"]
  BY DEF Phase, IInv, TypeInv, HoldPoints
<1>2. Phase[o] = "waiting"
  BY DEF Phase, HoldPoints
<1>3. Unlink(queue, o) = Abs!Unlink(queue, o)
  BY DEF Unlink, Position, Abs!Unlink, Abs!Position
<1> QED BY <1>1, <1>2, <1>3 DEF Abs!GiveUp

LEMMA AbsInit == Init => Abs!Init
BY DEF Init, Abs!Init, Phase, HoldPoints

LEMMA AbsStep == IInv /\ [Next]_vars => Idle \/ Abs!Next
<1> SUFFICES ASSUME IInv, [Next]_vars PROVE Idle \/ Abs!Next
  OBVIOUS
<1>0. TypeInv
  BY DEF IInv
<1> USE <1>0
<1>1. ASSUME NEW c \in Contexts, NEW o \in Ops, Start(c, o) PROVE Idle
  <2>1. PICK stopped \in BOOLEAN :
            Goto(o, IF stopped THEN "cancelled" ELSE "fast")
    BY <1>1 DEF Start
  <2> QED BY <1>1, <2>1, MoveStutters DEF Start, Goto, Points, HoldPoints
<1>2. ASSUME NEW c \in Contexts, NEW o \in Ops, Fast(c, o)
      PROVE  Idle \/ Abs!Enter(o)
  <2>1. PICK p \in {"body", "release", "arm"} :
            Goto(o, p) /\ (p = "arm" <=> waiters # 0)
    BY <1>2 DEF Fast, FastCS, Enter
  <2>2. CASE waiters = 0
    BY <1>2, <2>1, <2>2, TakeEnters DEF Fast, FastCS, Goto, At, HoldPoints
  <2>3. CASE waiters # 0
    BY <1>2, <2>3, MoveStutters DEF Fast, FastCS, Goto, At, HoldPoints, Points
  <2> QED BY <2>2, <2>3
<1>3. ASSUME NEW c \in Contexts, NEW o \in Ops, Arm(c, o) PROVE Idle
  BY <1>3, MoveStutters DEF Arm, Goto, At, HoldPoints, Points
<1>4. ASSUME NEW c \in Contexts, NEW o \in Ops, Slow(c, o)
      PROVE  Idle \/ Abs!Enter(o) \/ Abs!Join(o)
  <2>1. CASE Goto(o, "cancelled") /\ UNCHANGED queue
    BY <1>4, <2>1, MoveStutters DEF Slow, Goto, At, HoldPoints, Points
  <2>2. CASE waiters = 0 /\ Goto(o, "granted") /\ UNCHANGED queue
    BY <1>4, <2>2, TakeEnters DEF Slow, Goto, At, HoldPoints
  <2>3. CASE waiters # 0 /\ Enqueue(o) /\ Goto(o, "queued")
    BY <1>4, <2>3, EnqueueJoins DEF Slow, Enqueue, Goto, At, HoldPoints
  <2> QED BY <1>4, <2>1, <2>2, <2>3 DEF Slow
<1>5. ASSUME NEW c \in Contexts, NEW o \in Ops, Clear(c, o) PROVE Idle
  <2>1. PICK p \in {"body", "release"} : Goto(o, p)
    BY <1>5 DEF Clear, Enter
  <2> QED BY <1>5, <2>1, MoveStutters DEF Clear, Goto, At, HoldPoints, Points
<1>6. ASSUME NEW c \in Contexts, NEW o \in Ops, FinishBody(c, o) PROVE Idle
  BY <1>6, MoveStutters DEF FinishBody, Goto, At, HoldPoints, Points
<1>7. ASSUME NEW c \in Contexts, NEW o \in Ops, Suspend(c, o) PROVE Idle
  BY <1>7, MoveStutters DEF Suspend, Goto, At, HoldPoints, Points
<1>8. ASSUME NEW c \in Contexts, NEW o \in Ops, Resume(c, o) PROVE Idle
  BY <1>8, MoveStutters DEF Resume, Goto, HoldPoints, Points
<1>9. ASSUME NEW c \in Contexts, NEW o \in Ops, Release(c, o)
      PROVE  Abs!Leave(o) \/ Abs!HandOver(o)
  <2>1. CASE waiters = 1
    BY <1>9, <2>1, LastLeaves DEF Release, Goto, At, HoldPoints
  <2>2. CASE waiters # 1
    <3>1. /\ queue # <<>>
          /\ queue' = Tail(queue)
          /\ pc' = [pc EXCEPT ![o] = "forward", ![Head(queue)] = "granted"]
          /\ pc[o] = "release"
      BY <1>9, <2>2 DEF Release, HandOff, At
    <3>2. Head(queue) \in Ops /\ Linked(queue, Head(queue))
      BY <3>1, PopFrontProperties DEF IInv, QueueAgrees, TypeInv
    <3>3. Head(queue) # o
      BY <3>1, <3>2 DEF IInv, QueueAgrees
    <3> QED BY <3>1, <3>2, <3>3, HandOffHandsOver DEF HoldPoints
  <2> QED BY <2>1, <2>2
<1>10. ASSUME NEW c \in Contexts, NEW o \in Ops, Complete(c, o) PROVE Idle
  BY <1>10, MoveStutters DEF Complete, Goto, At, HoldPoints, Points
<1>11. ASSUME NEW c \in Contexts, NEW o \in Ops, RequestStop(c, o) PROVE Idle
  BY <1>11 DEF RequestStop, Idle, Phase
<1>12. ASSUME NEW c \in Contexts, NEW o \in Ops, StopCallback(c, o)
       PROVE  Idle \/ Abs!GiveUp(o)
  <2>1. CASE pending[o] /\ Dequeue(o) /\ Goto(o, "cancelled")
    <3>1. pc[o] = "queued"
      BY <2>1 DEF IInv, QueueAgrees
    <3> QED BY <2>1, <3>1, DequeueGivesUp DEF Dequeue, Goto
  <2>2. CASE UNCHANGED <<queue, pc>>
    BY <2>2 DEF Idle, Phase
  <2> QED BY <1>12, <2>1, <2>2 DEF StopCallback
<1>13. CASE UNCHANGED vars
  BY <1>13 DEF vars, Idle, Phase
<1> QED BY <1>1, <1>2, <1>3, <1>4, <1>5, <1>6, <1>7, <1>8, <1>9, <1>10, <1>11,
           <1>12, <1>13 DEF Next, Step, Abs!Next

\* The region keeps its promise: first come, first served, one at a time,
\* without a gap at the hand-off that a newcomer could slip into.
THEOREM Refinement == Spec => ImplementsAbs
<1>1. Init => Abs!Init
  BY AbsInit
<1>2. IInv /\ [Next]_vars => [Abs!Next]_(Abs!vars)
  BY AbsStep DEF Idle, Abs!vars
<1> QED BY <1>1, <1>2, Invariance, PTL DEF Spec, ImplementsAbs, Abs!Spec

=============================================================================
