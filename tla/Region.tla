------------------------------- MODULE Region -------------------------------
(***************************************************************************)
(* The exclusive region of src/src/shared/region.hpp: one region Name,     *)
(* the acquire operations that queue for it, the stop requests that cancel *)
(* them, and the contexts (threads or interrupt handlers) that run all of  *)
(* it.                                                                     *)
(*                                                                         *)
(* An operation is one started `a | within<Name>(s) | b`.  Every line of   *)
(* region.hpp runs on some context's call stack: a release runs the next   *)
(* holder INSIDE its own call, and a stop request runs the stop callback   *)
(* inside the requester's.  A frame of a stack is either an operation's    *)
(* own code (<<"op", o>>, at the point pc[o]) or a running stop callback   *)
(* of an operation (<<"cb", o>>).  Only the top frame of a stack moves;    *)
(* the contexts interleave freely, so a preempting interrupt handler is    *)
(* one of the interleavings.                                               *)
(*                                                                         *)
(* One critical section of region.hpp is one action (module                *)
(* CriticalSection says when the target really gives that).                *)
(***************************************************************************)
EXTENDS Integers, Sequences, FiniteSets, Fifo

CONSTANTS
    Contexts,   \* threads and interrupt handlers that call into the region
    Ops,        \* the operation states of the within senders
    Stoppable,  \* operations whose receiver's stop token can stop
    Adaptor,    \* operations whose s is a composed adaptor, not a sender
    Channels    \* completion channels in use: "value", "error", "stopped"

ASSUME RegionAssumption ==
    /\ IsFiniteSet(Ops)
    /\ Stoppable \subseteq Ops
    /\ Adaptor \subseteq Ops
    /\ "value" \in Channels
    /\ Channels \subseteq {"value", "error", "stopped"}

VARIABLES
    waiters,    \* waiters_: holder plus queued waiters
    queue,      \* queue_: the intrusive FIFO
    pending,    \* task_base::pending of each operation's node
    status,     \* stop_base::state
    stopReq,    \* the stop source of each operation has been stopped
    armed,      \* stop_cb is registered with the stop source
    pc,         \* where each operation is
    stack       \* call stack of each context, top first

vars == <<waiters, queue, pending, status, stopReq, armed, pc, stack>>

Points == {"idle", "fast", "arm", "slow", "queued", "granted", "body",
           "parked", "release", "forward", "cancelled"}

\* An operation at one of these points is the holder of the region.
HoldPoints == {"granted", "body", "parked", "release"}

Holders == {o \in Ops : pc[o] \in HoldPoints}

Frames == {"op", "cb"} \X Ops

(***************************************************************************)
(* Call stacks                                                             *)
(***************************************************************************)

\* The top frame of context c is the code of operation o, standing at point p.
At(c, o, p) == /\ stack[c] # <<>>
               /\ Head(stack[c]) = <<"op", o>>
               /\ pc[o] = p

\* Context c runs code outside region.hpp: no operation at all, the body of
\* a holder, or a completion handler downstream.
InUserCode(c) ==
    stack[c] # <<>> =>
        \E o \in Ops, p \in {"body", "forward", "cancelled"} : At(c, o, p)

Call(c, frame) == stack' = [stack EXCEPT ![c] = <<frame>> \o @]
Return(c)      == stack' = [stack EXCEPT ![c] = Tail(@)]
Goto(o, p)     == pc' = [pc EXCEPT ![o] = p]

(***************************************************************************)
(* The pieces of a critical section                                        *)
(***************************************************************************)

\* An acquired operation goes on.  A sender s runs on an upstream value only,
\* an adaptor s on every channel; otherwise the release is next.  The channel
\* is chosen here, where it first matters.
Enter(o) ==
    \E ch \in Channels :
        Goto(o, IF ch = "value" \/ o \in Adaptor THEN "body" ELSE "release")

\* Seeded fault: the fast path does not look at the count.
FastCS_Barges(o) == waiters' = waiters + 1 /\ Enter(o)

\* take the region, when nobody holds or awaits it
FastCS(o) ==
    IF waiters = 0
    THEN waiters' = 1 /\ Enter(o)
    ELSE UNCHANGED waiters /\ Goto(o, "arm")

\* Seeded fault: the node is pushed at the front.
Enqueue_Lifo(o) ==
    /\ pending' = [pending EXCEPT ![o] = TRUE]
    /\ queue' = <<o>> \o queue
    /\ status' = IF o \in Stoppable THEN [status EXCEPT ![o] = "queued"]
                 ELSE status

\* queue the operation (the third branch of the slow critical section)
Enqueue(o) ==
    /\ pending' = [pending EXCEPT ![o] = TRUE]
    /\ queue' = Append(queue, o)
    /\ status' = IF o \in Stoppable THEN [status EXCEPT ![o] = "queued"]
                 ELSE status

\* Seeded fault: the popped node is still marked pending.
HandOff_StaysPending(t) == queue' = Tail(queue) /\ UNCHANGED pending

\* the release's choice: the next holder and the count, together
HandOff(t) ==
    /\ queue' = Tail(queue)
    /\ pending' = [pending EXCEPT ![t] = FALSE]

\* Seeded fault: the callback unlinks the node and keeps the reservation.
Dequeue_KeepsReservation(o) ==
    /\ pending' = [pending EXCEPT ![o] = FALSE]
    /\ queue' = Unlink(queue, o)
    /\ UNCHANGED waiters

\* Seeded fault: the reservation is given up twice.
Dequeue_Twice(o) ==
    /\ pending' = [pending EXCEPT ![o] = FALSE]
    /\ queue' = Unlink(queue, o)
    /\ waiters' = waiters - 2

\* the stop callback wins: the node and its reservation go together
Dequeue(o) ==
    /\ pending' = [pending EXCEPT ![o] = FALSE]
    /\ queue' = Unlink(queue, o)
    /\ waiters' = waiters - 1

-----------------------------------------------------------------------------
(***************************************************************************)
(* op_state::start                                                         *)
(***************************************************************************)

\* start: a fresh or already stopped token; the upstream has completed.
\* A pending stop completes stopped without touching the region.
ResetCancelState(o) ==
    status' = IF o \in Stoppable THEN [status EXCEPT ![o] = "init"] ELSE status

Start(c, o) ==
    /\ InUserCode(c)
    /\ pc[o] = "idle"
    /\ \E stopped \in BOOLEAN :
          /\ stopped => o \in Stoppable
          /\ stopReq' = [stopReq EXCEPT ![o] = stopped]
          /\ Goto(o, IF stopped THEN "cancelled" ELSE "fast")
    /\ ResetCancelState(o)
    /\ Call(c, <<"op", o>>)
    /\ UNCHANGED <<waiters, queue, pending, armed>>

\* The uncontended path: one critical section, no cancellation armed.
Fast(c, o) ==
    /\ At(c, o, "fast")
    /\ FastCS(o)
    /\ UNCHANGED <<queue, pending, status, stopReq, armed, stack>>

\* Seeded fault: registering does not look whether the stop came in already.
EmplaceStopCb_Blind(c, o) ==
    armed' = [armed EXCEPT ![o] = TRUE] /\ UNCHANGED stack

\* emplace_stop_cb: register with the stop source, or, when the stop came
\* in meanwhile, run the callback on this very stack.
EmplaceStopCb(c, o) ==
    IF stopReq[o]
    THEN Call(c, <<"cb", o>>) /\ UNCHANGED armed
    ELSE armed' = [armed EXCEPT ![o] = TRUE] /\ UNCHANGED stack

\* The acquire is contended: arm cancellation before queueing.
Arm(c, o) ==
    /\ At(c, o, "arm")
    /\ Goto(o, "slow")
    /\ IF o \in Stoppable THEN EmplaceStopCb(c, o) ELSE UNCHANGED <<armed, stack>>
    /\ UNCHANGED <<waiters, queue, pending, status, stopReq>>

\* The contended critical section: cancelled meanwhile, released meanwhile,
\* or wait.  A waiter's context returns and never touches the op again.
Slow(c, o) ==
    /\ At(c, o, "slow")
    /\ \/ /\ status[o] = "cancelled"
          /\ Goto(o, "cancelled")
          /\ UNCHANGED <<waiters, queue, pending, status, stack>>
       \/ /\ status[o] # "cancelled"
          /\ waiters = 0
          /\ waiters' = 1
          /\ Goto(o, "granted")
          /\ UNCHANGED <<queue, pending, status, stack>>
       \/ /\ status[o] # "cancelled"
          /\ waiters # 0
          /\ waiters' = waiters + 1
          /\ Enqueue(o)
          /\ Goto(o, "queued")
          /\ Return(c)
    /\ UNCHANGED <<stopReq, armed>>

\* clear_stop_cb: the callback is registered no more.  An invocation that
\* request_stop has begun is out of reach, and the stop source in use
\* (async::inplace_stop_source) does not wait for it to end.
ClearStopCb(o) == armed' = [armed EXCEPT ![o] = FALSE]

\* clear_stop_cb, then set_value: from task_t::run or from start.
Clear(c, o) ==
    /\ At(c, o, "granted")
    /\ ClearStopCb(o)
    /\ Enter(o)
    /\ UNCHANGED <<waiters, queue, pending, status, stopReq, stack>>

-----------------------------------------------------------------------------
(***************************************************************************)
(* The body s, and release_receiver                                        *)
(***************************************************************************)

\* s completes; whatever the channel, the release is next and forwards it.
FinishBody(c, o) ==
    /\ At(c, o, "body")
    /\ Goto(o, "release")
    /\ UNCHANGED <<waiters, queue, pending, status, stopReq, armed, stack>>

\* s suspends (a trigger, a timer): the stack unwinds, the region stays held.
Suspend(c, o) ==
    /\ At(c, o, "body")
    /\ Goto(o, "parked")
    /\ Return(c)
    /\ UNCHANGED <<waiters, queue, pending, status, stopReq, armed>>

\* some context resumes a suspended s
Resume(c, o) ==
    /\ InUserCode(c)
    /\ pc[o] = "parked"
    /\ Goto(o, "body")
    /\ Call(c, <<"op", o>>)
    /\ UNCHANGED <<waiters, queue, pending, status, stopReq, armed>>

\* do_release: decrement and choose the successor in one critical section,
\* then run the successor on this stack, above the frame that will forward.
\* (pop_front on an empty queue would be undefined; QueueAgrees and
\* WaiterCount say that it is never asked to.)
Release(c, o) ==
    /\ At(c, o, "release")
    /\ waiters' = waiters - 1
    /\ \/ /\ waiters = 1
          /\ Goto(o, "forward")
          /\ UNCHANGED <<queue, pending, stack>>
       \/ /\ waiters # 1
          /\ queue # <<>>
          /\ HandOff(Head(queue))
          /\ pc' = [pc EXCEPT ![o] = "forward", ![Head(queue)] = "granted"]
          /\ Call(c, <<"op", Head(queue)>>)
    /\ UNCHANGED <<status, stopReq, armed>>

\* the completion reaches b; the operation state may now be destroyed, and
\* its callback with it, unless that runs already
Complete(c, o) ==
    /\ At(c, o, "forward") \/ At(c, o, "cancelled")
    /\ Goto(o, "idle")
    /\ Return(c)
    /\ armed' = [armed EXCEPT ![o] = FALSE]
    /\ UNCHANGED <<waiters, queue, pending, status, stopReq>>

-----------------------------------------------------------------------------
(***************************************************************************)
(* Stop requests                                                           *)
(***************************************************************************)

\* inplace_stop_source::request_stop: the first request pops a registered
\* callback and calls it.
RequestStop(c, o) ==
    /\ InUserCode(c)
    /\ o \in Stoppable
    /\ pc[o] # "idle"
    /\ ~stopReq[o]
    /\ stopReq' = [stopReq EXCEPT ![o] = TRUE]
    /\ armed' = [armed EXCEPT ![o] = FALSE]
    /\ IF armed[o] THEN Call(c, <<"cb", o>>) ELSE UNCHANGED stack
    /\ UNCHANGED <<waiters, queue, pending, status, pc>>

\* Seeded fault: a callback that comes too late completes the operation too.
StopCallback_NoArbitration(c, o) ==
    /\ stack[c] # <<>>
    /\ Head(stack[c]) = <<"cb", o>>
    /\ \/ /\ status[o] # "queued"
          /\ status' = [status EXCEPT ![o] = "cancelled"]
          /\ Return(c)
          /\ UNCHANGED <<waiters, queue, pending, pc>>
       \/ /\ status[o] = "queued"
          /\ IF pending[o] THEN Dequeue(o)
             ELSE UNCHANGED <<waiters, queue, pending>>
          /\ Goto(o, "cancelled")
          /\ stack' = [stack EXCEPT ![c] = <<<<"op", o>>>> \o Tail(@)]
          /\ UNCHANGED status
    /\ UNCHANGED <<stopReq, armed>>

\* op_state::stop, the critical section of the callback.  If it dequeued the
\* operation the callback goes on to complete it (the frame becomes the
\* operation's); otherwise it returns.
\* An acquire that is over has given its storage away; a callback that runs
\* then is undefined.  It finds what the operation state last held, or what
\* a new operation in the same place holds, or it does nothing here.
StopCallback(c, o) ==
    /\ stack[c] # <<>>
    /\ Head(stack[c]) = <<"cb", o>>
    /\ \/ /\ status[o] # "queued"
          /\ status' = [status EXCEPT ![o] = "cancelled"]
          /\ Return(c)
          /\ UNCHANGED <<waiters, queue, pending, pc>>
       \/ /\ status[o] = "queued"
          /\ pending[o]
          /\ Dequeue(o)
          /\ Goto(o, "cancelled")
          /\ stack' = [stack EXCEPT ![c] = <<<<"op", o>>>> \o Tail(@)]
          /\ UNCHANGED status
       \/ /\ status[o] = "queued"
          /\ ~pending[o]
          /\ Return(c)
          /\ UNCHANGED <<waiters, queue, pending, status, pc>>
       \/ /\ pc[o] \notin {"slow", "queued", "granted"}
          /\ Return(c)
          /\ UNCHANGED <<waiters, queue, pending, status, pc>>
    /\ UNCHANGED <<stopReq, armed>>

-----------------------------------------------------------------------------
Init ==
    /\ waiters = 0
    /\ queue = <<>>
    /\ pending = [o \in Ops |-> FALSE]
    /\ status = [o \in Ops |-> "init"]
    /\ stopReq = [o \in Ops |-> FALSE]
    /\ armed = [o \in Ops |-> FALSE]
    /\ pc = [o \in Ops |-> "idle"]
    /\ stack = [c \in Contexts |-> <<>>]

\* a context carries on with region code it is in
Step(c, o) == \/ Fast(c, o)
              \/ Arm(c, o)
              \/ Slow(c, o)
              \/ Clear(c, o)
              \/ Release(c, o)
              \/ StopCallback(c, o)

Next == \E c \in Contexts, o \in Ops :
            \/ Start(c, o)
            \/ FinishBody(c, o)
            \/ Suspend(c, o)
            \/ Resume(c, o)
            \/ Complete(c, o)
            \/ RequestStop(c, o)
            \/ Step(c, o)

Spec == Init /\ [][Next]_vars

(***************************************************************************)
(* Fairness: a context inside region.hpp goes on.  Code outside it, which  *)
(* may start operations and request stops as it runs, returns in the end:  *)
(* a body that runs over and over finishes, a suspended one is resumed, a  *)
(* completion handler returns.  Nobody has to start an operation or to     *)
(* request a stop.  FinishBody and Complete of an operation alternate, and *)
(* so one condition serves both.                                           *)
(***************************************************************************)
Fairness ==
    /\ \A c \in Contexts : WF_vars(\E o \in Ops : Step(c, o))
    /\ \A o \in Ops : SF_vars(\E c \in Contexts : Resume(c, o))
    /\ \A o \in Ops :
          SF_vars(\E c \in Contexts : FinishBody(c, o) \/ Complete(c, o))

FairSpec == Spec /\ Fairness

-----------------------------------------------------------------------------
\* Every variable has its type; the count is never negative and never above
\* the number of operations there are.
TypeInv ==
    /\ queue \in Seq(Ops)
    /\ pending \in [Ops -> BOOLEAN]
    /\ status \in [Ops -> {"init", "queued", "cancelled"}]
    /\ stopReq \in [Ops -> BOOLEAN]
    /\ armed \in [Ops -> BOOLEAN]
    /\ pc \in [Ops -> Points]
    /\ stack \in [Contexts -> Seq(Frames)]

TypeOK == TypeInv /\ waiters \in 0..Cardinality(Ops)

\* At most one operation is inside the region: neither a fast path nor a
\* hand-off lets a second one in (region.hpp:337-358).
Exclusive == \A o, p \in Ops : o \in Holders /\ p \in Holders => o = p

\* The queue, the pending bits and the operations waiting agree, nobody is
\* queued twice, and a queue has a holder to wake it (region.hpp:94-97,
\* 349-350).
QueueAgrees ==
    /\ \A o \in Ops : pending[o] <=> pc[o] = "queued"
    /\ \A o \in Ops : pending[o] <=> Linked(queue, o)
    /\ Distinct(queue)
    /\ queue # <<>> => Holders # {}

\* waiters_ counts the holder plus the queue at every critical-section
\* boundary (region.hpp:107-109).
WaiterCount == waiters = Cardinality(Holders) + Len(queue)

\* The same without cardinalities, as the induction needs it.
CountInv == waiters = Len(queue) + (IF Holders = {} THEN 0 ELSE 1)

\* The inductive invariant behind the four of them.
IInv == TypeInv /\ Exclusive /\ QueueAgrees /\ CountInv

\* Whoever clears `pending` owns the completion: an operation is on exactly
\* one stack, or on none while it waits, is suspended or is not started.
FramesOf(o) ==
    UNION {{c} \X {i \in DOMAIN stack[c] : stack[c][i] = <<"op", o>>} :
              c \in Contexts}

OneOwner ==
    \A o \in Ops : Cardinality(FramesOf(o)) =
                     IF pc[o] \in {"idle", "queued", "parked"} THEN 0 ELSE 1

\* No stop request is lost: a queued operation whose token is stopped has
\* its callback on the way, on some stack (region.hpp:303-311).
StopNotLost ==
    \A o \in Stoppable :
        pc[o] = "queued" /\ stopReq[o]
        => \E c \in Contexts : Linked(stack[c], <<"cb", o>>)

\* A stop has no effect on an operation that has been handed the region: its
\* callback runs from arming to acquiring only (region.hpp:218-224, and
\* docs/region.org:78).
CallbackScoped ==
    \A c \in Contexts, o \in Ops :
        Linked(stack[c], <<"cb", o>>) => pc[o] \in {"slow", "queued", "granted"}

(***************************************************************************)
(* The region keeps the promise of RegionAbs: every step is a step of the  *)
(* abstract region or changes nothing in it.  In particular operations     *)
(* acquire in the order they queued, and none overtakes a hand-off.        *)
(***************************************************************************)
Phase == [o \in Ops |-> IF pc[o] \in HoldPoints THEN "inside"
                        ELSE IF pc[o] = "queued" THEN "waiting"
                        ELSE "out"]

Abs == INSTANCE RegionAbs WITH phase <- Phase, line <- queue

ImplementsAbs == Abs!Spec

\* Every operation started completes, cancelled or not.
Completes == \A o \in Ops : pc[o] # "idle" ~> pc[o] = "idle"

=============================================================================
