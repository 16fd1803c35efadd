----------------------------- MODULE RegionAbs -----------------------------
(***************************************************************************)
(* What an exclusive region promises, without contexts, call stacks,       *)
(* counters or callbacks: one operation inside at a time; an arrival that  *)
(* finds the region occupied joins the end of a line; whoever leaves gives *)
(* the region to the front of the line in the same step, so that nobody    *)
(* can slip in between; and a waiting operation may give up its place.     *)
(***************************************************************************)
EXTENDS Fifo

CONSTANT Ops

VARIABLES
    phase,      \* "out", "waiting" or "inside"
    line        \* the waiting operations, in order of arrival

vars == <<phase, line>>

Occupied == \E o \in Ops : phase[o] = "inside"

Init == phase = [o \in Ops |-> "out"] /\ line = <<>>

Enter(o) == /\ phase[o] = "out"
            /\ ~Occupied
            /\ line = <<>>
            /\ phase' = [phase EXCEPT ![o] = "inside"]
            /\ UNCHANGED line

Join(o) == /\ phase[o] = "out"
           /\ Occupied
           /\ phase' = [phase EXCEPT ![o] = "waiting"]
           /\ line' = Append(line, o)

GiveUp(o) == /\ phase[o] = "waiting"
             /\ phase' = [phase EXCEPT ![o] = "out"]
             /\ line' = Unlink(line, o)

Leave(o) == /\ phase[o] = "inside"
            /\ line = <<>>
            /\ phase' = [phase EXCEPT ![o] = "out"]
            /\ UNCHANGED line

HandOver(o) == /\ phase[o] = "inside"
               /\ line # <<>>
               /\ phase' = [phase EXCEPT ![o] = "out",
                                         ![Head(line)] = "inside"]
               /\ line' = Tail(line)

Next == \E o \in Ops : \/ Enter(o)
                       \/ Join(o)
                       \/ GiveUp(o)
                       \/ Leave(o)
                       \/ HandOver(o)

Spec == Init /\ [][Next]_vars
=============================================================================
