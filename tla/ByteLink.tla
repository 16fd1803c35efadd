------------------------------ MODULE ByteLink ------------------------------
(***************************************************************************)
(* What the serial line promises: bytes written are heard, each once and   *)
(* in order, and no more than Depth are on their way.  A cut, a reset of   *)
(* the target, loses those, and garbles the one on the wire; nothing else  *)
(* is ever heard.                                                          *)
(***************************************************************************)
EXTENDS Naturals, Sequences

CONSTANTS Byte, Junk, Depth

VARIABLES
    flight, \* bytes written and not yet heard
    heard,  \* the byte heard last
    cut     \* a byte was on the wire when the target was reset

Write(b) ==
    /\ Len(flight) < Depth
    /\ flight' = Append(flight, b)
    /\ UNCHANGED <<heard, cut>>

Hear ==
    /\ flight # <<>> /\ ~cut
    /\ heard' = Head(flight)
    /\ flight' = Tail(flight)
    /\ UNCHANGED cut

Cut ==
    /\ flight' = <<>>
    /\ cut' \in {cut, flight # <<>>}
    /\ UNCHANGED heard

HearCut == cut /\ heard' = Junk /\ cut' = FALSE /\ UNCHANGED flight

Init == flight = <<>> /\ heard = Junk /\ ~cut

Next == (\E b \in Byte : Write(b)) \/ Hear \/ Cut \/ HearCut

Spec == Init /\ [][Next]_<<flight, heard, cut>>
=============================================================================
