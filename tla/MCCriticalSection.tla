------------------------- MODULE MCCriticalSection -------------------------
(* A small instance of CriticalSection: two handlers of one priority, as   *)
(* interrupt_config.hpp gives every line.                                  *)
EXTENDS CriticalSection

CONSTANTS i1, i2

OnePriority == [i \in Isrs |-> 4]
=============================================================================
