-------------------------------- MODULE Fifo --------------------------------
(* stdx::intrusive_list, as far as the region uses it: a list whose nodes   *)
(* are linked at most once, so that a node stands for its position.         *)
EXTENDS Integers, Sequences

\* The position of the linked node x.
Position(q, x) == CHOOSE i \in 1..Len(q) : q[i] = x

Linked(q, x) == \E i \in 1..Len(q) : q[i] = x

\* remove(x): unlink the node x, wherever it stands; the rest keeps its order.
Unlink(q, x) ==
    [i \in 1..(Len(q) - 1) |-> q[IF i < Position(q, x) THEN i ELSE i + 1]]

\* No node is linked twice.
Distinct(q) == \A i, j \in 1..Len(q) : q[i] = q[j] => i = j
=============================================================================
