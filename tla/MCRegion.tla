------------------------------ MODULE MCRegion ------------------------------
(* Small instances of Region for TLC. *)
EXTENDS Region, TLC

CONSTANTS c1, c2, c3, o1, o2, o3

Symmetric == Permutations({c1, c2, c3}) \cup Permutations({o1, o2})
=============================================================================
