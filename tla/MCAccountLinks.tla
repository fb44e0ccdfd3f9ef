--------------------------- MODULE MCAccountLinks ---------------------------
(* AccountLinks for TLC.                                                   *)
EXTENDS AccountLinks, TLC

CONSTANTS a1, a2, p1, p2

RequestSymmetry == Permutations(Requests)

=============================================================================
