-------------------------- MODULE MCBroadcastCycle --------------------------
(* Model-checking instance of one broadcast cycle.                         *)
EXTENDS BroadcastCycle, TLC

\* The two tasks run the same dispatch.
TaskSymmetry == Permutations(Tasks)
=============================================================================
