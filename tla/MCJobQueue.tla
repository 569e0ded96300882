----------------------------- MODULE MCJobQueue -----------------------------
(* Instances of JobQueue.                                                   *)
EXTENDS JobQueue, TLC

CONSTANTS r1, r2, r3

Symmetry == Permutations(Run)
=============================================================================
