----------------------------- MODULE MCRunPools -----------------------------
(* Model-checking instance of RunPools. *)
EXTENDS RunPools

CONSTANTS u1, u2, u3, s1, s2

Symmetry == Permutations(Url) \cup Permutations(Slot)
=============================================================================
