----------------------------- MODULE MCPipeline -----------------------------
(* Model-checking instance of Pipeline. *)
EXTENDS Pipeline

CONSTANTS root, u1, u2, s1, s2

Symmetry == Permutations(Url \ {Root}) \cup Permutations(Slot)
=============================================================================
