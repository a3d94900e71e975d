---------------------------- MODULE MCRunDirectory ----------------------------
(* Two initialisations that race for one run id and two loads of it.       *)
EXTENDS RunDirectory, TLC

CONSTANTS i1, i2, l1, l2

MCInits == {i1, i2}
MCLoads == {l1, l2}

Symmetry == Permutations(MCInits) \cup Permutations(MCLoads)
=============================================================================
