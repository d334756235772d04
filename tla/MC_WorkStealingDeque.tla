------------------------ MODULE MC_WorkStealingDeque ------------------------
(* Instantiates WorkStealingDeque for TLC: stealers are model values.      *)
EXTENDS WorkStealingDeque, TLC

CONSTANTS s1, s2

MCStealers == {s1, s2}

(* Stealers run the same code: any permutation of them is a symmetry.     *)
StealerSymmetry == Permutations(MCStealers)

=============================================================================
