----------------------------- MODULE MC_MpscFifo -----------------------------
(* Instantiates MpscFifo for TLC: threads and nodes are model values.      *)
EXTENDS MpscFifo, TLC

CONSTANTS p1, p2, n1, n2, n3, n4, n5

MCProducers == {p1, p2}
MCNodes     == {n1, n2, n3, n4, n5}

(* Producers run the same code.                                            *)
ProducerSymmetry == Permutations(MCProducers)

=============================================================================
