------------------------- MODULE MC_MpmcRingQueue -------------------------
(* Instantiates MpmcRingQueue for TLC: threads are model values.           *)
EXTENDS MpmcRingQueue, TLC

CONSTANTS p1, p2, c1, c2

MCProducers == {p1, p2}
MCConsumers == {c1, c2}

(* Producers run the same code, and so do consumers.                       *)
ThreadSymmetry == Permutations(MCProducers) \cup Permutations(MCConsumers)

=============================================================================
