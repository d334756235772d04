--------------------------- MODULE MC_HazardPointer ---------------------------
EXTENDS HazardPointer, TLC

CONSTANTS t1, t2, n1, n2, n3, n4

MCThreads == {t1, t2}
MCNodes   == {n1, n2, n3, n4}
ThreadSymmetry == Permutations(MCThreads)

=============================================================================
