----------------------------- MODULE MC_MutexQueue -----------------------------
(* Instantiates MutexQueue for TLC: threads and payloads are model values. *)
EXTENDS MutexQueue, TLC

CONSTANTS t1, t2, m1, m2

MCThreads == {t1, t2}
MCMsgs    == {m1, m2}

=============================================================================
