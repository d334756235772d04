----------------------------- MODULE PutbackQueue -----------------------------
(***************************************************************************)
(* What the mutex-protected queue of src/queue.c promises: a bounded FIFO  *)
(* sequence `items` of at most Size payloads that can also take a payload  *)
(* back at its head, and, for each thread, the result of its last call:   *)
(* the value it returns and the payloads it copies out.  A thread first   *)
(* chooses its call; the call then takes effect as the one it chose.       *)
(* Each call takes effect atomically; a call on a full or empty queue      *)
(* leaves `items` alone and reports so.                                    *)
(***************************************************************************)
EXTENDS Naturals, Sequences

CONSTANTS Threads, Size, Msgs, Null, VecLens

VARIABLES items, call, got

vars == <<items, call, got>>

Calls == [op : {"enqueue", "putback"}, arg : Msgs]
           \cup [op : {"dequeue", "len", "free"}, arg : {Null}]
           \cup [op : {"vector"}, arg : VecLens]

Init ==
  /\ items = <<>>
  /\ call = [t \in Threads |-> [op |-> "dequeue", arg |-> Null]]
  /\ got = [t \in Threads |-> [ret |-> Null, out |-> <<>>]]

(* A thread chooses the call it makes next.                                *)
Choose(t) ==
  /\ \E c \in Calls : call' = [call EXCEPT ![t] = c]
  /\ UNCHANGED <<items, got>>

Made(t, op) == call[t].op = op /\ UNCHANGED call

Report(t, r, o) == got' = [got EXCEPT ![t] = [ret |-> r, out |-> o]]

(* Append at the tail; 1 on success, 0 when full.                          *)
Enqueue(t, p) ==
  /\ Made(t, "enqueue") /\ call[t].arg = p
  /\ IF Len(items) < Size THEN items' = Append(items, p) /\ Report(t, 1, <<>>)
                          ELSE UNCHANGED items /\ Report(t, 0, <<>>)

(* Take the head; Null when empty.                                         *)
Dequeue(t) ==
  /\ Made(t, "dequeue")
  /\ IF items # <<>> THEN items' = Tail(items) /\ Report(t, Head(items), <<>>)
                     ELSE UNCHANGED items /\ Report(t, Null, <<>>)

(* Copy out the first min(n, Len(items)) payloads and return their count. *)
DequeueVector(t, n) ==
  /\ Made(t, "vector") /\ call[t].arg = n
  /\ LET k == IF n < Len(items) THEN n ELSE Len(items)
     IN  /\ items' = SubSeq(items, k + 1, Len(items))
         /\ Report(t, k, SubSeq(items, 1, k))

(* Put a payload back in front of the head; 1 on success, 0 when full.     *)
Putback(t, p) ==
  /\ Made(t, "putback") /\ call[t].arg = p
  /\ IF Len(items) < Size THEN items' = <<p>> \o items /\ Report(t, 1, <<>>)
                          ELSE UNCHANGED items /\ Report(t, 0, <<>>)

(* Read the number of payloads, or the free space Size - Len(items).       *)
Length(t) == Made(t, "len") /\ UNCHANGED items /\ Report(t, Len(items), <<>>)
Free(t)   == Made(t, "free") /\ UNCHANGED items /\ Report(t, Size - Len(items), <<>>)

Next ==
  \E t \in Threads :
    \/ \E p \in Msgs : Enqueue(t, p) \/ Putback(t, p)
    \/ Dequeue(t)
    \/ \E n \in VecLens : DequeueVector(t, n)
    \/ Choose(t)
    \/ Length(t) \/ Free(t)

Spec == Init /\ [][Next]_vars

=============================================================================
