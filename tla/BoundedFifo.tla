----------------------------- MODULE BoundedFifo -----------------------------
(***************************************************************************)
(* What a bounded queue promises: items leave in the order they entered,   *)
(* and it never holds more than Capacity of them.                          *)
(***************************************************************************)
EXTENDS Sequences, Naturals

CONSTANTS Capacity, Items

VARIABLE queue

Init == queue = <<>>

Put(x) ==
  /\ Len(queue) < Capacity
  /\ queue' = Append(queue, x)

Take ==
  /\ queue # <<>>
  /\ queue' = Tail(queue)

Next == (\E x \in Items : Put(x)) \/ Take

Spec == Init /\ [][Next]_queue

=============================================================================
