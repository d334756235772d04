------------------------------ MODULE MutexQueue ------------------------------
(***************************************************************************)
(* The mutex-protected circular queue of src/queue.c.  q->queue is a ring  *)
(* of q->end slots; q->write and q->read run over 0..end and are wrapped   *)
(* lazily, just before a slot is used, so either may equal end; q->len     *)
(* counts the payloads.  Every operation takes q->lock, works on the ring  *)
(* and releases the lock on each of its return paths.                      *)
(*                                                                         *)
(* Threads call the operations of the API in any order.  A call is three  *)
(* steps: choosing the call and its argument, pthread_mutex_lock, and the  *)
(* critical section together with pthread_mutex_unlock.                    *)
(*                                                                         *)
(* When every thread has made its calls, the main thread joins them and    *)
(* calls queue_destroy, as queue_bench does.  queue_delete, which would    *)
(* dequeue and free the payloads left first, has no caller in the code.    *)
(***************************************************************************)
EXTENDS Naturals, Sequences

CONSTANTS
  Threads,    \* calling threads (model values)
  Size,       \* size passed to queue_new, kept in q->end
  Msgs,       \* payload pointers (model values)
  Null,       \* the NULL pointer
  NoOwner,    \* q->lock is not held
  VecLens,    \* len arguments passed to queue_dequeue_vector
  MaxCalls    \* calls each thread makes

ASSUME Size \in Nat \ {0} /\ MaxCalls \in Nat /\ VecLens \subseteq Nat
ASSUME Null \notin Msgs /\ NoOwner \notin Threads

Slots == 0..Size - 1

Calls == [op : {"enqueue", "putback"}, arg : Msgs]
           \cup [op : {"dequeue", "len", "free"}, arg : {Null}]
           \cup [op : {"vector"}, arg : VecLens]

VARIABLES
  queue,          \* q->queue[0..end-1]
  write, read,    \* q->write, q->read
  len,            \* q->len
  lock,           \* q->lock: its owner, or NoOwner
  pc,             \* thread: "idle", "lock" (in pthread_mutex_lock), "cs"
  call,           \* thread: the call it is making
  got,            \* thread: what its last call returned
  calls,          \* thread: calls started
  mpc             \* main thread: "run", or "done" once queue_destroy ran

vars == <<queue, write, read, len, lock, pc, call, got, calls, mpc>>

MainVars == <<mpc>>

Ring == <<queue, write, read, len>>

(* queue_new: the slots are zeroed, read = write = len = 0.                *)
Init ==
  /\ queue = [i \in Slots |-> Null]
  /\ write = 0 /\ read = 0 /\ len = 0
  /\ lock = NoOwner
  /\ pc = [t \in Threads |-> "idle"]
  /\ call = [t \in Threads |-> [op |-> "dequeue", arg |-> Null]]
  /\ got = [t \in Threads |-> [ret |-> Null, out |-> <<>>]]
  /\ calls = [t \in Threads |-> 0]
  /\ mpc = "run"

(* A thread calls one of the operations with an argument.                  *)
Call(t) ==
  /\ pc[t] = "idle" /\ calls[t] < MaxCalls
  /\ \E c \in Calls : call' = [call EXCEPT ![t] = c]
  /\ calls' = [calls EXCEPT ![t] = @ + 1]
  /\ pc' = [pc EXCEPT ![t] = "lock"]
  /\ UNCHANGED <<Ring, lock, got, MainVars>>

(* pthread_mutex_lock(&q->lock) returns once the lock is free.             *)
Lock(t) ==
  /\ pc[t] = "lock" /\ lock = NoOwner
  /\ lock' = t
  /\ pc' = [pc EXCEPT ![t] = "cs"]
  /\ UNCHANGED <<Ring, call, got, calls, MainVars>>

(* pthread_mutex_unlock(&q->lock) and return r, having copied the         *)
(* payloads o into the caller's ret[] array.                               *)
Return(t, r, o) ==
  /\ lock' = NoOwner
  /\ pc' = [pc EXCEPT ![t] = "idle"]
  /\ got' = [got EXCEPT ![t] = [ret |-> r, out |-> o]]
  /\ UNCHANGED <<call, calls, MainVars>>

InCall(t, op) == pc[t] = "cs" /\ call[t].op = op

(* The lazy wrap: an index that reached end is reset to 0 before use.      *)
Wrap(i) == IF i = Size THEN 0 ELSE i

(***************************************************************************)
(* queue_enqueue                                                           *)
(***************************************************************************)

(* q->len == q->end: unlock and return 0.                                  *)
EnqueueFull(t) ==
  /\ InCall(t, "enqueue") /\ len = Size
  /\ Return(t, 0, <<>>)
  /\ UNCHANGED Ring

(* A variant of Enqueue that never resets write to 0.                      *)
EnqueueNoWrap(t) ==
  /\ InCall(t, "enqueue") /\ len # Size
  /\ queue' = [queue EXCEPT ![write] = call[t].arg]
  /\ write' = write + 1
  /\ len' = len + 1
  /\ Return(t, 1, <<>>)
  /\ UNCHANGED read

(* Wrap write, store p at q->queue[write], write++, len++, return 1.       *)
Enqueue(t) ==
  /\ InCall(t, "enqueue") /\ len # Size
  /\ queue' = [queue EXCEPT ![Wrap(write)] = call[t].arg]
  /\ write' = Wrap(write) + 1
  /\ len' = len + 1
  /\ Return(t, 1, <<>>)
  /\ UNCHANGED read

(***************************************************************************)
(* queue_dequeue and queue_dequeue_vector                                  *)
(***************************************************************************)

(* The loop of queue_dequeue_vector from index r for k payloads: each      *)
(* turn wraps r, copies q->queue[r] out and increments r.  The result is   *)
(* the payloads copied and the final r.                                    *)
RECURSIVE Take(_, _, _)
Take(q, r, k) ==
  IF k = 0 THEN [out |-> <<>>, read |-> r]
  ELSE LET rest == Take(q, Wrap(r) + 1, k - 1)
       IN  [out |-> <<q[Wrap(r)]>> \o rest.out, read |-> rest.read]

(* q->len == 0: unlock and return NULL.                                    *)
DequeueEmpty(t) ==
  /\ InCall(t, "dequeue") /\ len = 0
  /\ Return(t, Null, <<>>)
  /\ UNCHANGED Ring

(* Wrap read, ret = q->queue[read++], len--, return ret.                   *)
Dequeue(t) ==
  /\ InCall(t, "dequeue") /\ len # 0
  /\ read' = Wrap(read) + 1
  /\ len' = len - 1
  /\ Return(t, queue[Wrap(read)], <<>>)
  /\ UNCHANGED <<queue, write>>

(* q->len == 0: unlock and return 0; nothing is copied.                    *)
DequeueVectorEmpty(t) ==
  /\ InCall(t, "vector") /\ len = 0
  /\ Return(t, 0, <<>>)
  /\ UNCHANGED Ring

(* Clamp len to q->len, copy that many payloads, q->len -= len.            *)
DequeueVector(t) ==
  /\ InCall(t, "vector") /\ len # 0
  /\ LET k == IF call[t].arg > len THEN len ELSE call[t].arg
         r == Take(queue, read, k)
     IN  /\ read' = r.read
         /\ len' = len - k
         /\ Return(t, k, r.out)
  /\ UNCHANGED <<queue, write>>

(***************************************************************************)
(* queue_putback                                                           *)
(***************************************************************************)

(* q->len == q->end: unlock and return 0.                                  *)
PutbackFull(t) ==
  /\ InCall(t, "putback") /\ len = Size
  /\ Return(t, 0, <<>>)
  /\ UNCHANGED Ring

(* A variant of Putback that stores p at read before stepping read back.  *)
PutbackStoreFirst(t) ==
  /\ InCall(t, "putback") /\ len # Size
  /\ queue' = [queue EXCEPT ![Wrap(read)] = call[t].arg]
  /\ read' = (IF read = 0 THEN Size ELSE read) - 1
  /\ len' = len + 1
  /\ Return(t, 1, <<>>)
  /\ UNCHANGED write

(* read == 0 becomes end, then read--, q->queue[read] = p, len++.          *)
Putback(t) ==
  /\ InCall(t, "putback") /\ len # Size
  /\ LET r == (IF read = 0 THEN Size ELSE read) - 1
     IN  /\ read' = r
         /\ queue' = [queue EXCEPT ![r] = call[t].arg]
  /\ len' = len + 1
  /\ Return(t, 1, <<>>)
  /\ UNCHANGED write

(***************************************************************************)
(* queue_len and queue_free (q->end - queue_len(q))                        *)
(***************************************************************************)

QueueLen(t) ==
  /\ InCall(t, "len")
  /\ Return(t, len, <<>>)
  /\ UNCHANGED Ring

QueueFree(t) ==
  /\ InCall(t, "free")
  /\ Return(t, Size - len, <<>>)
  /\ UNCHANGED Ring

(* The payloads the ring holds, oldest first: len slots from read on.      *)
Contents == [i \in 1..len |-> queue[(read + i - 1) % Size]]

(***************************************************************************)
(* The main thread: pthread_join, then queue_destroy                       *)
(***************************************************************************)

(* Every thread has returned from its last call: the main thread joins    *)
(* them and queue_destroy frees the ring and the queue.                    *)
Join ==
  /\ mpc = "run"
  /\ \A t \in Threads : pc[t] = "idle" /\ calls[t] = MaxCalls
  /\ mpc' = "done"
  /\ UNCHANGED <<Ring, lock, pc, call, got, calls>>

(* The queue is destroyed; the program ends.                               *)
Terminated == mpc = "done" /\ UNCHANGED vars

Next ==
  \/ \E t \in Threads :
       \/ Call(t) \/ Lock(t)
       \/ EnqueueFull(t) \/ Enqueue(t)
       \/ DequeueEmpty(t) \/ Dequeue(t)
       \/ DequeueVectorEmpty(t) \/ DequeueVector(t)
       \/ PutbackFull(t) \/ Putback(t)
       \/ QueueLen(t) \/ QueueFree(t)
  \/ Join \/ Terminated

Spec == Init /\ [][Next]_vars

-----------------------------------------------------------------------------

TypeOK ==
  /\ queue \in [Slots -> Msgs \cup {Null}]
  /\ write \in 0..Size /\ read \in 0..Size /\ len \in 0..Size
  /\ lock \in Threads \cup {NoOwner}
  /\ pc \in [Threads -> {"idle", "lock", "cs"}]
  /\ calls \in [Threads -> 0..MaxCalls]
  /\ mpc \in {"run", "done"}

(* The abstract queue is the one the threads share.                        *)
Abstract == INSTANCE PutbackQueue WITH items <- Contents

(* Every step of the lock-protected ring, with its lazy wrap of read and   *)
(* write, putback stepping read back across 0, and the vector dequeue      *)
(* wrapping inside its copy loop, is a step of the abstract queue: each    *)
(* call returns what the abstract queue returns for it, in the order the   *)
(* calls take the lock.                                                    *)
RefinesPutbackQueue == Abstract!Spec

=============================================================================
