-------------------------- MODULE WorkStealingDeque --------------------------
(***************************************************************************)
(* The Chase-Lev work-stealing deque of src/work_stealing_deque.c.         *)
(*                                                                         *)
(* One owner thread pushes and pops at `bottom`; the threads in Stealers   *)
(* take from `top` with a CAS.  Memory is x86-TSO: every plain store of    *)
(* the owner goes into a FIFO store buffer `buf` and reaches memory only   *)
(* when Flush takes it out; the owner reads its own buffered stores        *)
(* (store forwarding), the stealers read memory.  A locked instruction     *)
(* (the CAS of __sync_bool_compare_and_swap) only runs with an empty       *)
(* buffer.  store_load_barrier() in pop_bottom is modelled by the constant *)
(* StoreLoadFence: when TRUE the load of `top` waits for the buffer to     *)
(* drain, when FALSE it does not (machine_specific.h compiles it to        *)
(* nothing on ARCH_x86_64).  Stealers make no plain stores, so they need   *)
(* no buffer; write_barrier() and load_load_barrier() are implied by TSO.  *)
(*                                                                         *)
(* The owner is the client of the test wsd_test.c: it pushes the items     *)
(* 1..MaxPush in order, may pop after each push, and once every item is    *)
(* pushed pops until pop_bottom reports EMPTY ("drain"), then is "done".   *)
(* PushApi names the push functions it may call for each push:            *)
(* push_bottom, which reports full and leaves growing to an explicit      *)
(* wsd_work_stealing_grow, and push_bottom_autogrow.                       *)
(***************************************************************************)
EXTENDS Integers, Sequences, SequencesExt, FiniteSets

CONSTANTS
  Stealers,        \* the stealing threads (model values)
  MaxPush,         \* the owner pushes the items 1..MaxPush
  LogSize,         \* log2 of the size of the first circular array
  MaxArrays,       \* circular arrays that can be allocated; one more fails
  BufSize,         \* entries of the owner's store buffer
  PushApi,         \* the push functions the owner calls
  StoreLoadFence   \* store_load_barrier() is a real fence on this build

ASSUME MaxPush \in Nat \ {0} /\ LogSize \in Nat \ {0}
ASSUME MaxArrays \in Nat \ {0} /\ BufSize \in Nat \ {0}
ASSUME PushApi \subseteq {"push_bottom", "push_bottom_autogrow"} /\ PushApi # {}
ASSUME StoreLoadFence \in BOOLEAN

Items    == 1..MaxPush
NoItem   == 0              \* content of a slot never written (uninitialised)
ArrayIds == 0..MaxArrays - 1

VARIABLES
  top, bottom,    \* d->top, d->bottom as seen in memory
  arr,            \* d->underlying_array (an array id) as seen in memory
  mem,            \* mem[k][j]: slot j of circular array k
  allocated,      \* number of circular arrays allocated so far
  buf,            \* the owner's store buffer: << [loc, val] ... >>
  opc,            \* owner: "idle", "pop_read_top", "pop_cas", "done"
  ob, oa, ot, oret, \* owner locals of pop_bottom: b, a, t, ret
  oresult,        \* the last value an owner operation returned
  next,           \* the next item the owner pushes
  mayPop,         \* the owner pushed since its last pop
  spc,            \* stealer: "idle", "read_bottom", "read_elem", "cas"
  st, sa, sret,   \* stealer locals of steal: t, a, ret
  delivered       \* delivered[i]: how often item i was returned to a thread

vars == <<top, bottom, arr, mem, allocated, buf, opc, ob, oa, ot, oret,
          oresult, next, mayPop, spc, st, sa, sret, delivered>>

(* Size of circular array k: each grow doubles the size (log_size + 1).    *)
Sz(k) == 2 ^ (LogSize + k)

(* wsd_circular_array_get/put index: i & size_minus_one.                  *)
Slot(k, i) == i % Sz(k)

(* Store-buffer locations: d->bottom, d->underlying_array and array slots. *)
BottomLoc     == <<"bottom", 0, 0>>
ArrLoc        == <<"arr", 0, 0>>
SlotLoc(k, i) == <<"slot", k, Slot(k, i)>>
Store(l, v)   == [loc |-> l, val |-> v]

(* What the owner reads at location l: its newest buffered store there,    *)
(* else memory.                                                            *)
OwnerLoad(l, inMemory) ==
  LET i == SelectLastInSeq(buf, LAMBDA e : e.loc = l)
  IN  IF i = 0 THEN inMemory ELSE buf[i].val

OBottom      == OwnerLoad(BottomLoc, bottom)
OArr         == OwnerLoad(ArrLoc, arr)
OSlot(k, i)  == OwnerLoad(SlotLoc(k, i), mem[k][Slot(k, i)])

Deliver(i) == delivered' = [delivered EXCEPT ![i] = @ + 1]

Draining == next > MaxPush

(* The owner has nothing to wait for before its next store.                *)
BufferRoom(n) == Len(buf) + n <= BufSize

Init ==
  /\ top = 0 /\ bottom = 0
  /\ arr = 0 /\ allocated = 1
  /\ mem = [k \in ArrayIds |-> [j \in 0..Sz(k) - 1 |-> NoItem]]
  /\ buf = <<>>
  /\ opc = "idle"
  /\ ob = 0 /\ oa = 0 /\ ot = 0 /\ oret = NoItem
  /\ oresult = "none"
  /\ next = 1 /\ mayPop = FALSE
  /\ spc = [s \in Stealers |-> "idle"]
  /\ st = [s \in Stealers |-> 0]
  /\ sa = [s \in Stealers |-> 0]
  /\ sret = [s \in Stealers |-> NoItem]
  /\ delivered = [i \in {NoItem} \cup Items |-> 0]

StealerVars == <<spc, st, sa, sret>>
OwnerLocals == <<ob, oa, ot, oret>>

(***************************************************************************)
(* Owner: push.  The owner's read of `top` is its only shared read; the    *)
(* stores that follow go into the buffer, so each push is one step.        *)
(***************************************************************************)

(* push_bottom: size >= size_minus_one, the deque is full: return -1.      *)
PushBottomFull ==
  /\ opc = "idle" /\ "push_bottom" \in PushApi /\ ~Draining
  /\ OBottom - top >= Sz(OArr) - 1
  /\ oresult' = "full"
  /\ UNCHANGED <<top, bottom, arr, mem, allocated, buf, opc, next, mayPop>>
  /\ UNCHANGED <<OwnerLocals, StealerVars, delivered>>

(* push_bottom: put p at a[b], write_barrier(), bottom = b + 1.            *)
PushBottom ==
  /\ opc = "idle" /\ "push_bottom" \in PushApi /\ ~Draining
  /\ LET b == OBottom IN
       /\ b - top < Sz(OArr) - 1
       /\ BufferRoom(2)
       /\ buf' = buf \o <<Store(SlotLoc(OArr, b), next), Store(BottomLoc, b + 1)>>
  /\ next' = next + 1 /\ mayPop' = TRUE /\ oresult' = "ok"
  /\ UNCHANGED <<top, bottom, arr, mem, allocated, opc>>
  /\ UNCHANGED <<OwnerLocals, StealerVars, delivered>>

(* A variant of GrownArray that copies from t + 1: it drops the top item.  *)
GrownArrayFromNextTop(a, t, b) ==
  [j \in 0..Sz(allocated) - 1 |->
     LET I == {i \in t + 1..b - 1 : Slot(allocated, i) = j}
     IN  IF I = {} THEN NoItem ELSE OSlot(a, CHOOSE i \in I : TRUE)]

(* wsd_circular_array_grow(a, t, b): a new array of twice the size holding *)
(* a[i] for i in t..b-1.  It is not yet reachable by any stealer, so its   *)
(* contents are written to memory directly.                                *)
GrownArray(a, t, b) ==
  LET k == allocated
  IN  [j \in 0..Sz(k) - 1 |->
         LET I == {i \in t..b - 1 : Slot(k, i) = j}
         IN  IF I = {} THEN NoItem ELSE OSlot(a, CHOOSE i \in I : TRUE)]

(* A variant of PushBottomAutoGrow that ignores a failed allocation.      *)
PushBottomAutoGrowNoNullCheck ==
  /\ opc = "idle" /\ "push_bottom_autogrow" \in PushApi /\ ~Draining
  /\ LET b == OBottom
         t == top
         a == OArr
     IN  /\ b - t >= Sz(a) - 1
         /\ BufferRoom(3)
         /\ mem' = [mem EXCEPT ![allocated] = GrownArray(a, t, b)]
         /\ buf' = buf \o << Store(ArrLoc, allocated),
                             Store(SlotLoc(allocated, b), next),
                             Store(BottomLoc, b + 1) >>
  /\ allocated' = allocated + 1
  /\ next' = next + 1 /\ mayPop' = TRUE /\ oresult' = "ok"
  /\ UNCHANGED <<top, bottom, arr, opc, OwnerLocals, StealerVars, delivered>>

(* push_bottom_autogrow when full: grow, swap the array in, then push.     *)
PushBottomAutoGrow ==
  /\ opc = "idle" /\ "push_bottom_autogrow" \in PushApi /\ ~Draining
  /\ LET b == OBottom
         t == top
         a == OArr
     IN  /\ b - t >= Sz(a) - 1
         /\ allocated < MaxArrays
         /\ BufferRoom(3)
         /\ mem' = [mem EXCEPT ![allocated] = GrownArray(a, t, b)]
         /\ buf' = buf \o << Store(ArrLoc, allocated),
                             Store(SlotLoc(allocated, b), next),
                             Store(BottomLoc, b + 1) >>
  /\ allocated' = allocated + 1
  /\ next' = next + 1 /\ mayPop' = TRUE /\ oresult' = "ok"
  /\ UNCHANGED <<top, bottom, arr, opc, OwnerLocals, StealerVars, delivered>>

(* push_bottom_autogrow when full and the allocation fails: return -1.     *)
PushBottomAutoGrowFail ==
  /\ opc = "idle" /\ "push_bottom_autogrow" \in PushApi /\ ~Draining
  /\ OBottom - top >= Sz(OArr) - 1
  /\ allocated = MaxArrays
  /\ oresult' = "nomem"
  /\ UNCHANGED <<top, bottom, arr, mem, allocated, buf, opc, next, mayPop>>
  /\ UNCHANGED <<OwnerLocals, StealerVars, delivered>>

(* push_bottom_autogrow when there is room: *old = NULL, then push.        *)
PushBottomAutoGrowNoGrow ==
  /\ opc = "idle" /\ "push_bottom_autogrow" \in PushApi /\ ~Draining
  /\ LET b == OBottom IN
       /\ b - top < Sz(OArr) - 1
       /\ BufferRoom(2)
       /\ buf' = buf \o <<Store(SlotLoc(OArr, b), next), Store(BottomLoc, b + 1)>>
  /\ next' = next + 1 /\ mayPop' = TRUE /\ oresult' = "ok"
  /\ UNCHANGED <<top, bottom, arr, mem, allocated, opc>>
  /\ UNCHANGED <<OwnerLocals, StealerVars, delivered>>

(* wsd_work_stealing_grow: if full, swap in a grown array and return the   *)
(* old one, NULL when the allocation fails; otherwise WSD_ABORT.           *)
Grow ==
  /\ opc = "idle" /\ "push_bottom" \in PushApi /\ ~Draining
  /\ LET b == OBottom
         t == top
         a == OArr
     IN  \/ /\ b - t >= Sz(a) - 1
            /\ allocated < MaxArrays
            /\ BufferRoom(1)
            /\ mem' = [mem EXCEPT ![allocated] = GrownArray(a, t, b)]
            /\ buf' = Append(buf, Store(ArrLoc, allocated))
            /\ allocated' = allocated + 1
            /\ oresult' = "grown"
         \/ /\ b - t >= Sz(a) - 1
            /\ allocated = MaxArrays
            /\ oresult' = "nomem"
            /\ UNCHANGED <<mem, buf, allocated>>
         \/ /\ b - t < Sz(a) - 1
            /\ oresult' = "nogrow"
            /\ UNCHANGED <<mem, buf, allocated>>
  /\ UNCHANGED <<top, bottom, arr, opc, next, mayPop>>
  /\ UNCHANGED <<OwnerLocals, StealerVars, delivered>>

(***************************************************************************)
(* Owner: pop_bottom.                                                      *)
(***************************************************************************)

(* b = bottom - 1; a = underlying_array; bottom = b (a buffered store).    *)
PopBottom ==
  /\ opc = "idle" /\ (mayPop \/ Draining)
  /\ BufferRoom(1)
  /\ LET b == OBottom - 1 IN
       /\ buf' = Append(buf, Store(BottomLoc, b))
       /\ ob' = b
  /\ oa' = OArr
  /\ opc' = "pop_read_top" /\ mayPop' = FALSE
  /\ UNCHANGED <<top, bottom, arr, mem, allocated, ot, oret, oresult, next>>
  /\ UNCHANGED <<StealerVars, delivered>>

(* The end of pop_bottom once `top` is read: returns EMPTY (and the drain  *)
(* is over), an item (size > 0), or, for the last item, goes to the CAS.   *)
PopEmpty(t) ==
  /\ BufferRoom(1)
  /\ buf' = Append(buf, Store(BottomLoc, t))
  /\ oresult' = "empty"
  /\ opc' = IF Draining THEN "done" ELSE "idle"
  /\ UNCHANGED <<ot, oret, delivered>>

PopTake ==
  /\ Deliver(OSlot(oa, ob))
  /\ oresult' = OSlot(oa, ob)
  /\ opc' = "idle"
  /\ UNCHANGED <<buf, ot, oret>>

PopLast(t) ==
  /\ ot' = t /\ oret' = OSlot(oa, ob)
  /\ opc' = "pop_cas"
  /\ UNCHANGED <<buf, oresult, delivered>>

(* A variant that returns the last item without the CAS on top.            *)
PopReadTopNoCas ==
  /\ opc = "pop_read_top"
  /\ StoreLoadFence => buf = <<>>
  /\ LET t == top IN
       \/ ob - t < 0 /\ PopEmpty(t)
       \/ ob - t >= 0 /\ PopTake
  /\ UNCHANGED <<top, bottom, arr, mem, allocated, ob, oa, next, mayPop>>
  /\ UNCHANGED StealerVars

(* A variant that treats the last item (size = 0) as an empty deque.       *)
PopReadTopZeroIsEmpty ==
  /\ opc = "pop_read_top"
  /\ StoreLoadFence => buf = <<>>
  /\ LET t == top IN
       \/ ob - t <= 0 /\ PopEmpty(t)
       \/ ob - t > 0 /\ PopTake
  /\ UNCHANGED <<top, bottom, arr, mem, allocated, ob, oa, next, mayPop>>
  /\ UNCHANGED StealerVars

(* store_load_barrier(); t = top; size = b - t; then one of three ends.    *)
PopReadTop ==
  /\ opc = "pop_read_top"
  /\ StoreLoadFence => buf = <<>>
  /\ LET t == top IN
       \/ ob - t < 0 /\ PopEmpty(t)
       \/ ob - t > 0 /\ PopTake
       \/ ob - t = 0 /\ PopLast(t)
  /\ UNCHANGED <<top, bottom, arr, mem, allocated, ob, oa, next, mayPop>>
  /\ UNCHANGED StealerVars

(* A variant of PopCas that leaves bottom at b when the CAS fails.         *)
PopCasNoRestore ==
  /\ opc = "pop_cas" /\ buf = <<>>
  /\ \/ /\ top = ot
        /\ top' = ot + 1
        /\ Deliver(oret)
        /\ oresult' = oret
        /\ buf' = <<Store(BottomLoc, ot + 1)>>
     \/ /\ top # ot
        /\ oresult' = "abort"
        /\ UNCHANGED <<top, delivered, buf>>
  /\ opc' = "idle"
  /\ UNCHANGED <<bottom, arr, mem, allocated, OwnerLocals, next, mayPop>>
  /\ UNCHANGED StealerVars

(* CAS(&top, t, t + 1) (locked: the buffer is drained), bottom = t + 1;    *)
(* the item on success, WSD_ABORT when a stealer won the race.             *)
PopCas ==
  /\ opc = "pop_cas" /\ buf = <<>>
  /\ buf' = <<Store(BottomLoc, ot + 1)>>
  /\ \/ /\ top = ot
        /\ top' = ot + 1
        /\ Deliver(oret)
        /\ oresult' = oret
     \/ /\ top # ot
        /\ oresult' = "abort"
        /\ UNCHANGED <<top, delivered>>
  /\ opc' = "idle"
  /\ UNCHANGED <<bottom, arr, mem, allocated, OwnerLocals, next, mayPop>>
  /\ UNCHANGED StealerVars

(***************************************************************************)
(* Stealers: wsd_work_stealing_deque_steal, one step per shared access.    *)
(***************************************************************************)

OwnerVars == <<bottom, arr, mem, allocated, buf, opc, OwnerLocals, oresult,
               next, mayPop>>

(* t = top                                                                 *)
StealReadTop(s) ==
  /\ spc[s] = "idle"
  /\ st' = [st EXCEPT ![s] = top]
  /\ spc' = [spc EXCEPT ![s] = "read_bottom"]
  /\ UNCHANGED <<top, OwnerVars, sa, sret, delivered>>

(* load_load_barrier(); b = bottom; a = underlying_array; size <= 0 is     *)
(* WSD_EMPTY.                                                              *)
StealReadBottom(s) ==
  /\ spc[s] = "read_bottom"
  /\ \/ /\ bottom - st[s] <= 0
        /\ spc' = [spc EXCEPT ![s] = "idle"]
        /\ UNCHANGED sa
     \/ /\ bottom - st[s] > 0
        /\ sa' = [sa EXCEPT ![s] = arr]
        /\ spc' = [spc EXCEPT ![s] = "read_elem"]
  /\ UNCHANGED <<top, OwnerVars, st, sret, delivered>>

(* ret = a[t], read before the CAS.                                        *)
StealReadElem(s) ==
  /\ spc[s] = "read_elem"
  /\ sret' = [sret EXCEPT ![s] = mem[sa[s]][Slot(sa[s], st[s])]]
  /\ spc' = [spc EXCEPT ![s] = "cas"]
  /\ UNCHANGED <<top, OwnerVars, st, sa, delivered>>

(* A variant of StealCas that stores top = t + 1 without comparing.        *)
StealCasUnchecked(s) ==
  /\ spc[s] = "cas"
  /\ top' = st[s] + 1
  /\ Deliver(sret[s])
  /\ spc' = [spc EXCEPT ![s] = "idle"]
  /\ UNCHANGED <<OwnerVars, st, sa, sret>>

(* CAS(&top, t, t + 1): ret on success, WSD_ABORT on failure.              *)
StealCas(s) ==
  /\ spc[s] = "cas"
  /\ \/ /\ top = st[s]
        /\ top' = st[s] + 1
        /\ Deliver(sret[s])
     \/ /\ top # st[s]
        /\ UNCHANGED <<top, delivered>>
  /\ spc' = [spc EXCEPT ![s] = "idle"]
  /\ UNCHANGED <<OwnerVars, st, sa, sret>>

(***************************************************************************)
(* The store buffer drains its oldest store into memory.                   *)
(***************************************************************************)
Flush ==
  /\ buf # <<>>
  /\ LET e == Head(buf) IN
       /\ bottom' = IF e.loc = BottomLoc THEN e.val ELSE bottom
       /\ arr' = IF e.loc = ArrLoc THEN e.val ELSE arr
       /\ mem' = IF e.loc[1] = "slot"
                   THEN [mem EXCEPT ![e.loc[2]][e.loc[3]] = e.val]
                   ELSE mem
  /\ buf' = Tail(buf)
  /\ UNCHANGED <<top, allocated, opc, OwnerLocals, oresult, next, mayPop>>
  /\ UNCHANGED <<StealerVars, delivered>>

OwnerNext ==
  \/ PushBottomFull \/ PushBottom \/ Grow
  \/ PushBottomAutoGrow \/ PushBottomAutoGrowFail \/ PushBottomAutoGrowNoGrow
  \/ PopBottom \/ PopReadTop \/ PopCas

StealerNext(s) ==
  StealReadTop(s) \/ StealReadBottom(s) \/ StealReadElem(s) \/ StealCas(s)

Next ==
  \/ OwnerNext
  \/ \E s \in Stealers : StealerNext(s)
  \/ Flush

Spec == Init /\ [][Next]_vars

(* The owner thread runs its loop and the hardware drains store buffers;   *)
(* stealers get no fairness: the drain must finish whatever they do.       *)
FairSpec == Spec /\ WF_vars(OwnerNext) /\ WF_vars(Flush)

(***************************************************************************)
(* Properties                                                              *)
(***************************************************************************)

TypeOK ==
  /\ top \in Nat /\ bottom \in Int /\ arr \in ArrayIds
  /\ allocated \in 1..MaxArrays
  /\ \A k \in ArrayIds : mem[k] \in [0..Sz(k) - 1 -> {NoItem} \cup Items]
  /\ buf \in Seq([loc : {BottomLoc, ArrLoc} \cup ({"slot"} \X ArrayIds \X Nat),
                  val : Int])
  /\ opc \in {"idle", "pop_read_top", "pop_cas", "done"}
  /\ next \in 1..MaxPush + 1 /\ mayPop \in BOOLEAN
  /\ spc \in [Stealers -> {"idle", "read_bottom", "read_elem", "cas"}]
  /\ st \in [Stealers -> Nat] /\ sa \in [Stealers -> ArrayIds]
  /\ sret \in [Stealers -> {NoItem} \cup Items]
  /\ delivered \in [{NoItem} \cup Items -> Nat]

(* No item is returned twice, by pop_bottom or steal, and no thread is     *)
(* ever handed the content of a slot that was never pushed: the race of    *)
(* pop_bottom's bottom store and top load against a stealer's top and      *)
(* bottom loads (the per-item sum of 1 asserted by wsd_test.c).            *)
DeliveredAtMostOnce ==
  /\ delivered[NoItem] = 0
  /\ \A i \in Items : delivered[i] <= 1

(* The items the owner sees in its deque, positions top..bottom-1 of its   *)
(* array.                                                                  *)
Held(i) == Cardinality({j \in top..OBottom - 1 : OSlot(OArr, j) = i})

(* Between owner operations every pushed item is either still in the      *)
(* deque or was delivered, exactly once: push, grow (the copy of t..b-1),  *)
(* pop and steal together lose nothing and duplicate nothing.              *)
ExactlyOnce ==
  opc \in {"idle", "done"} =>
    \A i \in 1..next - 1 : delivered[i] + Held(i) = 1

(* The drain loop of the owner (pop until EMPTY) ends with every item      *)
(* delivered exactly once, whatever the stealers do: an ABORT of           *)
(* pop_bottom always means some thread got the item.                       *)
EventuallyAllDelivered == <>[](\A i \in Items : delivered[i] = 1)

=============================================================================
