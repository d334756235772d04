---------------------------- MODULE MpmcRingQueue ----------------------------
(***************************************************************************)
(* The bounded multi-producer multi-consumer ring queue of                 *)
(* src/mpmc_ring_queue.c (Vyukov's design): slot j holds a sequence number *)
(* seq[j] and a payload data[j]; put_pos and get_pos are free-running      *)
(* size_t counters, here words of WordBits bits.  Each thread performs one *)
(* atomic access per step; the acquire/release pairs on seq make the       *)
(* payload store and load ordered around it, which the step order gives.   *)
(*                                                                         *)
(* The counters start at StartPos, the state after StartPos completed      *)
(* enqueue/dequeue pairs on a queue created by mpmc_ring_queue_new, so a   *)
(* short run crosses the 2^WordBits wrap-around.                           *)
(*                                                                         *)
(* Ghost state: enqLog lists the items in the order their producers won    *)
(* the CAS on put_pos, returned[k] is the item the consumer that won the   *)
(* k-th CAS on get_pos returned.                                           *)
(***************************************************************************)
EXTENDS Integers, Sequences, FiniteSets

CONSTANTS
  Producers,   \* producer threads (model values)
  Consumers,   \* consumer threads (model values)
  Capacity,    \* q_size: a power of two > 1
  WordBits,    \* width of size_t
  StartPos,    \* initial value of put_pos = get_pos
  MaxItems     \* the producers enqueue the items 1..MaxItems

Word == 2 ^ WordBits

ASSUME Capacity \in Nat /\ Word % Capacity = 0
ASSUME StartPos \in 0..Word - 1 /\ MaxItems \in Nat \ {0}
(* No counter can come back to a value a thread loaded: the counters move  *)
(* at most 2 * MaxItems times, far less than the 2^WordBits of a wrap.     *)
ASSUME 2 * MaxItems < Word \div 2

Items   == 1..MaxItems
NoItem  == 0               \* a payload that is not (or no longer) an item
NotYet  == -1              \* returned[k] before the k-th dequeue returns
Slots   == 0..Capacity - 1
CapMod  == Capacity - 1    \* q->capacity_mod

(* size_t addition and the (ssize_t)a - (ssize_t)b of the code: the        *)
(* difference of two words as a two's complement signed word.             *)
AddW(x, n)  == (x + n) % Word
SDiff(x, y) == LET d == (x - y) % Word
               IN  IF d >= Word \div 2 THEN d - Word ELSE d

(* pos & capacity_mod: Capacity divides Word, so this is pos mod Capacity. *)
Index(pos) == pos % Capacity

(* The size helpers of queuedef.c, on the same size_t.                     *)
SizeHelpers == INSTANCE QueueDef

VARIABLES
  putPos, getPos,     \* q->put_pos, q->get_pos
  seq, data,          \* q->msgs[j].seq, q->msgs[j].d
  ppc, ppos, pitem,   \* producer: pc, local put_pos, the item it enqueues
  cpc, cpos, cret,    \* consumer: pc, local get_pos, the payload it read
  cidx,               \* consumer: the number of its won get_pos CAS
  opc, oput, oget,    \* observer: pc, loaded put/get_pos
  ofree,              \* the last value free_relaxed returned
  oempty, ofull,      \* the last values empty and full returned
  nextItem,           \* the next fresh item a producer takes
  enqLog, returned,   \* ghost: see above
  mpc,                \* main thread: "run", "delete", "done"
  held,               \* ghost: the queue's items when delete began
  freed               \* main thread: payloads delete freed, in order

vars == <<putPos, getPos, seq, data, ppc, ppos, pitem, cpc, cpos, cret, cidx,
          opc, oput, oget, ofree, oempty, ofull, nextItem, enqLog, returned,
          mpc, held, freed>>

ProducerVars == <<ppc, ppos, pitem, nextItem, enqLog>>
ConsumerVars == <<cpc, cpos, cret, cidx, returned>>
ObserverVars == <<opc, oput, oget, ofree, oempty, ofull>>
MainVars     == <<mpc, held, freed>>

(* Number of CAS on get_pos won so far.                                    *)
DeqCount == (getPos - StartPos) % Word

(* mpmc_ring_queue_new, then StartPos enqueue/dequeue pairs: slot j is     *)
(* free for the first position >= StartPos that maps to it.  When        *)
(* queue_size_is_valid rejects q_size, new returns NULL and there is no    *)
(* queue: no initial state.                                                *)
Init ==
  /\ SizeHelpers!QueueSizeIsValid(Capacity) = "QERR_OK"
  /\ putPos = StartPos /\ getPos = StartPos
  /\ seq = [j \in Slots |-> AddW(StartPos, (j - StartPos) % Capacity)]
  /\ data = [j \in Slots |-> NoItem]
  /\ ppc = [p \in Producers |-> "idle"]
  /\ ppos = [p \in Producers |-> StartPos]
  /\ pitem = [p \in Producers |-> NoItem]
  /\ cpc = [c \in Consumers |-> "idle"]
  /\ cpos = [c \in Consumers |-> StartPos]
  /\ cret = [c \in Consumers |-> NoItem]
  /\ cidx = [c \in Consumers |-> 0]
  /\ opc = "idle" /\ oput = StartPos /\ oget = StartPos /\ ofree = Capacity
  /\ oempty = 1 /\ ofull = 0
  /\ nextItem = 1
  /\ enqLog = <<>>
  /\ returned = [k \in Items |-> NotYet]
  /\ mpc = "run" /\ held = <<>> /\ freed = <<>>

(***************************************************************************)
(* mpmc_ring_queue_enqueue                                                 *)
(***************************************************************************)

(* put_pos = load(&q->put_pos), for a fresh item or one that found the     *)
(* queue full before.                                                      *)
EnqStart(p) ==
  /\ ppc[p] = "idle" /\ mpc = "run"
  /\ pitem[p] = NoItem => nextItem <= MaxItems
  /\ IF pitem[p] = NoItem
       THEN pitem' = [pitem EXCEPT ![p] = nextItem] /\ nextItem' = nextItem + 1
       ELSE UNCHANGED <<pitem, nextItem>>
  /\ ppos' = [ppos EXCEPT ![p] = putPos]
  /\ ppc' = [ppc EXCEPT ![p] = "load_seq"]
  /\ UNCHANGED <<putPos, getPos, seq, data, enqLog>>
  /\ UNCHANGED <<ConsumerVars, ObserverVars, MainVars>>

(* A variant of EnqLoadSeq that also claims a slot whose seq is behind     *)
(* put_pos (dif <= 0) instead of reporting QERR_FULL.                      *)
EnqLoadSeqNoFull(p) ==
  /\ ppc[p] = "load_seq"
  /\ LET dif == SDiff(seq[Index(ppos[p])], ppos[p]) IN
       \/ dif <= 0 /\ ppc' = [ppc EXCEPT ![p] = "cas"] /\ UNCHANGED ppos
       \/ dif > 0 /\ ppos' = [ppos EXCEPT ![p] = putPos] /\ UNCHANGED ppc
  /\ UNCHANGED <<putPos, getPos, seq, data, pitem, nextItem, enqLog>>
  /\ UNCHANGED <<ConsumerVars, ObserverVars, MainVars>>

(* seq = load_acquire(&msg->seq); dif = seq - put_pos: 0 goes to the CAS,  *)
(* < 0 returns QERR_FULL, > 0 reloads put_pos.                             *)
EnqLoadSeq(p) ==
  /\ ppc[p] = "load_seq"
  /\ LET dif == SDiff(seq[Index(ppos[p])], ppos[p]) IN
       \/ dif = 0 /\ ppc' = [ppc EXCEPT ![p] = "cas"] /\ UNCHANGED ppos
       \/ dif < 0 /\ ppc' = [ppc EXCEPT ![p] = "idle"] /\ UNCHANGED ppos
       \/ dif > 0 /\ ppos' = [ppos EXCEPT ![p] = putPos] /\ UNCHANGED ppc
  /\ UNCHANGED <<putPos, getPos, seq, data, pitem, nextItem, enqLog>>
  /\ UNCHANGED <<ConsumerVars, ObserverVars, MainVars>>

(* compare_exchange_weak(&q->put_pos, &put_pos, put_pos + 1): success, a   *)
(* spurious failure, or a failure that reloads put_pos; both go back to    *)
(* the loop.                                                               *)
EnqCas(p) ==
  /\ ppc[p] = "cas"
  /\ \/ /\ putPos = ppos[p]
        /\ putPos' = AddW(ppos[p], 1)
        /\ enqLog' = Append(enqLog, pitem[p])
        /\ ppc' = [ppc EXCEPT ![p] = "write"]
        /\ UNCHANGED ppos
     \/ /\ ppc' = [ppc EXCEPT ![p] = "load_seq"]
        /\ ppos' = [ppos EXCEPT ![p] = putPos]
        /\ UNCHANGED <<putPos, enqLog>>
  /\ UNCHANGED <<getPos, seq, data, pitem, nextItem>>
  /\ UNCHANGED <<ConsumerVars, ObserverVars, MainVars>>

(* msg->d = m                                                              *)
EnqWrite(p) ==
  /\ ppc[p] = "write"
  /\ data' = [data EXCEPT ![Index(ppos[p])] = pitem[p]]
  /\ ppc' = [ppc EXCEPT ![p] = "publish"]
  /\ UNCHANGED <<putPos, getPos, seq, ppos, pitem, nextItem, enqLog>>
  /\ UNCHANGED <<ConsumerVars, ObserverVars, MainVars>>

(* store_release(&msg->seq, put_pos + 1); return QERR_OK                   *)
EnqPublish(p) ==
  /\ ppc[p] = "publish"
  /\ seq' = [seq EXCEPT ![Index(ppos[p])] = AddW(ppos[p], 1)]
  /\ ppc' = [ppc EXCEPT ![p] = "idle"]
  /\ pitem' = [pitem EXCEPT ![p] = NoItem]
  /\ UNCHANGED <<putPos, getPos, data, ppos, nextItem, enqLog>>
  /\ UNCHANGED <<ConsumerVars, ObserverVars, MainVars>>

(***************************************************************************)
(* mpmc_ring_queue_dequeue                                                 *)
(***************************************************************************)

(* get_pos = load(&q->get_pos)                                             *)
DeqStart(c) ==
  /\ cpc[c] = "idle" /\ mpc = "run"
  /\ cpos' = [cpos EXCEPT ![c] = getPos]
  /\ cpc' = [cpc EXCEPT ![c] = "load_seq"]
  /\ UNCHANGED <<putPos, getPos, seq, data, cret, cidx, returned>>
  /\ UNCHANGED <<ProducerVars, ObserverVars, MainVars>>

(* A variant of DeqLoadSeq that compares seq with get_pos, not get_pos + 1. *)
DeqLoadSeqOffByOne(c) ==
  /\ cpc[c] = "load_seq"
  /\ LET dif == SDiff(seq[Index(cpos[c])], cpos[c]) IN
       \/ dif = 0 /\ cpc' = [cpc EXCEPT ![c] = "cas"] /\ UNCHANGED cpos
       \/ dif < 0 /\ cpc' = [cpc EXCEPT ![c] = "idle"] /\ UNCHANGED cpos
       \/ dif > 0 /\ cpos' = [cpos EXCEPT ![c] = getPos] /\ UNCHANGED cpc
  /\ UNCHANGED <<putPos, getPos, seq, data, cret, cidx, returned>>
  /\ UNCHANGED <<ProducerVars, ObserverVars, MainVars>>

(* seq = load_acquire(&msg->seq); dif = seq - (get_pos + 1): 0 goes to the *)
(* CAS, < 0 returns NULL (empty), > 0 reloads get_pos.                     *)
DeqLoadSeq(c) ==
  /\ cpc[c] = "load_seq"
  /\ LET dif == SDiff(seq[Index(cpos[c])], AddW(cpos[c], 1)) IN
       \/ dif = 0 /\ cpc' = [cpc EXCEPT ![c] = "cas"] /\ UNCHANGED cpos
       \/ dif < 0 /\ cpc' = [cpc EXCEPT ![c] = "idle"] /\ UNCHANGED cpos
       \/ dif > 0 /\ cpos' = [cpos EXCEPT ![c] = getPos] /\ UNCHANGED cpc
  /\ UNCHANGED <<putPos, getPos, seq, data, cret, cidx, returned>>
  /\ UNCHANGED <<ProducerVars, ObserverVars, MainVars>>

(* compare_exchange_weak(&q->get_pos, &get_pos, get_pos + 1)               *)
DeqCas(c) ==
  /\ cpc[c] = "cas"
  /\ \/ /\ getPos = cpos[c]
        /\ getPos' = AddW(cpos[c], 1)
        /\ cidx' = [cidx EXCEPT ![c] = DeqCount + 1]
        /\ cpc' = [cpc EXCEPT ![c] = "read"]
        /\ UNCHANGED cpos
     \/ /\ cpc' = [cpc EXCEPT ![c] = "load_seq"]
        /\ cpos' = [cpos EXCEPT ![c] = getPos]
        /\ UNCHANGED <<getPos, cidx>>
  /\ UNCHANGED <<putPos, seq, data, cret, returned>>
  /\ UNCHANGED <<ProducerVars, ObserverVars, MainVars>>

(* m = msg->d                                                              *)
DeqRead(c) ==
  /\ cpc[c] = "read"
  /\ cret' = [cret EXCEPT ![c] = data[Index(cpos[c])]]
  /\ cpc' = [cpc EXCEPT ![c] = "free"]
  /\ UNCHANGED <<putPos, getPos, seq, data, cpos, cidx, returned>>
  /\ UNCHANGED <<ProducerVars, ObserverVars, MainVars>>

(* store_release(&msg->seq, next + capacity_mod); return m                 *)
DeqFree(c) ==
  /\ cpc[c] = "free"
  /\ seq' = [seq EXCEPT ![Index(cpos[c])] = AddW(AddW(cpos[c], 1), CapMod)]
  /\ returned' = [returned EXCEPT ![cidx[c]] = cret[c]]
  /\ cpc' = [cpc EXCEPT ![c] = "idle"]
  /\ UNCHANGED <<putPos, getPos, data, cpos, cret, cidx>>
  /\ UNCHANGED <<ProducerVars, ObserverVars, MainVars>>

(***************************************************************************)
(* mpmc_ring_queue_free_relaxed, mpmc_ring_queue_empty and                 *)
(* mpmc_ring_queue_full, called by one observer thread.                    *)
(***************************************************************************)

(* put_pos = load(&q->put_pos)                                             *)
ObsLoadPut ==
  /\ opc = "idle" /\ mpc = "run"
  /\ oput' = putPos
  /\ opc' = "load_get"
  /\ UNCHANGED <<putPos, getPos, seq, data, oget, ofree, oempty, ofull>>
  /\ UNCHANGED <<ProducerVars, ConsumerVars, MainVars>>

(* A variant of ObsLoadGet that computes the free count as a signed number. *)
ObsLoadGetSigned ==
  /\ opc = "load_get"
  /\ oget' = getPos
  /\ \/ /\ getPos = oput
        /\ opc' = "load_seq"
        /\ UNCHANGED ofree
     \/ /\ getPos # oput
        /\ ofree' = Capacity - (oput - getPos)
        /\ opc' = "idle"
  /\ UNCHANGED <<putPos, getPos, seq, data, oput, oempty, ofull>>
  /\ UNCHANGED <<ProducerVars, ConsumerVars, MainVars>>

(* get_pos = load(&q->get_pos); if they differ return                      *)
(* size - (put_pos - get_pos) in size_t arithmetic.                        *)
ObsLoadGet ==
  /\ opc = "load_get"
  /\ oget' = getPos
  /\ \/ /\ getPos = oput
        /\ opc' = "load_seq"
        /\ UNCHANGED ofree
     \/ /\ getPos # oput
        /\ ofree' = AddW(Capacity, Word - AddW(oput, Word - getPos))
        /\ opc' = "idle"
  /\ UNCHANGED <<putPos, getPos, seq, data, oput, oempty, ofull>>
  /\ UNCHANGED <<ProducerVars, ConsumerVars, MainVars>>

(* equal positions: the queue is empty (size) if the slot's seq is         *)
(* get_pos, else full (0).                                                 *)
ObsLoadSeq ==
  /\ opc = "load_seq"
  /\ ofree' = IF seq[Index(oget)] = oget THEN Capacity ELSE 0
  /\ opc' = "idle"
  /\ UNCHANGED <<putPos, getPos, seq, data, oput, oget, oempty, ofull>>
  /\ UNCHANGED <<ProducerVars, ConsumerVars, MainVars>>

(* empty: get_pos = load(&q->get_pos)                                      *)
ObsEmptyLoadGet ==
  /\ opc = "idle" /\ mpc = "run"
  /\ oget' = getPos
  /\ opc' = "empty_seq"
  /\ UNCHANGED <<putPos, getPos, seq, data, oput, ofree, oempty, ofull>>
  /\ UNCHANGED <<ProducerVars, ConsumerVars, MainVars>>

(* A variant of ObsEmptyLoadSeq that compares seq with get_pos.           *)
ObsEmptyLoadSeqNoPlusOne ==
  /\ opc = "empty_seq"
  /\ oempty' = IF seq[Index(oget)] = oget THEN 0 ELSE 1
  /\ opc' = "idle"
  /\ UNCHANGED <<putPos, getPos, seq, data, oput, oget, ofree, ofull>>
  /\ UNCHANGED <<ProducerVars, ConsumerVars, MainVars>>

(* seq = load(&msgs[get_pos & capacity_mod].seq);                          *)
(* return !(seq == get_pos + 1).                                           *)
ObsEmptyLoadSeq ==
  /\ opc = "empty_seq"
  /\ oempty' = IF seq[Index(oget)] = AddW(oget, 1) THEN 0 ELSE 1
  /\ opc' = "idle"
  /\ UNCHANGED <<putPos, getPos, seq, data, oput, oget, ofree, ofull>>
  /\ UNCHANGED <<ProducerVars, ConsumerVars, MainVars>>

(* full: put_pos = load(&q->put_pos)                                       *)
ObsFullLoadPut ==
  /\ opc = "idle" /\ mpc = "run"
  /\ oput' = putPos
  /\ opc' = "full_seq"
  /\ UNCHANGED <<putPos, getPos, seq, data, oget, ofree, oempty, ofull>>
  /\ UNCHANGED <<ProducerVars, ConsumerVars, MainVars>>

(* seq = load(&msgs[put_pos & capacity_mod].seq); return seq != put_pos.   *)
ObsFullLoadSeq ==
  /\ opc = "full_seq"
  /\ ofull' = IF seq[Index(oput)] # oput THEN 1 ELSE 0
  /\ opc' = "idle"
  /\ UNCHANGED <<putPos, getPos, seq, data, oput, oget, ofree, oempty>>
  /\ UNCHANGED <<ProducerVars, ConsumerVars, MainVars>>

(* The abstract queue: the items whose put_pos CAS won and whose get_pos   *)
(* CAS has not yet been won, in claim order.                               *)
Abstract == SubSeq(enqLog, DeqCount + 1, Len(enqLog))

(***************************************************************************)
(* Teardown: the main thread joins the threads once the producers have    *)
(* enqueued every item and no call is in progress, then calls             *)
(* mpmc_ring_queue_delete: mpmc_ring_queue_dequeue until NULL, freeing     *)
(* each payload, then mpmc_ring_queue_destroy.  The threads start no more *)
(* calls once joined.                                                      *)
(***************************************************************************)

Join ==
  /\ mpc = "run" /\ opc = "idle"
  /\ \A p \in Producers : ppc[p] = "idle" /\ pitem[p] = NoItem
  /\ \A c \in Consumers : cpc[c] = "idle"
  /\ nextItem > MaxItems
  /\ mpc' = "delete"
  /\ held' = Abstract
  /\ UNCHANGED <<putPos, getPos, seq, data, freed>>
  /\ UNCHANGED <<ProducerVars, ConsumerVars, ObserverVars>>

(* dequeue with no other thread: seq == get_pos + 1, so the CAS wins (a    *)
(* spurious failure of the weak CAS only repeats it); m = msg->d, the slot *)
(* is released for the next lap, and free(m).                              *)
DeletePop ==
  /\ mpc = "delete"
  /\ seq[Index(getPos)] = AddW(getPos, 1)
  /\ getPos' = AddW(getPos, 1)
  /\ seq' = [seq EXCEPT ![Index(getPos)] = AddW(AddW(getPos, 1), CapMod)]
  /\ freed' = Append(freed, data[Index(getPos)])
  /\ UNCHANGED <<putPos, data, mpc, held>>
  /\ UNCHANGED <<ProducerVars, ConsumerVars, ObserverVars>>

(* Mutant: destroy without the dequeue loop (as mpmc_ring_queue_test.c     *)
(* does with items left).                                                  *)
DeleteDestroyUndrained ==
  /\ mpc = "delete"
  /\ mpc' = "done"
  /\ UNCHANGED <<putPos, getPos, seq, data, held, freed>>
  /\ UNCHANGED <<ProducerVars, ConsumerVars, ObserverVars>>

(* dequeue returned NULL (dif < 0): mpmc_ring_queue_destroy frees msgs and *)
(* the queue.                                                              *)
DeleteDestroy ==
  /\ mpc = "delete"
  /\ SDiff(seq[Index(getPos)], AddW(getPos, 1)) < 0
  /\ mpc' = "done"
  /\ UNCHANGED <<putPos, getPos, seq, data, held, freed>>
  /\ UNCHANGED <<ProducerVars, ConsumerVars, ObserverVars>>

(* delete has returned; the program ends.                                  *)
Terminated == mpc = "done" /\ UNCHANGED vars

(***************************************************************************)
(* Specification                                                           *)
(***************************************************************************)

Next ==
  \/ \E p \in Producers :
       EnqStart(p) \/ EnqLoadSeq(p) \/ EnqCas(p) \/ EnqWrite(p) \/ EnqPublish(p)
  \/ \E c \in Consumers :
       DeqStart(c) \/ DeqLoadSeq(c) \/ DeqCas(c) \/ DeqRead(c) \/ DeqFree(c)
  \/ ObsLoadPut \/ ObsLoadGet \/ ObsLoadSeq
  \/ ObsEmptyLoadGet \/ ObsEmptyLoadSeq \/ ObsFullLoadPut \/ ObsFullLoadSeq
  \/ Join \/ DeletePop \/ DeleteDestroy \/ Terminated

Spec == Init /\ [][Next]_vars

(***************************************************************************)
(* Properties                                                              *)
(***************************************************************************)

TypeOK ==
  /\ putPos \in 0..Word - 1 /\ getPos \in 0..Word - 1
  /\ seq \in [Slots -> 0..Word - 1]
  /\ data \in [Slots -> {NoItem} \cup Items]
  /\ ppc \in [Producers -> {"idle", "load_seq", "cas", "write", "publish"}]
  /\ ppos \in [Producers -> 0..Word - 1]
  /\ pitem \in [Producers -> {NoItem} \cup Items]
  /\ cpc \in [Consumers -> {"idle", "load_seq", "cas", "read", "free"}]
  /\ cpos \in [Consumers -> 0..Word - 1]
  /\ cret \in [Consumers -> {NoItem} \cup Items]
  /\ cidx \in [Consumers -> 0..MaxItems]
  /\ opc \in {"idle", "load_get", "load_seq", "empty_seq", "full_seq"}
  /\ oempty \in {0, 1} /\ ofull \in {0, 1}
  /\ oput \in 0..Word - 1 /\ oget \in 0..Word - 1 /\ ofree \in 0..Word - 1
  /\ nextItem \in 1..MaxItems + 1
  /\ enqLog \in Seq(Items)
  /\ returned \in [Items -> {NotYet, NoItem} \cup Items]
  /\ mpc \in {"run", "delete", "done"} /\ freed \in Seq({NoItem} \cup Items)

(* The queue is FIFO in the order of the CAS on the counters: the consumer *)
(* that won the k-th CAS on get_pos returns exactly the item of the        *)
(* producer that won the k-th CAS on put_pos, even when the two claimed    *)
(* their slot long before writing or reading it, and across the wrap of    *)
(* the counters (the seq handshake of enqueue and dequeue).                *)
FifoByClaimOrder ==
  \A k \in Items :
    returned[k] # NotYet => k <= Len(enqLog) /\ returned[k] = enqLog[k]

(* mpmc_ring_queue.h: free_relaxed is "not full consistent" and "can return *)
(* 0 if queue is full or capacity if queue is empty": its value is always  *)
(* a number of free slots, 0..capacity.                                    *)
FreeRelaxedInRange == ofree \in 0..Capacity

AbstractQueue == INSTANCE BoundedFifo WITH queue <- Abstract

(* The ring queue implements a bounded FIFO queue of Capacity items.       *)
RefinesBoundedFifo == AbstractQueue!Spec

(* mpmc_ring_queue_delete frees exactly the items the queue held when the *)
(* threads were joined, once each and in queue order: its dequeue loop    *)
(* finds every slot a producer published and stops only at the first slot *)
(* whose seq says it is free, whatever lap and counter wrap it is on.      *)
DeleteFreesHeldItems == mpc = "done" => freed = held

(* The queue as mpmc_ring_queue_new leaves it: no call has started.       *)
Created ==
  /\ nextItem = 1 /\ putPos = StartPos /\ getPos = StartPos
  /\ \A p \in Producers : ppc[p] = "idle"
  /\ \A c \in Consumers : cpc[c] = "idle" /\ cidx[c] = 0
  /\ opc = "idle"

(* The size check mpmc_ring_queue_new relies on, on every size_t of        *)
(* WordBits bits: queue_size_is_valid accepts exactly the powers of two    *)
(* above 1.  It is checked when the queue has just been created.           *)
ValidSizesArePowersAbove1 == Created => SizeHelpers!ValidSizesArePowersAbove1

(* No producer or consumer is inside enqueue or dequeue.                   *)
Quiet == (\A p \in Producers : ppc[p] = "idle") /\ (\A c \in Consumers : cpc[c] = "idle")

(* mpmc_ring_queue_test.c asserts empty() and full() after each call of a  *)
(* single thread.  With concurrent callers they may be stale, but a call  *)
(* whose loaded position is still current, made while no enqueue or       *)
(* dequeue is in progress, reports exactly whether the queue is empty or   *)
(* holds Capacity items: the seq numbers encode the queue's state at every *)
(* lap, across the wrap of the counters.                                   *)
QueriesExactWhenQuiet ==
  [][ /\ (opc = "empty_seq" /\ opc' = "idle" /\ Quiet /\ oget = getPos)
           => ((oempty' = 1) <=> (Len(Abstract) = 0))
      /\ (opc = "full_seq" /\ opc' = "idle" /\ Quiet /\ oput = putPos)
           => ((ofull' = 1) <=> (Len(Abstract) = Capacity)) ]_vars

(* mpmc_ring_queue.h, mpmc_ring_queue_new: "a maximum of q_size - 1        *)
(* elements can actually be stored in the queue".                          *)
HeaderCapacityBound == Len(Abstract) <= Capacity - 1

=============================================================================
