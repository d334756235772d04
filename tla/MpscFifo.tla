------------------------------- MODULE MpscFifo -------------------------------
(***************************************************************************)
(* The intrusive multi-producer single-consumer FIFO of                    *)
(* include/concurrent/mpsc_fifo.h.  The list always holds a sentinel: the *)
(* consumer reads from head->next, producers swap their node into tail     *)
(* with an atomic exchange and only then link the previous tail to it.     *)
(*                                                                         *)
(* Nodes come from a pool, as with malloc/free in mpsc_test.c: a producer  *)
(* takes a node from `pool`, sets its data and pushes it; the node         *)
(* mpsc_fifo_trypop returns (the old sentinel, now carrying the data) is   *)
(* freed back into `pool`, so nodes are reused.  Producer p pushes the     *)
(* items <<p, 1>> .. <<p, PerProducer>>.                                   *)
(*                                                                         *)
(* The producer's plain stores of node->data (mpsc_test.c) and            *)
(* node->next = NULL wait in `pend` until they reach memory.  The         *)
(* constant ExchangeDrainsStores says whether the __ATOMIC_ACQUIRE         *)
(* exchange on tail makes them visible first: it does when it compiles to *)
(* x86 lock xchg, a full fence; under the C11 model (and on weakly         *)
(* ordered builds) an acquire exchange orders only later accesses, and the *)
(* link prev_tail->next is a plain store, so they may become visible       *)
(* after the link.  The consumer reads memory.                             *)
(*                                                                         *)
(* The consumer is the main thread of mpsc_test.c: it pops every item,     *)
(* joins the producers and calls mpsc_fifo_destroy.                        *)
(***************************************************************************)
EXTENDS Integers, Sequences, SequencesExt, FiniteSets

CONSTANTS
  Producers,     \* producer threads (model values)
  PerProducer,   \* items each producer pushes
  Nodes,         \* node addresses; one is the initial sentinel
  Null,          \* the NULL pointer (a model value)
  ExchangeDrainsStores  \* the exchange on tail publishes earlier stores

ASSUME PerProducer \in Nat \ {0} /\ Null \notin Nodes
ASSUME ExchangeDrainsStores \in BOOLEAN

Items  == Producers \X (1..PerProducer)
NoItem == <<>>            \* the data of a node carrying no item

VARIABLES
  head, tail,     \* f->head, f->tail
  nxt, ndata,     \* node->next, node->data
  pool,           \* nodes free for a producer to take (malloc)
  ppc,            \* producer: "idle", "xchg", "link", "done"
  pnode, pprev,   \* producer: its new node, the tail its exchange returned
  pend,           \* producer: its stores to pnode not yet in memory
  sent,           \* producer: items it has taken so far
  cpeek,          \* consumer: data of the last successful peek, else NoItem
  lastPop,        \* consumer: [peeked, got] of its last trypop
  xchgLog,        \* ghost: items in the order of their exchange on tail
  popped,         \* ghost: items in the order trypop returned them
  mpc             \* main thread: "loop" (popping), "done" (destroyed)

vars == <<head, tail, nxt, ndata, pool, ppc, pnode, pprev, pend, sent, cpeek,
          lastPop, xchgLog, popped, mpc>>

Sentinel == CHOOSE n \in Nodes : TRUE

(* mpsc_fifo_init: one calloc'd node, head = tail = it.                    *)
Init ==
  /\ head = Sentinel /\ tail = Sentinel
  /\ nxt = [n \in Nodes |-> Null]
  /\ ndata = [n \in Nodes |-> NoItem]
  /\ pool = Nodes \ {Sentinel}
  /\ ppc = [p \in Producers |-> "idle"]
  /\ pnode = [p \in Producers |-> Null]
  /\ pprev = [p \in Producers |-> Null]
  /\ pend = [p \in Producers |-> {}]
  /\ sent = [p \in Producers |-> 0]
  /\ cpeek = NoItem
  /\ lastPop = [peeked |-> NoItem, got |-> NoItem]
  /\ xchgLog = <<>> /\ popped = <<>>
  /\ mpc = "loop"

ConsumerVars == <<cpeek, lastPop, popped, mpc>>

(***************************************************************************)
(* mpsc_fifo_push                                                          *)
(***************************************************************************)

(* Mutant: push leaves next as the recycled node had it.                  *)
PushStartNoReset(p) ==
  /\ ppc[p] = "idle" /\ sent[p] < PerProducer /\ pend[p] = {}
  /\ \E n \in pool :
       /\ pool' = pool \ {n}
       /\ pnode' = [pnode EXCEPT ![p] = n]
  /\ pend' = [pend EXCEPT ![p] = {"data"}]
  /\ sent' = [sent EXCEPT ![p] = @ + 1]
  /\ ppc' = [ppc EXCEPT ![p] = "xchg"]
  /\ UNCHANGED <<head, tail, nxt, ndata, pprev, xchgLog, ConsumerVars>>

(* The caller mallocs a node and stores its data; push stores next = NULL. *)
PushStart(p) ==
  /\ ppc[p] = "idle" /\ sent[p] < PerProducer /\ pend[p] = {}
  /\ \E n \in pool :
       /\ pool' = pool \ {n}
       /\ pnode' = [pnode EXCEPT ![p] = n]
  /\ pend' = [pend EXCEPT ![p] = {"data", "next"}]
  /\ sent' = [sent EXCEPT ![p] = @ + 1]
  /\ ppc' = [ppc EXCEPT ![p] = "xchg"]
  /\ UNCHANGED <<head, tail, nxt, ndata, pprev, xchgLog, ConsumerVars>>

(* One of those stores reaches memory: data = the item, or next = NULL.    *)
StoreVisible(p) ==
  /\ \E f \in pend[p] :
       /\ pend' = [pend EXCEPT ![p] = @ \ {f}]
       /\ IF f = "data"
            THEN ndata' = [ndata EXCEPT ![pnode[p]] = <<p, sent[p]>>] /\ UNCHANGED nxt
            ELSE nxt' = [nxt EXCEPT ![pnode[p]] = Null] /\ UNCHANGED ndata
  /\ UNCHANGED <<head, tail, pool, ppc, pnode, pprev, sent, xchgLog>>
  /\ UNCHANGED ConsumerVars

(* Mutant: the tail is read but not replaced (a load, not an exchange).   *)
PushXchgNoTailUpdate(p) ==
  /\ ppc[p] = "xchg"
  /\ ExchangeDrainsStores => pend[p] = {}
  /\ pprev' = [pprev EXCEPT ![p] = tail]
  /\ xchgLog' = Append(xchgLog, <<p, sent[p]>>)
  /\ ppc' = [ppc EXCEPT ![p] = "link"]
  /\ UNCHANGED <<head, tail, nxt, ndata, pool, pnode, pend, sent, ConsumerVars>>

(* prev_tail = __atomic_exchange_n(&f->tail, new_node, __ATOMIC_ACQUIRE)   *)
PushXchg(p) ==
  /\ ppc[p] = "xchg"
  /\ ExchangeDrainsStores => pend[p] = {}
  /\ pprev' = [pprev EXCEPT ![p] = tail]
  /\ tail' = pnode[p]
  /\ xchgLog' = Append(xchgLog, <<p, sent[p]>>)
  /\ ppc' = [ppc EXCEPT ![p] = "link"]
  /\ UNCHANGED <<head, nxt, ndata, pool, pnode, pend, sent, ConsumerVars>>

(* prev_tail->next = new_node                                              *)
PushLink(p) ==
  /\ ppc[p] = "link"
  /\ nxt' = [nxt EXCEPT ![pprev[p]] = pnode[p]]
  /\ ppc' = [ppc EXCEPT ![p] = IF sent[p] = PerProducer THEN "done" ELSE "idle"]
  /\ UNCHANGED <<head, tail, ndata, pool, pnode, pprev, pend, sent, xchgLog>>
  /\ UNCHANGED ConsumerVars

(***************************************************************************)
(* The consumer.  Only it moves head and only producers write `next` of    *)
(* the tail they exchanged, so each call is one step at its read of        *)
(* head->next.                                                             *)
(***************************************************************************)

ProducerVars == <<ppc, pnode, pprev, pend, sent, xchgLog>>

(* mpsc_test.c: the main thread loops until it has popped every item.     *)
ConsumerLoop == Len(popped) < Cardinality(Items)

(* Mutant: peek returns head->data instead of head->next->data.           *)
PeekHeadData ==
  /\ ConsumerLoop
  /\ cpeek' = IF nxt[head] # Null THEN ndata[head] ELSE NoItem
  /\ UNCHANGED <<head, tail, nxt, ndata, pool, lastPop, popped, mpc, ProducerVars>>

(* mpsc_fifo_peek: 1 and next->data if head->next is set, else 0.         *)
Peek ==
  /\ ConsumerLoop
  /\ cpeek' = IF nxt[head] # Null THEN ndata[nxt[head]] ELSE NoItem
  /\ UNCHANGED <<head, tail, nxt, ndata, pool, lastPop, popped, mpc, ProducerVars>>

(* Mutant: trypop advances head without checking head->next.              *)
TryPopNoNullCheck ==
  /\ ConsumerLoop
  /\ head # Null
  /\ LET prevHead == head
         prevNext == nxt[head]
     IN  /\ head' = prevNext
         /\ ndata' = [ndata EXCEPT ![prevHead] =
                        IF prevNext = Null THEN NoItem ELSE ndata[prevNext]]
         /\ pool' = pool \cup {prevHead}
         /\ popped' = popped
         /\ lastPop' = lastPop
  /\ cpeek' = NoItem
  /\ UNCHANGED <<tail, nxt, mpc, ProducerVars>>

(* Mutant: the old head keeps its own data, not next's.                   *)
TryPopKeepsData ==
  /\ ConsumerLoop
  /\ nxt[head] # Null
  /\ LET prevHead == head
         prevNext == nxt[head]
     IN  /\ head' = prevNext
         /\ pool' = pool \cup {prevHead}
         /\ popped' = Append(popped, ndata[prevHead])
         /\ lastPop' = [peeked |-> cpeek, got |-> ndata[prevHead]]
  /\ cpeek' = NoItem
  /\ UNCHANGED <<tail, nxt, ndata, mpc, ProducerVars>>

(* Mutant: trypop returns (and the caller frees) next, not the old head.   *)
TryPopFreesNext ==
  /\ ConsumerLoop
  /\ nxt[head] # Null
  /\ LET prevHead == head
         prevNext == nxt[head]
     IN  /\ head' = prevNext
         /\ ndata' = [ndata EXCEPT ![prevHead] = ndata[prevNext]]
         /\ pool' = pool \cup {prevNext}
         /\ popped' = Append(popped, ndata[prevNext])
         /\ lastPop' = [peeked |-> cpeek, got |-> ndata[prevNext]]
  /\ cpeek' = NoItem
  /\ UNCHANGED <<tail, nxt, mpc, ProducerVars>>

(* mpsc_fifo_trypop with head->next set: head = next, the old head takes   *)
(* next's data and is returned; the caller frees it.                       *)
TryPop ==
  /\ ConsumerLoop
  /\ nxt[head] # Null
  /\ LET prevHead == head
         prevNext == nxt[head]
     IN  /\ head' = prevNext
         /\ ndata' = [ndata EXCEPT ![prevHead] = ndata[prevNext]]
         /\ pool' = pool \cup {prevHead}
         /\ popped' = Append(popped, ndata[prevNext])
         /\ lastPop' = [peeked |-> cpeek, got |-> ndata[prevNext]]
  /\ cpeek' = NoItem
  /\ UNCHANGED <<tail, nxt, mpc, ProducerVars>>

(* mpsc_fifo_trypop with head->next NULL: returns NULL.                    *)
TryPopEmpty ==
  /\ ConsumerLoop
  /\ nxt[head] = Null
  /\ lastPop' = [peeked |-> cpeek, got |-> NoItem]
  /\ cpeek' = NoItem
  /\ UNCHANGED <<head, tail, nxt, ndata, pool, popped, mpc, ProducerVars>>

(* The nodes reachable along next from the nodes in S.                    *)
Reach(S) ==
  LET R[k \in 0..Cardinality(Nodes)] ==
        IF k = 0 THEN S
        ELSE R[k - 1] \cup ({nxt[m] : m \in R[k - 1]} \ {Null})
  IN  R[Cardinality(Nodes)]

(***************************************************************************)
(* Teardown (mpsc_test.c): pthread_join of every producer, then            *)
(* mpsc_fifo_destroy frees the nodes from head along next until NULL.      *)
(***************************************************************************)

Joined == \A p \in Producers : ppc[p] = "done"

(* Mutant: the walk stops at the last node (while head->next != NULL).     *)
DestroyKeepLast ==
  /\ mpc = "loop" /\ ~ConsumerLoop /\ Joined
  /\ pool' = pool \cup (Reach({head}) \ {n \in Nodes : nxt[n] = Null})
  /\ head' = Null
  /\ mpc' = "done"
  /\ UNCHANGED <<tail, nxt, ndata, cpeek, lastPop, popped, ProducerVars>>

Destroy ==
  /\ mpc = "loop" /\ ~ConsumerLoop /\ Joined
  /\ pool' = pool \cup Reach({head})
  /\ head' = Null
  /\ mpc' = "done"
  /\ UNCHANGED <<tail, nxt, ndata, cpeek, lastPop, popped, ProducerVars>>

(* The test has returned.                                                  *)
Terminated == mpc = "done" /\ UNCHANGED vars

Next ==
  \/ \E p \in Producers :
       PushStart(p) \/ StoreVisible(p) \/ PushXchg(p) \/ PushLink(p)
  \/ Peek \/ TryPop \/ TryPopEmpty
  \/ Destroy \/ Terminated

Spec == Init /\ [][Next]_vars

(* Producers are threads that run to the end of their loop; the consumer   *)
(* keeps calling peek/trypop (mpsc_test.c), and once head->next is set     *)
(* only the consumer can clear it, so weak fairness of TryPop suffices;    *)
(* the main thread then goes on to its teardown.                           *)
FairSpec ==
  /\ Spec
  /\ \A p \in Producers :
       WF_vars(PushStart(p) \/ StoreVisible(p) \/ PushXchg(p) \/ PushLink(p))
  /\ WF_vars(TryPop)
  /\ WF_vars(Destroy)

(***************************************************************************)
(* Properties                                                              *)
(***************************************************************************)

TypeOK ==
  /\ head \in IF mpc = "done" THEN {Null} ELSE Nodes
  /\ tail \in Nodes
  /\ nxt \in [Nodes -> Nodes \cup {Null}]
  /\ ndata \in [Nodes -> Items \cup {NoItem}]
  /\ pool \subseteq Nodes
  /\ ppc \in [Producers -> {"idle", "xchg", "link", "done"}]
  /\ pnode \in [Producers -> Nodes \cup {Null}]
  /\ pprev \in [Producers -> Nodes \cup {Null}]
  /\ pend \in [Producers -> SUBSET {"data", "next"}]
  /\ sent \in [Producers -> 0..PerProducer]
  /\ cpeek \in Items \cup {NoItem}
  /\ lastPop \in [peeked : Items \cup {NoItem}, got : Items \cup {NoItem}]
  /\ xchgLog \in Seq(Items) /\ popped \in Seq(Items)
  /\ mpc \in {"loop", "done"}

(* trypop returns every item once, in the order the producers exchanged    *)
(* their nodes into tail, though nodes are freed and reused by later       *)
(* pushes and links are made after the exchange.                           *)
PoppedInExchangeOrder == IsPrefix(popped, xchgLog)

(* Nodes in the list: reachable from head or from a node that is pushed   *)
(* and not yet linked.                                                     *)
Live == Reach({head} \cup {pnode[q] : q \in {r \in Producers : ppc[r] = "link"}})

(* A producer between its exchange and its link holds the previous tail:   *)
(* that node is still live (not popped and freed, or reused by another     *)
(* push) and its next is still NULL, so the delayed store                  *)
(* prev_tail->next neither writes a freed node nor overwrites a link.      *)
PendingLinkTargetsLiveTail ==
  \A p \in Producers :
    ppc[p] = "link" => pprev[p] \in Live \ pool /\ nxt[pprev[p]] = Null

(* mpsc_test.c: after peek returned 1 with data d, the next trypop returns *)
(* a node (not NULL) whose data is d.                                      *)
PeekedIsPopped == lastPop.peeked # NoItem => lastPop.got = lastPop.peeked

(* The holders of node n: the free pool (malloc'd memory not in use, or   *)
(* freed), a producer that took it and has not exchanged it, and the list *)
(* segments: the one from head and, for each producer between exchange    *)
(* and link, the one from its new node.                                    *)
Holders(n) ==
  (IF n \in pool THEN 1 ELSE 0)
  + (IF head # Null /\ n \in Reach({head}) THEN 1 ELSE 0)
  + Cardinality({p \in Producers : ppc[p] = "xchg" /\ pnode[p] = n})
  + Cardinality({p \in Producers : ppc[p] = "link" /\ n \in Reach({pnode[p]})})

(* Ownership passes from malloc to the producer, to the FIFO on push, to   *)
(* the consumer on trypop (which frees it), and back to free in            *)
(* mpsc_fifo_destroy: at every moment each node has exactly one holder,    *)
(* so no node is freed twice, freed while linked, or leaked by destroy,    *)
(* though trypop hands back the old sentinel, not the node it unlinks.     *)
EachNodeHeldOnce == \A n \in Nodes : Holders(n) = 1

(* Every node, the sentinel included, is eventually freed: the window      *)
(* between exchange and link ("transiently empty") always closes, the     *)
(* consumer pops every item and the teardown frees what is left.          *)
EventuallyAllFreed == <>(pool = Nodes)

=============================================================================
