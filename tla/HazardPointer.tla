----------------------------- MODULE HazardPointer -----------------------------
(***************************************************************************)
(* The hazard-pointer engine of src/hazard_pointer.c: thread records are   *)
(* pushed onto a shared list with a CAS and carry the retire threshold     *)
(* R = 2*N*K; hazard_pointer_scan collects every published hazard pointer  *)
(* of the records reachable from head and reclaims the retired nodes that  *)
(* are not among them.                                                     *)
(*                                                                         *)
(* The client is the one the engine exists for: a shared pointer `shared`  *)
(* that writers replace with a node taken from a free pool (get_node of    *)
(* hazard_pointers_test.c, which scans while the pool is empty) and whose  *)
(* old value they retire; readers load it, publish it in hazard slot 1,    *)
(* re-read it and only then dereference it.  hazard_pointer_using,         *)
(* hazard_pointer_done_using and hazard_pointer_free live in a header that *)
(* is not part of src/, so those steps follow the contract of the          *)
(* specification (4.2).                                                    *)
(*                                                                         *)
(* Hazard-slot stores go through the thread's x86-TSO store buffer:        *)
(* write_barrier() is a compiler barrier only, so a published slot may    *)
(* stay invisible to a scanning thread.  PublishFence says whether         *)
(* publication is followed by a store-load fence before the re-read.      *)
(*                                                                         *)
(* Records are threads; regList lists them in push order, so head is its   *)
(* last element and the list from a head read when it had length n is     *)
(* regList[n], regList[n-1], .., regList[1] (records are never removed).  *)
(***************************************************************************)
EXTENDS Integers, Sequences, SequencesExt, FiniteSets

CONSTANTS
  Threads,        \* threads that register a record (model values)
  K,              \* pointers_per_thread
  Nodes,          \* reclaimable nodes
  Null,           \* the NULL pointer
  MaxOps,         \* reads plus replacements each thread performs
  PublishFence    \* a store-load fence follows hazard publication

ASSUME K \in Nat \ {0} /\ MaxOps \in Nat /\ Null \notin Nodes
ASSUME PublishFence \in BOOLEAN

Slots == 1..K
N0    == CHOOSE n \in Nodes : TRUE       \* the node `shared` starts with

VARIABLES
  regList,     \* records in push order; head = regList[Len(regList)]
  thr,         \* record->retire_threshold
  hp,          \* record->hazard_pointers[] in memory
  hpBuf,       \* thread's store buffer of pending <<slot, value>> stores
  retired,     \* record->retired_list (its length is retired_count)
  pool,        \* free_nodes: reclaimed nodes a writer may take
  shared,      \* the shared pointer readers protect
  gen,         \* ghost: how often each node has been reclaimed
  pc, ops,     \* thread: program point, operations started
  rn, rcur,    \* create_and_push: list length at cur_head, update cursor
  lr, lg,      \* reader: node read, its reclamation count when validated
  wn,          \* writer: node taken from the pool, then the old node
  sret,        \* scan: where the caller continues
  sn, smax,    \* scan: list length at head, max_pointers
  plistSize,   \* record->plist_size
  plist,       \* scan: hazard pointers collected (plist[0..index-1])
  scur,        \* scan: <<record position, slot>> being read
  mpc,         \* the test's main thread: "join", "check", "destroy", "exit"
  mcur,        \* main: position in regList of its cursor cur (0 is NULL)
  freed,       \* records destroy_all has freed
  uaf          \* ghost: a scan of the teardown walked a freed record

vars == <<regList, thr, hp, hpBuf, retired, pool, shared, gen, pc, ops, rn,
          rcur, lr, lg, wn, sret, sn, smax, plistSize, plist, scur,
          mpc, mcur, freed, uaf>>

Init ==
  /\ regList = <<>>
  /\ thr = [t \in Threads |-> 0]
  /\ hp = [t \in Threads |-> [i \in Slots |-> Null]]
  /\ hpBuf = [t \in Threads |-> <<>>]
  /\ retired = [t \in Threads |-> {}]
  /\ pool = Nodes \ {N0}
  /\ shared = N0
  /\ gen = [n \in Nodes |-> 0]
  /\ pc = [t \in Threads |-> "reg_load"]
  /\ ops = [t \in Threads |-> 0]
  /\ rn = [t \in Threads |-> 0]
  /\ rcur = [t \in Threads |-> 0]
  /\ lr = [t \in Threads |-> Null]
  /\ lg = [t \in Threads |-> 0]
  /\ wn = [t \in Threads |-> Null]
  /\ sret = [t \in Threads |-> "idle"]
  /\ sn = [t \in Threads |-> 0]
  /\ smax = [t \in Threads |-> 0]
  /\ plistSize = [t \in Threads |-> 0]
  /\ plist = [t \in Threads |-> <<>>]
  /\ scur = [t \in Threads |-> <<0, 1>>]
  /\ mpc = "join" /\ mcur = 0 /\ freed = {} /\ uaf = FALSE

Goto(t, l) == pc' = [pc EXCEPT ![t] = l]

ScanVars   == <<sret, sn, smax, plistSize, plist, scur>>
ClientVars == <<retired, pool, shared, gen, ops, lr, lg, wn>>
RegVars    == <<regList, thr, rn, rcur>>

(***************************************************************************)
(* hazard_pointer_thread_record_create_and_push                            *)
(***************************************************************************)

(* Mutant: the thread count starts at 0, leaving out the new record.      *)
RegLoadNoSelf(t) ==
  /\ pc[t] = "reg_load"
  /\ rn' = [rn EXCEPT ![t] = Len(regList)]
  /\ thr' = [thr EXCEPT ![t] = 2 * Len(regList) * K]
  /\ Goto(t, "reg_cas")
  /\ UNCHANGED <<regList, rcur, hp, hpBuf, ClientVars, ScanVars>>

(* cur_head = *head; count the records from cur_head plus this one and     *)
(* set ret->retire_threshold = 2 * threads * pointers_per_thread.  The     *)
(* list below cur_head never changes, so the walk is one step.            *)
RegLoad(t) ==
  /\ pc[t] = "reg_load"
  /\ rn' = [rn EXCEPT ![t] = Len(regList)]
  /\ thr' = [thr EXCEPT ![t] = 2 * (Len(regList) + 1) * K]
  /\ Goto(t, "reg_cas")
  /\ UNCHANGED <<regList, rcur, hp, hpBuf, ClientVars, ScanVars>>

(* Mutant: the update loop starts at ret instead of ret->next.            *)
RegCasOkIncSelf(t) ==
  /\ pc[t] = "reg_cas" /\ hpBuf[t] = <<>>
  /\ Len(regList) = rn[t]
  /\ regList' = Append(regList, t)
  /\ rcur' = [rcur EXCEPT ![t] = rn[t] + 1]
  /\ Goto(t, "reg_inc")
  /\ UNCHANGED <<thr, rn, hp, hpBuf, ClientVars, ScanVars>>

(* __sync_bool_compare_and_swap(head, cur_head, ret) succeeds: ret is the  *)
(* new head; the update loop starts at ret->next.  Records are only ever  *)
(* pushed, so head is unchanged exactly when the list length is.          *)
RegCasOk(t) ==
  /\ pc[t] = "reg_cas" /\ hpBuf[t] = <<>>
  /\ Len(regList) = rn[t]
  /\ regList' = Append(regList, t)
  /\ rcur' = [rcur EXCEPT ![t] = rn[t]]
  /\ Goto(t, "reg_inc")
  /\ UNCHANGED <<thr, rn, hp, hpBuf, ClientVars, ScanVars>>

(* The CAS fails: another record was pushed; the do-while loop recounts.   *)
RegCasFail(t) ==
  /\ pc[t] = "reg_cas" /\ hpBuf[t] = <<>>
  /\ Len(regList) # rn[t]
  /\ Goto(t, "reg_load")
  /\ UNCHANGED <<RegVars, hp, hpBuf, ClientVars, ScanVars>>

(* __sync_add_and_fetch(&cur->retire_threshold, 2 * K); cur = cur->next.  *)
RegInc(t) ==
  /\ pc[t] = "reg_inc" /\ rcur[t] > 0
  /\ thr' = [thr EXCEPT ![regList[rcur[t]]] = @ + 2 * K]
  /\ rcur' = [rcur EXCEPT ![t] = @ - 1]
  /\ UNCHANGED <<pc, regList, rn, hp, hpBuf, ClientVars, ScanVars>>

(* The loop reaches NULL; the record is returned.                         *)
RegDone(t) ==
  /\ pc[t] = "reg_inc" /\ rcur[t] = 0
  /\ Goto(t, "idle")
  /\ UNCHANGED <<RegVars, hp, hpBuf, ClientVars, ScanVars>>

(***************************************************************************)
(* hazard_pointer_scan                                                     *)
(***************************************************************************)

(* What thread t reads in slot i of record r: its own pending stores are   *)
(* forwarded from its store buffer, other threads' slots come from memory. *)
HpView(t, r, i) ==
  LET own == {k \in 1..Len(hpBuf[t]) : hpBuf[t][k][1] = i}
  IN  IF r = t /\ own # {}
        THEN hpBuf[t][CHOOSE k \in own : \A j \in own : j <= k][2]
        ELSE hp[r][i]

(* Begin a scan; the caller continues at `ret`.                           *)
StartScan(t, ret) ==
  /\ Goto(t, "s_head")
  /\ sret' = [sret EXCEPT ![t] = ret]

(* Mutant: the walk starts at the scanning thread's own record.           *)
ScanHeadFromOwn(t) ==
  /\ pc[t] = "s_head"
  /\ sn' = [sn EXCEPT ![t] = CHOOSE j \in 1..Len(regList) : regList[j] = t]
  /\ Goto(t, "s_max")
  /\ UNCHANGED <<RegVars, hp, hpBuf, ClientVars, sret, smax, plistSize, plist, scur>>

(* head = *hptr->head                                                      *)
ScanHead(t) ==
  /\ pc[t] = "s_head"
  /\ sn' = [sn EXCEPT ![t] = Len(regList)]
  /\ Goto(t, "s_max")
  /\ UNCHANGED <<RegVars, hp, hpBuf, ClientVars, sret, smax, plistSize, plist, scur>>

(* Mutant: max_pointers from the scanning thread's own record, not head.  *)
ScanMaxOwnRecord(t) ==
  /\ pc[t] = "s_max"
  /\ LET m == thr[t] \div 2
     IN  /\ smax' = [smax EXCEPT ![t] = m]
         /\ plistSize' = [plistSize EXCEPT ![t] = IF @ < m THEN m ELSE @]
  /\ plist' = [plist EXCEPT ![t] = <<>>]
  /\ scur' = [scur EXCEPT ![t] = <<sn[t], 1>>]
  /\ Goto(t, "s_read")
  /\ UNCHANGED <<RegVars, hp, hpBuf, ClientVars, sret, sn>>

(* max_pointers = head->retire_threshold / 2; plist is reallocated when    *)
(* missing or smaller; index = 0; cur_record = head.                       *)
ScanMax(t) ==
  /\ pc[t] = "s_max"
  /\ LET m == thr[regList[sn[t]]] \div 2
     IN  /\ smax' = [smax EXCEPT ![t] = m]
         /\ plistSize' = [plistSize EXCEPT ![t] = IF @ < m THEN m ELSE @]
  /\ plist' = [plist EXCEPT ![t] = <<>>]
  /\ scur' = [scur EXCEPT ![t] = <<sn[t], 1>>]
  /\ Goto(t, "s_read")
  /\ UNCHANGED <<RegVars, hp, hpBuf, ClientVars, sret, sn>>

(* h = cur_record->hazard_pointers[i]; if h is set, plist[index++] = h;    *)
(* then the next slot, or cur_record = cur_record->next.                   *)
ScanRead(t) ==
  /\ pc[t] = "s_read" /\ scur[t][1] > 0
  /\ LET r == regList[scur[t][1]]
         i == scur[t][2]
         h == HpView(t, r, i)
     IN  /\ plist' = [plist EXCEPT ![t] = IF h = Null THEN @ ELSE Append(@, h)]
         /\ scur' = [scur EXCEPT ![t] = IF i < K THEN <<@[1], i + 1>>
                                                  ELSE <<@[1] - 1, 1>>]
  /\ UNCHANGED <<pc, RegVars, hp, hpBuf, ClientVars, sret, sn, smax, plistSize>>

(* The address of a node: hazard_pointer_compare orders pointers as       *)
(* uintptr_t values; distinct nodes have distinct addresses.               *)
Addr == LET s == SetToSeq(Nodes) IN [n \in Nodes |-> CHOOSE i \in DOMAIN s : s[i] = n]

(* binary_search over haystack[start..end] (0-based, as in the code; h is  *)
(* the 1-based sequence of the haystack).                                  *)
RECURSIVE Bsearch(_, _, _, _)
Bsearch(h, start, end, needle) ==
  IF start > end THEN FALSE
  ELSE LET middle == (start + end) \div 2
       IN  CASE h[middle + 1] > needle -> Bsearch(h, start, middle - 1, needle)
             [] h[middle + 1] < needle -> Bsearch(h, middle + 1, end, needle)
             [] OTHER                  -> TRUE

(* A variant of BinarySearch that leaves the last element out of the      *)
(* search (end = haystack_size - 2).                                       *)
BinarySearchShort(h, size, needle) ==
  IF size = 0 THEN FALSE ELSE Bsearch(h, 0, size - 2, needle)

BinarySearch(h, size, needle) ==
  IF size = 0 THEN FALSE ELSE Bsearch(h, 0, size - 1, needle)

(* qsort(plist, index, ..., hazard_pointer_compare), then                  *)
(* binary_search(plist, index, node).                                      *)
IsHazardous(n, pl) ==
  LET sorted == SortSeq([i \in 1..Len(pl) |-> Addr[pl[i]]], <)
  IN  BinarySearch(sorted, Len(pl), Addr[n])

(* A variant of ScanReclaim that forgets to put hazardous nodes back on    *)
(* the rebuilt retired list.                                               *)
ScanReclaimDropKept(t) ==
  /\ pc[t] = "s_read" /\ scur[t][1] = 0
  /\ LET keep == {n \in retired[t] : IsHazardous(n, plist[t])}
         free == retired[t] \ keep
     IN  /\ retired' = [retired EXCEPT ![t] = {}]
         /\ pool' = pool \cup free
         /\ gen' = [n \in Nodes |-> IF n \in free THEN gen[n] + 1 ELSE gen[n]]
  /\ Goto(t, sret[t])
  /\ UNCHANGED <<RegVars, hp, hpBuf, shared, ops, lr, lg, wn, ScanVars>>

(* The list ends: sort plist, empty the retired list and walk it: a node   *)
(* found in plist goes back on the retired list, any other is passed to    *)
(* its gc_function, release_node, which pushes it onto free_nodes.         *)
ScanReclaim(t) ==
  /\ pc[t] = "s_read" /\ scur[t][1] = 0
  /\ LET keep == {n \in retired[t] : IsHazardous(n, plist[t])}
         free == retired[t] \ keep
     IN  /\ retired' = [retired EXCEPT ![t] = keep]
         /\ pool' = pool \cup free
         /\ gen' = [n \in Nodes |-> IF n \in free THEN gen[n] + 1 ELSE gen[n]]
  /\ Goto(t, sret[t])
  /\ UNCHANGED <<RegVars, hp, hpBuf, shared, ops, lr, lg, wn, ScanVars>>

(***************************************************************************)
(* The client.  Readers follow the contract of hazard_pointer_using: the  *)
(* node is published in a slot, the shared pointer re-read, and the node  *)
(* used only if it is still there.  Writers take a node with get_node      *)
(* (hazard_pointers_test.c), exchange it into `shared` and retire the old  *)
(* node with hazard_pointer_free.                                          *)
(***************************************************************************)

(* p = shared                                                              *)
ReadLoad(t) ==
  /\ pc[t] = "idle" /\ ops[t] < MaxOps
  /\ lr' = [lr EXCEPT ![t] = shared]
  /\ ops' = [ops EXCEPT ![t] = @ + 1]
  /\ Goto(t, "r_pub")
  /\ UNCHANGED <<RegVars, hp, hpBuf, retired, pool, shared, gen, lg, wn, ScanVars>>

(* hazard_pointer_using(record, p, 1): hazard_pointers[1] = p, then        *)
(* write_barrier(); the store enters the store buffer.                    *)
Publish(t) ==
  /\ pc[t] = "r_pub"
  /\ hpBuf' = [hpBuf EXCEPT ![t] = Append(@, <<1, lr[t]>>)]
  /\ Goto(t, "r_val")
  /\ UNCHANGED <<RegVars, hp, ClientVars, ScanVars>>

(* Re-read shared; with PublishFence the load waits for the buffer.       *)
ValidateOk(t) ==
  /\ pc[t] = "r_val" /\ (PublishFence => hpBuf[t] = <<>>)
  /\ shared = lr[t]
  /\ lg' = [lg EXCEPT ![t] = gen[lr[t]]]
  /\ Goto(t, "r_use")
  /\ UNCHANGED <<RegVars, hp, hpBuf, retired, pool, shared, gen, ops, lr, wn, ScanVars>>

(* shared moved on: publish the new value and re-read again.              *)
ValidateRetry(t) ==
  /\ pc[t] = "r_val" /\ (PublishFence => hpBuf[t] = <<>>)
  /\ shared # lr[t]
  /\ lr' = [lr EXCEPT ![t] = shared]
  /\ Goto(t, "r_pub")
  /\ UNCHANGED <<RegVars, hp, hpBuf, retired, pool, shared, gen, ops, lg, wn, ScanVars>>

(* Mutant: done_using leaves the slot set.                                 *)
DoneUsingNoClear(t) ==
  /\ pc[t] = "r_use"
  /\ Goto(t, "idle")
  /\ UNCHANGED <<RegVars, hp, hpBuf, ClientVars, ScanVars>>

(* The node is dereferenced, then hazard_pointer_done_using(record, 1)     *)
(* stores NULL into the slot.                                              *)
DoneUsing(t) ==
  /\ pc[t] = "r_use"
  /\ hpBuf' = [hpBuf EXCEPT ![t] = Append(@, <<1, Null>>)]
  /\ Goto(t, "idle")
  /\ UNCHANGED <<RegVars, hp, ClientVars, ScanVars>>

WriteStart(t) ==
  /\ pc[t] = "idle" /\ ops[t] < MaxOps
  /\ ops' = [ops EXCEPT ![t] = @ + 1]
  /\ Goto(t, "w_get")
  /\ UNCHANGED <<RegVars, hp, hpBuf, retired, pool, shared, gen, lr, lg, wn, ScanVars>>

(* get_node: lockfree_ring_buffer_trypop(free_nodes) returns a node.       *)
GetNode(t) ==
  /\ pc[t] = "w_get" /\ pool # {}
  /\ \E n \in pool :
       /\ pool' = pool \ {n}
       /\ wn' = [wn EXCEPT ![t] = n]
  /\ Goto(t, "w_xchg")
  /\ UNCHANGED <<RegVars, hp, hpBuf, retired, shared, gen, ops, lr, lg, ScanVars>>

(* get_node: free_nodes is empty; hazard_pointer_scan and try again.       *)
GetNodeScan(t) ==
  /\ pc[t] = "w_get" /\ pool = {}
  /\ StartScan(t, "w_get")
  /\ UNCHANGED <<RegVars, hp, hpBuf, ClientVars, sn, smax, plistSize, plist, scur>>

(* old = atomic exchange of shared with the new node (a locked            *)
(* instruction: the store buffer is drained first).                        *)
Exchange(t) ==
  /\ pc[t] = "w_xchg" /\ hpBuf[t] = <<>>
  /\ shared' = wn[t]
  /\ wn' = [wn EXCEPT ![t] = shared]
  /\ Goto(t, "w_free")
  /\ UNCHANGED <<RegVars, hp, hpBuf, retired, pool, gen, ops, lr, lg, ScanVars>>

(* hazard_pointer_free(record, old): append to the retired list; a scan   *)
(* runs when retired_count exceeds retire_threshold.                       *)
Retire(t) ==
  /\ pc[t] = "w_free"
  /\ retired' = [retired EXCEPT ![t] = @ \cup {wn[t]}]
  /\ \/ /\ Cardinality(retired'[t]) > thr[t]
        /\ StartScan(t, "idle")
     \/ /\ Cardinality(retired'[t]) <= thr[t]
        /\ Goto(t, "idle") /\ UNCHANGED sret
  /\ UNCHANGED <<RegVars, hp, hpBuf, pool, shared, gen, ops, lr, lg, wn>>
  /\ UNCHANGED <<sn, smax, plistSize, plist, scur>>

(* run_function's end: while(my_record->retired_list) scan.               *)
Drain(t) ==
  /\ pc[t] = "idle" /\ ops[t] = MaxOps
  /\ \/ /\ retired[t] # {}
        /\ StartScan(t, "idle")
     \/ /\ retired[t] = {}
        /\ Goto(t, "done") /\ UNCHANGED sret
  /\ UNCHANGED <<RegVars, hp, hpBuf, ClientVars, sn, smax, plistSize, plist, scur>>

(* The processor writes the oldest buffered slot store to memory.         *)
Flush(t) ==
  /\ hpBuf[t] # <<>>
  /\ hp' = [hp EXCEPT ![t][Head(hpBuf[t])[1]] = Head(hpBuf[t])[2]]
  /\ hpBuf' = [hpBuf EXCEPT ![t] = Tail(@)]
  /\ UNCHANGED <<pc, RegVars, ClientVars, ScanVars>>

(***************************************************************************)
(* The end of the test: once the threads are joined, the main thread       *)
(* scans every record from head, then hazard_pointer_thread_record_        *)
(* destroy_all destroys them in list order.  No other thread runs, so each *)
(* scan is one step; the scratch plist it fills is not kept.               *)
(***************************************************************************)

MainVars == <<mpc, mcur, freed, uaf>>

(* hazard_pointer_scan(r) walking the records at positions pos, .., 1: the *)
(* retired nodes of r found in none of their slots are reclaimed.          *)
TeardownScan(r, pos) ==
  LET pl   == SetToSeq({hp[regList[j]][i] : j \in 1..pos, i \in Slots} \ {Null})
      keep == {n \in retired[r] : IsHazardous(n, pl)}
      free == retired[r] \ keep
  IN  /\ retired' = [retired EXCEPT ![r] = keep]
      /\ pool' = pool \cup free
      /\ gen' = [n \in Nodes |-> IF n \in free THEN gen[n] + 1 ELSE gen[n]]
      /\ uaf' = (uaf \/ \E j \in 1..pos : regList[j] \in freed)

MainUnchanged == UNCHANGED <<RegVars, hp, hpBuf, shared, pc, ops, lr, lg, wn, ScanVars>>

(* pthread_join of every thread; cur = head.                               *)
MainJoin ==
  /\ mpc = "join" /\ \A t \in Threads : pc[t] = "done" /\ hpBuf[t] = <<>>
  /\ mpc' = "check" /\ mcur' = Len(regList)
  /\ UNCHANGED <<retired, pool, gen, freed, uaf>> /\ MainUnchanged

(* hazard_pointer_scan(cur); cur = cur->next.                              *)
MainScan ==
  /\ mpc = "check" /\ mcur > 0
  /\ TeardownScan(regList[mcur], Len(regList))
  /\ mcur' = mcur - 1
  /\ UNCHANGED <<mpc, freed>> /\ MainUnchanged

(* The loop reaches NULL; destroy_all(head) starts with cur = head.        *)
MainDestroyAll ==
  /\ mpc = "check" /\ mcur = 0
  /\ mpc' = "destroy" /\ mcur' = Len(regList)
  /\ UNCHANGED <<retired, pool, gen, freed, uaf>> /\ MainUnchanged

(* A variant of DestroyRecord without cur->head = &cur: the scan starts    *)
(* from *head, the first record, already freed.                            *)
DestroyRecordFromHead ==
  /\ mpc = "destroy" /\ mcur > 0
  /\ TeardownScan(regList[mcur], Len(regList))
  /\ freed' = freed \cup {regList[mcur]}
  /\ mcur' = mcur - 1
  /\ UNCHANGED mpc /\ MainUnchanged

(* cur->head = &cur; next = cur->next; hazard_pointer_thread_record_       *)
(* destroy(cur): a scan from *cur->head = cur, then free(plist) and        *)
(* free(cur); cur = next.                                                  *)
DestroyRecord ==
  /\ mpc = "destroy" /\ mcur > 0
  /\ TeardownScan(regList[mcur], mcur)
  /\ freed' = freed \cup {regList[mcur]}
  /\ mcur' = mcur - 1
  /\ UNCHANGED mpc /\ MainUnchanged

(* cur is NULL: destroy_all returns and the test ends.                     *)
MainExit ==
  /\ mpc = "destroy" /\ mcur = 0
  /\ mpc' = "exit"
  /\ UNCHANGED <<mcur, retired, pool, gen, freed, uaf>> /\ MainUnchanged

MainNext == MainJoin \/ MainScan \/ MainDestroyAll \/ DestroyRecord \/ MainExit

(* The test has ended.                                                     *)
Terminated == mpc = "exit" /\ UNCHANGED vars

ThreadNext(t) ==
  \/ RegLoad(t) \/ RegCasOk(t) \/ RegCasFail(t) \/ RegInc(t) \/ RegDone(t)
  \/ ReadLoad(t) \/ Publish(t) \/ ValidateOk(t) \/ ValidateRetry(t)
  \/ DoneUsing(t)
  \/ WriteStart(t) \/ GetNode(t) \/ GetNodeScan(t) \/ Exchange(t) \/ Retire(t)
  \/ Drain(t)
  \/ ScanHead(t) \/ ScanMax(t) \/ ScanRead(t) \/ ScanReclaim(t)

(* A step of thread t or of its store buffer; main waits in pthread_join. *)
ThreadStep(t) == ThreadNext(t) /\ UNCHANGED MainVars
FlushStep(t)  == Flush(t) /\ UNCHANGED MainVars

Next == (\E t \in Threads : ThreadStep(t) \/ FlushStep(t)) \/ MainNext \/ Terminated

Spec == Init /\ [][Next]_vars

(* Threads are OS threads that keep running, and x86 drains store buffers *)
(* eventually: every thread, its buffer and the main thread are weakly    *)
(* fair.                                                                   *)
FairSpec ==
  /\ Spec
  /\ \A t \in Threads : WF_vars(ThreadStep(t)) /\ WF_vars(FlushStep(t))
  /\ WF_vars(MainNext)

(***************************************************************************)
(* Properties                                                              *)
(***************************************************************************)

PcLabels == {"reg_load", "reg_cas", "reg_inc", "idle", "r_pub", "r_val",
             "r_use", "w_get", "w_xchg", "w_free", "s_head", "s_max",
             "s_read", "done"}

TypeOK ==
  /\ regList \in Seq(Threads) /\ Len(regList) <= Cardinality(Threads)
  /\ thr \in [Threads -> 0..2 * Cardinality(Threads) * K]
  /\ hp \in [Threads -> [Slots -> Nodes \cup {Null}]]
  /\ pool \subseteq Nodes /\ shared \in Nodes
  /\ retired \in [Threads -> SUBSET Nodes]
  /\ pc \in [Threads -> PcLabels]
  /\ ops \in [Threads -> 0..MaxOps]
  /\ plist \in [Threads -> Seq(Nodes)]
  /\ mpc \in {"join", "check", "destroy", "exit"}
  /\ mcur \in 0..Len(regList) /\ freed \subseteq Threads /\ uaf \in BOOLEAN

Registering(t) == pc[t] \in {"reg_load", "reg_cas", "reg_inc"}

(* The comment of create_and_push and of scan: the record at head always   *)
(* has retire_threshold = 2 * N * K for the N records reachable from it,   *)
(* whatever registrations race; scan sizes plist from it.                  *)
HeadThresholdCorrect ==
  regList # <<>> => thr[Last(regList)] = 2 * Len(regList) * K

(* hazard_pointer_scan fills plist, sized from head's threshold read at   *)
(* the scan's start, with the set slots of every record it reaches from   *)
(* that head, while other threads register: it never writes plist[index]  *)
(* past plist_size, and assert(index < max_pointers) holds at every       *)
(* record it starts on.                                                    *)
PlistWritesInBounds ==
  \A t \in Threads :
    pc[t] = "s_read" =>
      /\ Len(plist[t]) <= plistSize[t]
      /\ (scur[t][1] > 0 /\ scur[t][2] = 1) => Len(plist[t]) < smax[t]

(* hazard_pointers_test.c: once no thread is registering, every record's   *)
(* threshold is 2 * N * K: each registration raised every record below it *)
(* exactly once, though the CAS loop retried and raced other updates.      *)
ThresholdsAgreeWhenQuiet ==
  (\A t \in Threads : ~Registering(t)) =>
    \A j \in 1..Len(regList) : thr[regList[j]] = 2 * Len(regList) * K

(* A node a reader has published and validated is not reclaimed (passed   *)
(* to gc_function) before the reader calls done_using.                     *)
NoReclaimWhileHazardous ==
  \A t \in Threads : pc[t] = "r_use" => gen[lr[t]] = lg[t]

(* The places a node can be: on free_nodes, in the shared pointer, in a   *)
(* writer's hands between get_node and hazard_pointer_free, or on a       *)
(* record's retired list.                                                  *)
Holders(n) ==
  (IF n \in pool THEN 1 ELSE 0) + (IF n = shared THEN 1 ELSE 0)
  + Cardinality({t \in Threads : pc[t] \in {"w_xchg", "w_free"} /\ wn[t] = n})
  + Cardinality({t \in Threads : n \in retired[t]})

(* Every node is in exactly one place at every step: scan's rebuilding of  *)
(* the retired list never drops a kept node (a leak valgrind would report *)
(* in hazard_pointers_test.c) nor both keeps and releases one, and no node *)
(* reaches free_nodes while it is shared or retired (a double free).       *)
EachNodeHeldOnce == \A n \in Nodes : Holders(n) = 1

(* destroy_all points each record's head at its own cursor (cur->head =   *)
(* &cur) before destroying it, so the best-effort scan in                  *)
(* hazard_pointer_thread_record_destroy walks that record and the ones     *)
(* after it, never a record destroy_all has already freed.                 *)
NoScanOfFreedRecord == ~uaf

(* Every thread leaves its final drain loop, so each retired node is       *)
(* eventually reclaimed once no reader holds it, and the test reaches its  *)
(* end with every retired list empty.                                      *)
EventuallyAllReclaimed ==
  <>(mpc = "exit" /\ \A t \in Threads : retired[t] = {})

=============================================================================
