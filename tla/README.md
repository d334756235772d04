# TLA+ models of libfibconcurrent

This directory holds TLA+ models of the lock-free structures in `src/` (the
repository root's `src/src`, `src/include` and `src/test`). TLC checks them.
`PROJECT.json` lists every component, run, mutant, mapped source range,
finding and hazard. This file explains them.

## The system

| Part | Code | Shared state | Operations |
|---|---|---|---|
| Work-stealing deque (Chase-Lev) | `work_stealing_deque.c` | `top`, `bottom`, `underlying_array` | owner: `push_bottom`, `push_bottom_autogrow`, `wsd_work_stealing_grow`, `pop_bottom`; any thread: `steal` |
| Bounded MPMC ring queue (Vyukov) | `mpmc_ring_queue.c`, `mpmc_ring_queue_internal.h` | `put_pos`, `get_pos`, `msgs[i].seq`, `msgs[i].d` | `enqueue`, `dequeue`, `free_relaxed`, `empty`, `full`, `delete` |
| MPSC intrusive FIFO | `include/concurrent/mpsc_fifo.h` | `head`, `tail`, `node->next`, `node->data` | `push` (exchange, then link), `peek`, `trypop`, `destroy` |
| Hazard-pointer engine | `hazard_pointer.c` | record list `head`, per record `retire_threshold`, `hazard_pointers[]`, `retired_list`, `plist` | `create_and_push`, `scan`, `destroy_all`; `using`, `done_using`, `free` (header not in `src/`) |
| Ordering primitives | `machine_specific.h` | none | `write_barrier`, `store_load_barrier`, `load_load_barrier` |
| Size helpers | `queuedef.c` | none | `is_power_2`, `queue_size_is_valid`, `size_to_power_of_2` |
| Mutex queue | `queue.c` | `queue[]`, `write`, `read`, `len`, `lock` | `queue_new`, `queue_enqueue`, `queue_dequeue`, `queue_dequeue_vector`, `queue_putback`, `queue_len`, `queue_free`, `queue_destroy` |

How the parts interact:

- All the structures rely on the ordering primitives. On x86-64, `write_barrier()` is only a compiler barrier.
- `store_load_barrier()` has an empty body when `ARCH_x86_64` is defined (`machine_specific.h:29`).
- The deque returns its old array to the caller. The caller frees it, and the specification suggests hazard pointers for that.
- The ring queue takes its capacity from `queue_size_is_valid`.
- The mutex queue shares no state with the others. The specification leaves it out of the lock-free core, but it is in `src/` and `queue_bench.c` measures it.

## Modules

**`WorkStealingDeque`** models one owner and a set of `Stealers`.

- The owner's stores go through an x86-TSO store buffer `buf`, with store forwarding (`OwnerLoad`) and the `Flush` action.
- A locked CAS drains the buffer first.
- `StoreLoadFence` says whether `pop_bottom`'s barrier is a real fence.
- Each push is one action, because its only shared read comes before stores that go to the buffer.
- `PushApi` is the set of push functions the owner may call, one per push: `push_bottom` (full is reported, and `Grow` is `wsd_work_stealing_grow`) and `push_bottom_autogrow`.
- `pop_bottom` has three actions:
  - `PopBottom`: the store of `bottom`.
  - `PopReadTop`: the read of `top`, followed by the empty, taken or last-element branch.
  - `PopCas`: the CAS on the last element.
- `steal` has one action per shared access:
  - `StealReadTop`
  - `StealReadBottom`, which also reads the array pointer
  - `StealReadElem`
  - `StealCas`
- Arrays are indexed by id `k` with size `2^(LogSize+k)`. `Grow` and the autogrow path copy `[t, b)` into the next array (`GrownArray`). Running out of arrays (`MaxArrays`) models a failed `malloc`.
- The ghost `delivered` counts how often each item is returned, as `results[][]` in `wsd_test.c` does.

**`MpmcRingQueue` and `BoundedFifo`.**

- `enqueue` and `dequeue` have one action per shared access: load position, load `seq`, weak CAS, write or read the payload, release `seq`.
- Counters are `WordBits` wide and start at `StartPos`, just below the wrap, so every run crosses it. `SDiff` is the signed `dif`.
- An observer thread runs `free_relaxed`, `empty` and `full` load by load.
- The ghost `enqLog` records items in the order of their winning `put_pos` CAS. `returned[k]` records what the k-th `get_pos` CAS winner returned.
- `BoundedFifo` is the abstract queue. The refinement maps `queue` to the claimed-but-not-dequeued part of `enqLog`.
- `Join` is the `pthread_join` of `mpmc_ring_queue_test.c`. It is enabled once the producers have enqueued every item and no call is in progress, and it records the queue's contents in `held`. After it, threads start no calls. The test then calls `destroy`. The model calls the draining variant, `mpmc_ring_queue_delete`: `DeletePop` is one dequeue-and-free turn of its loop with no other thread running, and `DeleteDestroy` is the NULL return followed by `destroy`.

**`MpscFifo`** models `Producers` each pushing `PerProducer` items, and one consumer.

- Nodes come from `pool` and popped nodes go back to it, as the `malloc`/`free` of `mpsc_test.c` reuse addresses.
- A push is `PushStart` (take a node; its stores of `data` and `next = NULL` wait in `pend`), `StoreVisible` (one of those stores reaches memory), `PushXchg` and `PushLink`.
- `ExchangeDrainsStores` says whether the `__ATOMIC_ACQUIRE` exchange publishes the earlier stores. It does on x86-64, where it is `lock xchg`, a full fence. Under the C11 model, and on weakly ordered builds, an acquire exchange orders only later accesses, and the link is a plain store. The consumer reads memory.
- The ghosts are `xchgLog` (items in exchange order) and `popped`.
- The consumer is the main thread of `mpsc_test.c`. It pops while `ConsumerLoop` holds (fewer pops than items). Once every producer is done (`Joined`), `Destroy` is `mpsc_fifo_destroy`: it frees every node reachable from `head` and sets `head` to NULL (`mpc = "done"`).

**`HazardPointer`** models the engine driven by a client.

- Registration is four actions: `RegLoad` (read head and count), `RegCasOk`/`RegCasFail`, then one `RegInc` per record below and `RegDone`.
- `hazard_pointer_scan` is four actions:
  - `ScanHead`
  - `ScanMax`, which reads `head->retire_threshold` and resizes `plist`
  - `ScanRead`, one hazard slot per step
  - `ScanReclaim`, the sort, binary search and `gc_function`. Nodes get distinct addresses (`Addr`). `IsHazardous` sorts the collected addresses, and `BinarySearch`/`Bsearch` follow `binary_search` step by step, with 0-based `start`/`end`.
- The client protects a shared pointer:
  - Readers load it, publish it in slot 1, re-read it and use it.
  - Writers take a node with `get_node` (from `hazard_pointers_test.c`: scan while the pool is empty), exchange it in and retire the old one.
  - Each thread then drains its retired list as `run_function` does.
- `using`, `done_using` and `free` are in a header that is not in `src/`. They follow the specification and are marked `spec_modelled` in the map.
- Hazard-slot stores go through a per-thread store buffer. `PublishFence` says whether a fence follows publication.
- The ghost `gen[n]` counts reclamations of node `n`.
- The test's main thread has its own phase once every thread is done (`MainVars`):
  - `MainJoin`, then `MainScan` scans every record from head (`hazard_pointers_test.c:118-127`).
  - `DestroyRecord` is one turn of `hazard_pointer_thread_record_destroy_all`: `cur->head = &cur`, then `destroy`, whose best-effort scan walks from `cur`, and the frees.
  - Nothing else runs then, so each teardown scan is one step (`TeardownScan`). The ghost `uaf` records a teardown scan that walks a freed record.

**`MutexQueue` and `PutbackQueue`** model `queue.c`.

- Threads call the operations in any order, with payloads from `Msgs` and `queue_dequeue_vector` lengths from `VecLens`.
- A call is three steps:
  - `Call`: choose the operation and its argument.
  - `Lock`: `pthread_mutex_lock` returns once the lock is free.
  - The critical section, ending in `Return` (unlock, and the return value with any payloads copied to `ret[]`).
- Each return path of the code is its own action, for example `EnqueueFull` and `Enqueue`.
- `write` and `read` range over `0..end` and are wrapped lazily (`Wrap`), as in the code. `Take` is the copy loop of `queue_dequeue_vector`, as a recursive operator.
- `PutbackQueue` is the abstract queue: a sequence of at most `Size` payloads with putback at the head, each thread's pending call (`call`) and each thread's last result. A call takes effect only as the operation and argument the thread chose. The refinement maps `items` to the `len` slots from `read` on (`Contents`), and `call` and `got` to themselves. So a putback that stored at the tail, or a `queue_free` that returned `len`, would fail the refinement even though the abstract queue has an operation with the same effect.
- The main thread (`mpc`) joins the threads once each has made its `MaxCalls` calls and calls `queue_destroy`, as `queue_bench.c` does (`Join`). `queue_delete`, which would first dequeue and free the payloads left, has no caller in `src/` and is not modelled.

**`QueueDef`** defines `is_power_2`, `queue_size_is_valid` and `size_to_power_of_2` as operators; the shift loop is the recursive `Shift`. `ValidSizesArePowersAbove1` compares `queue_size_is_valid` with a reference definition on every 8-bit `size_t`. `MpmcRingQueue` instantiates it (`SizeHelpers`): `Init` is `mpmc_ring_queue_new` past its `queue_size_is_valid` check, so a rejected `Capacity` has no initial state. That property is an invariant of the `ringq_fifo` run, and it constrains the states where the queue has just been created and no call has started (`Created`).

Each `MC_*` module fixes the model values, and symmetry sets where they are sound. Liveness runs use no symmetry.

## Runs

| Run | Bounds | Checks | Result |
|---|---|---|---|
| `wsd_autogrow` | 2 stealers, 4 pushes (either push function, and explicit grow), initial size 2, 2 arrays, buffer 5 | `TypeOK`, `DeliveredAtMostOnce`, `ExactlyOnce` | pass |
| `wsd_drain` | 3 pushes, 3 arrays, fair owner and buffer | `EventuallyAllDelivered` | pass |
| `wsd_nofence` | `StoreLoadFence = FALSE` | `DeliveredAtMostOnce` | violated: the x86-64 build |
| `ringq_fifo` | 2 producers, 2 consumers, capacity 2, 8-bit counters from 254, 3 items; every 8-bit size | `TypeOK`, `FifoByClaimOrder`, `DeleteFreesHeldItems`, `RefinesBoundedFifo`, `QueriesExactWhenQuiet`, `ValidSizesArePowersAbove1` | pass |
| `ringq_free` | same | `FreeRelaxedInRange` | violated |
| `ringq_capacity` | same | `HeaderCapacityBound` | violated |
| `mpsc` | 2 producers × 2 items, 5 nodes (reused), fair, `ExchangeDrainsStores` | `TypeOK`, `PoppedInExchangeOrder`, `PendingLinkTargetsLiveTail`, `PeekedIsPopped`, `EachNodeHeldOnce`, `EventuallyAllFreed` | pass |
| `mpsc_weak` | same, `ExchangeDrainsStores = FALSE` | `PoppedInExchangeOrder` | violated |
| `hp_safety` | 2 threads, K = 1, 4 nodes, 3 operations each, fence, then teardown | `TypeOK`, `HeadThresholdCorrect`, `PlistWritesInBounds`, `ThresholdsAgreeWhenQuiet`, `NoReclaimWhileHazardous`, `EachNodeHeldOnce`, `NoScanOfFreedRecord` | pass |
| `hp_live` | 2 operations each, fair | `EventuallyAllReclaimed` (the test ends with every retired list empty) | pass |
| `hp_nofence` | `PublishFence = FALSE` | `NoReclaimWhileHazardous` | violated |
| `mutex_queue` | 2 threads × 3 calls, 2 slots, 2 payloads, vector lengths 0, 2, 3 | `TypeOK`, `RefinesPutbackQueue` | pass |

What the properties say:

- **Work-stealing deque.**
  - `ExactlyOnce`: whenever the owner is between operations, each pushed item is either delivered or held in `[top, bottom)`, and not both. This is the per-item sum of 1 that `wsd_test.c` asserts, but over every interleaving.
- **Ring queue.**
  - `FifoByClaimOrder`: the k-th dequeue claim returns the k-th enqueue claim's item.
  - `DeleteFreesHeldItems`: `mpmc_ring_queue_delete` frees exactly the items left at the join, in order. Its loop stops only at a slot whose `seq` marks it free, at any lap and across the wrap. No quiet state has a slot `seq` ahead of `get_pos + 1`: the run would report a deadlock there.
  - `RefinesBoundedFifo`: `BoundedFifo!Spec` holds under the mapping, so the queue never takes more than `Capacity` items and dequeues in order.
  - `QueriesExactWhenQuiet`: `mpmc_ring_queue_test.c` asserts `empty()` and `full()` after single-threaded calls. The property says this: when no enqueue or dequeue is in progress and the loaded position is still current, they report exactly whether the queue is empty or full, at every lap and across the counter wrap.
- **MPSC FIFO.**
  - `PendingLinkTargetsLiveTail`: a producer that has exchanged but not yet linked holds a `prev_tail` that is still in the list, not freed, and still has `next = NULL`. Node reuse could break this.
  - `EachNodeHeldOnce`: every node has exactly one holder. The holder is the free pool, a producer that has not yet exchanged the node, the list segment from `head`, or a segment that starts at a node exchanged but not yet linked. It fails if `trypop` hands the caller the node it unlinks instead of the old sentinel (a double free), or if `destroy` leaves a node behind (a leak).
  - `EventuallyAllFreed`: every node, the sentinel included, is eventually free. So every pushed item is popped, and the teardown runs to its end.
- **Mutex queue.**
  - `RefinesPutbackQueue`: each call returns what the abstract queue returns, in lock order. This covers the lazy wrap of `write` and `read`, putback stepping `read` back across 0, and vector copies across the end of the ring.
- **Hazard pointers.**
  - `HeadThresholdCorrect` is the comment of `create_and_push` and `scan`.
  - `PlistWritesInBounds`: a scan sizes `plist` from the threshold of the head it loaded and then walks from that head while other threads register. It never writes past `plist_size`, and `assert(index < max_pointers)` (`hazard_pointer.c:150`) holds at every record it starts on. With two threads, a racing registration raises the record below it only once, so the bounds exercise a single raise.
  - `ThresholdsAgreeWhenQuiet` is the assertion of `hazard_pointers_test.c:121`.
  - `NoReclaimWhileHazardous` is the guarantee of the engine.
  - `EachNodeHeldOnce`: every node is in exactly one place: `free_nodes`, the shared pointer, a writer's hands, or one retired list. It fails if scan's rebuilding of the retired list drops a kept node (a leak) or a node is released while still shared or retired (a double free).
  - `NoScanOfFreedRecord`: no scan of the teardown walks a record `destroy_all` has already freed. This is the reason for `cur->head = &cur`.
- **Size helpers.**
  - `ValidSizesArePowersAbove1` compares `queue_size_is_valid` with a reference definition, 0, 1 and `SIZE_MAX` included.

Why these bounds are enough:

- **Deque.** Two stealers and four pushes with an initial size of 2 make every branch happen: pops of the last element against both stealers, a grow while a stealer is between reading `top` and its CAS, and a second grow.
- **Ring queue.** Capacity 2 with 3 items fills the queue, wraps the slot index and crosses the counter wrap (254 to 1). With 8 bits and 3 items, a counter cannot come back to a value a thread loaded, which is also true of 64-bit counters.
- **MPSC FIFO.** Five nodes for four items allow a popped node to be reused while links are still pending. They do not force it.
- **Mutex queue.** Two slots and six calls reach each of these: a full ring, an empty ring, `write` and `read` at `end`, a putback at `read = 0`, and a 2-element vector that straddles the end. Two payloads tell positions apart. A vector length of 3 exceeds any `len`, so the clamp happens.
- **Hazard pointers.** Four nodes let a single thread exceed the retire threshold before the other registers. Two threads give racing registrations, concurrent scans and a reader against a writer.

Every pass run's properties have a mutant in `PROJECT.json`: a plausible bug in a mapped definition (for example a dropped guard or an off-by-one) that TLC finds.

## Findings

- **`wsd_nofence`.** Under `ARCH_x86_64`, `store_load_barrier()` is empty, so `pop_bottom`'s store of `bottom` can still sit in the store buffer when it reads `top`. A stealer and the owner then both return the same item (trace: the owner pops with size > 0 while the stealer's CAS succeeds on the same index).
- **`ringq_free`.** `free_relaxed` reads `put_pos` before `get_pos`. When dequeues overtake the stale `put_pos`, the unsigned difference wraps and the result exceeds the capacity.
- **`ringq_capacity`.** `mpmc_ring_queue.h` says only `q_size - 1` elements fit, but the queue holds `q_size`, which is also what the specification's example expects.
- **Not checked by a run.** `queuedef.h:28` says `size_to_power_of_2` returns 2 for sizes below 2. The code (`queuedef.c:38-42`) and `queuedef_test.c:16-17` return 1. The disagreement is visible by reading the code, and nothing in `src/` calls the helper. `QueueDef` translates its loop (`Shift`, `SizeToPowerOf2`), but no property is checked on it.
- **`mpsc_weak`.** Section 5 of the specification says acquire/release pairs on the FIFO tail and head order a producer's payload write before the consumer's read. `mpsc_fifo_push` has no release: the exchange is `__ATOMIC_ACQUIRE` and the link a plain store. Where the exchange is not a full fence, the consumer follows the link to a node whose `data` store is not yet visible and pops stale data (trace: push, exchange, link, then `trypop` before `StoreVisible`). x86-64 builds are safe, because `lock xchg` drains the store buffer; the `mpsc` run checks that case.
- **`hp_nofence`.** The specification says a hazard publication is visible "after a write barrier", but on x86 a store-load fence is needed before the re-read. Otherwise a scan reclaims a node that a reader has validated.

## Fairness

- **Deque.** Only the owner and the store buffer are weakly fair (`FairSpec`). The owner thread runs its loop, and x86 drains store buffers. Stealers get no fairness, so the drain result holds whatever they do.
- **MPSC FIFO.** Producers are threads that finish their loops, and the consumer keeps calling `trypop` until it has every item, then joins and destroys (`mpsc_test.c`). Producers, `TryPop` and `Destroy` are weakly fair.
- **Hazard pointers.** Every thread, every store buffer and the main thread are weakly fair. No action relies on strong fairness.
- **Mutex queue.** No liveness is claimed. `pthread_mutex_lock` promises no fairness, so a thread that spins on a full queue (as `queue_bench.c` producers do) can starve the consumer that would make room.

## Not modelled

- `mpmc_ring_queue_size` and `queue_size` return a constant.
- `queue_delete` has no caller in `src/`. `queue_bench.c` ends with `queue_destroy`. If it were called, it would stop at the first NULL payload, because `queue_dequeue` also returns NULL on empty. The model's payloads are never NULL, as no caller in `src/` enqueues NULL.
- Only the producer's stores are reordered in the FIFO model. The consumer's loads follow an address dependency (`head->next`, then `next->data`), which weakly ordered processors keep in order.
- Allocation failure in `create_and_push` (an unchecked `calloc`) is not modelled.

What cannot be modelled further, and why:

1. **Reclamation of the deque's old array.** No code in `src/` frees it. `wsd_test.c` drops the array that `push_bottom_autogrow` returns, so the arrays leak, and the model likewise keeps every array readable. A use-after-free needs a caller that frees the array, and there is none to translate.
2. **Progress of the ring queue.** Its operations are lock-free at best. The weak CAS may fail spuriously any number of times, and a thread may lose every CAS to others. So no single enqueue or dequeue is guaranteed to finish, and the code gives no fairness that would make such a property true. The FIFO, refinement and teardown properties are checked instead.
3. **The spec-only structures** (`mpmc_fifo`, `mpscr`, `spsc`, `lockfree_ring_buffer`, `mpmc_stack`). Their headers are not in `src/`. The specification describes them only as structures that need tagged pointers, with no algorithm to follow. The double-word CAS of `machine_specific.h` has no other user.
4. **Records with several hazards.** The model's client, a shared pointer with readers and writers, publishes one pointer at a time. The test's client publishes K = 4 nodes that it took from the pool itself. No other thread ever reaches those nodes, so their hazards protect nothing another thread could reclaim, and they add no interleaving the model lacks. A larger K would only raise the threshold 2·N·K and add slots that stay empty in every scan.
