# A TLA+ model of ARMS

ARMS (`src/src`) is a shim library that gives an application memory from two
tiers, a fast one (DRAM) and a slow one (NVM), both exposed as devdax files. It
intercepts `mmap` and `munmap`, serves page faults through userfaultfd, samples
the application's accesses with hardware counters, and in every interval moves
the hottest pages to DRAM and colder ones back. The repository also holds two
older policies (`src/src/policies`) and flexkvs (`src/apps/flexkvs`), a key-value
store with its own load generator, used to measure ARMS. This directory holds TLA+
specifications of them, TLC configurations that check them on small instances, and
TLAPS proofs of most of what is checked, for every value of the constants.

## 1. Inventory

### Threads and shared state

| thread | code | touches |
|---|---|---|
| application threads | `arms_mmap`, `arms_munmap` (arms.c), `pebs_add_page`, `pebs_remove_page` (pebs.c) | free lists, table `pages`, queue `mod_page_dq`, `page_lock`, `present` |
| fault thread | `handle_fault`, `handle_missing_fault`, `handle_wp_fault` (arms.c), `pebs_allocate_page` (pebs.c) | the same, spins on `page->migrating` |
| policy thread | `pebs_policy_thread` (pebs.c) | drains `mod_page_dq`, its own `pages_map`, scores, free lists, `migration_queue`, semaphores |
| migration threads (8) | `pebs_migration_thread`, `promote_to_free_dram_page`, `demote_to_free_nvm_page` (pebs.c), `arms_migrate_up/down`, `arms_wp_page` (arms.c) | `struct arms_page`, page tables, free lists |
| scan thread | `pebs_scan_thread` (pebs.c) | access counters of pages |

### Components

| component | state | operations | what makes it correct | hard because |
|---|---|---|---|---|
| page life cycle | `struct arms_page` (va, frame, present, migrating, page_lock), free lists, `pages`, `pages_map`, `mod_page_dq`, page tables | allocate, map, track, remove, drain, choose, promote, demote, reset | no frame lost or shared; a free page is unreachable; an address maps the frame its struct names; no struct leaked | five kinds of threads, locks held over parts of an operation only, a removal that is visible before it is complete, requests that outlive pages |
| migration hand-off | `migration_queue`, `submission_sem`, `completion_sem`, `num_migration_jobs`, `batch_size` | enqueue, post, wake, dequeue, complete, collect | each request executed once; intervals do not overlap; the policy thread never waits forever | posts and requests are not one to one |
| page copy | contents of two frames, write protection, `migrating` | protect, copy, remap, wait, wake | the application cannot tell that its page moved | stores at every point of the copy |
| linked lists (`fifo.c`) | first, last, next, prev, list, numentries | enqueue, dequeue, remove, walk | FIFO order, both directions agree | removal of ends and of the only entry |
| `mod_page_dq` (`kdq.h`) | ring, front, count, bits | push, shift, resize | order, nothing lost or doubled | wrapped ring that grows; pointer used after unlock |
| neighbour ring (`spsc-ring.c`) | buffer, head, tail | put, put2, get, reset, peek | a bounded FIFO that drops the oldest | one empty slot, wrap-around |
| promotion rule | score, prev_score, hot_age, can_promote | score, sort, mark, reset | only pages that stayed hot are promoted | history that belongs to a struct, not to a page |
| sampling mode | bias, cusum, time_since_recn, sampling_mode, period | detect, switch | mode, bias and programmed period agree; the detector settles | order of assignments, a way back with two conditions |
| sample scan and scoring | accesses[..][2], curr_access_version; running mean and two rings | count, flip, read, clear; walk, add, take off | no sample lost or counted for another page; a score is the mean of its window | unlocked counters of 16 bits, a struct freed before its reset; gaps and absent pages |
| parallel copy | `pmemcpy`, its lock, a barrier | copy, memset | all parts copied when the call returns, jobs not mixed | one job structure, two meetings at one barrier |
| interposition (`interpose.c`) | `internal_call`, `is_init`, `pages`, `pages_lock` | filter mmap, munmap; allocate | own calls are not intercepted, the application's are | a flag, not a depth; hooks below the allocator |
| LRU policy (`lru.c`) | four lists for each tier, `in_kscand`, `global_lock` | scan, swap, fault, remove | as the page life cycle | a scan outside the lock, a wait before it |
| HeMem manager (`hemem-mmgr.c`) | nodes and their lists, `freebytes`, page locks | fault, remove, cool, thaw, move | nodes on one list, frames and counters right | removal without the lock |
| flexkvs item log | segments, items with counts, cleanup queues | SET, GET, clean, maintain | the store is an atomic map; no live item is given back | cleaner, maintenance and requests at once |
| flexkvs segment allocator | free list, `seg_alloced`, spin lock | allocate, free | a segment has one owner | checks and an unlock outside the lock |
| flexkvs hash table | slots and chain of a bucket | get, put, compare-and-set | one item a key, one reference each | heads of chains |
| flexkvs receive buffer | two parts of a ring | receive, consume | the next bytes of the stream, in order | wrap-around |
| flexkvs socket server | receive and transmit buffers, epoll mode, `c->it` | receive, process, send, close | no byte lost, every request answered | partial reads and writes, pipelined requests, hang-ups |
| flexkvs benchmark | queue of connections, `msgs_pending`, phases | connect, load, send, receive | one request a connection, every connection used | partial reads and writes, phases across threads |

`PROJECT.json` lists every component with its sources and status, and the
hazards line by line.

## 2. Plan

The order followed: the hand-off and the page life cycle (with proofs), the copy of
a page, the containers and the rules they rest on, then the components around them:
access counters and smoothing, parallel copy, interposition, the two other
policies, and flexkvs from its allocator up to its server and its client. All of
these are modelled and checked.

The proofs follow the same order: the hand-off, the types of the page life cycle,
its ownership invariants in every `UnmapMode`, its mapping invariants when `munmap`
cannot race a migration, the copies, the containers, the rules of the policy
thread, and the byte streams, segments and items of flexkvs (section 7). What is left to
TLC is listed at the end of that section.

## 3. Modules and how they correspond to the code

Names of variables and operations are the code's where TLA+ allows it. An action
is a stretch of code between two points where another thread matters: a lock, a
semaphore, a system call. `PROJECT.json` ("map") gives the lines of every
definition. Operators under a comment "A bug to catch" are mutated forms of the
operator that follows; the specification does not use them.

* **MigrationSpec** is the promise to the policy thread: requests are submitted
  in phases, each is executed once, a phase begins only when everything of the
  last one is acknowledged. **MigrationQueue** is the code: the list as a sequence
  (oldest first), the two semaphores as counters, the policy thread
  (`policy_pc`: sleep, wait for completions, loop, post) and each worker (wait,
  poll, work). `Enqueue` and `Post` are separate steps, as the list's lock and
  `sem_post` are in the code. `Promise` is the refinement mapping.
* **PageTiering** is the life of a page. A page is a `struct arms_page`; `frame`
  is the pair of `in_dram` and `devdax_offset`. `thread` holds the place of the
  fault thread and of each application thread inside `handle_missing_fault`,
  `arms_mmap_populate` or `arms_munmap`; `step` that of the policy thread; `wstep`
  that of a worker inside a request. The hand-off is an instance of
  `MigrationQueue` over the same variables: every step of the policy thread or a
  worker that touches it conjoins the corresponding action of that module. All
  `assert`s on these paths are `ThreadAsserts`, `PolicyAsserts` and
  `WorkerAsserts`; a thread in front of one that is false takes `AssertFails`.
  Abstracted: scores are any order of the present pages, `can_promote`, the
  cost-benefit test and the budget are choices; a mapping is one page long; the
  application does not touch an address it is unmapping.
  `UnmapMode` says when `munmap` may run (see section 5).
* **AtomicPage** is what an application expects of a page; **PageCopy** is one
  page during its migrations: words, the two frames, the protection, the spinning
  fault thread. The kernel's part (a store is atomic, `UFFDIO_WRITEPROTECT` takes
  effect at once, a fresh mapping is not protected) is assumed.
* **FifoSpec** and **FifoList**: `fifo.c` pointer by pointer, as an implementation
  of FIFO queues. `enqueue_fifo_m` and `dequeue_fifo_m` are the same code.
* **BoundedFifo** and **SpscRing**: `spsc-ring.c`.
* **ModPageQueue**: `kdq.h` as `mod_page_dq` uses it, with the step between
  `kdq_shift` and the use of the pointer it returns. Producers push in that step too:
  they may fill the slot again or make the ring grow and move. `spoilt` and `misread`
  are history variables that remember which reads this has hit.
* **PromotionRule**: score history, `hot_age` (with its width), `can_promote`, and
  the reset when a page is released. Structs are used again, as in the code; `streak`
  and `inherited` (the structs that came to their page with `can_promote` set) are
  history variables.
* **Sampling**: the Page-Hinkley detector, bias, mode and programmed period.
  Bandwidth is abstracted to the deviation that enters the sum.
* **AccessCount**: the counters of sampled accesses between the scan thread (which
  loads and stores them in two steps, unlocked) and the policy thread (flip, drain,
  reset, read, clear), with a narrow width so that they wrap. `truth` counts the
  samples, `disturbed` marks the counters a race has spoilt.
* **Smoothing**: the walk of `calculate_scores_tree`. The running mean is the bag of
  pages in it, so that "added twice" and "not taken off" can be told apart.
  `SPATIAL_SMOOTHING` is off (pebs.h:33): the default build leaves the walk out.
* **ParallelCopy**: callers, the job structure, the copy threads word by word.
  `USE_DMA` is defined unconditionally (arms.h:57), so this code is not compiled at this
  commit; the model is of a build without it.
* **Interpose**: what a thread still has to do is a stack of operations; a hooked
  call puts the operations of its handler in front. `pebs_add_page` may make the table
  of pages grow, which allocates and frees under `pages_lock`; `kdq_push` may make the
  ring of page changes grow, by a plain `realloc`. Page faults make the same calls
  (arms.c:885 to 981) under a flag of their own and are left out, and so is
  `mod_page_dq_lock`: nobody who holds `pages_lock` waits for it. The model ends when
  ARMS has begun to manage memory of its own (`ManagesItself`): what a `realloc` copies
  into such memory is not followed.
* **Lru** and **PageManager**: the two other policies, one list operation at a time, as
  neither `lru_kscand` nor `arms_mmgr_remove_page` takes the global lock. In `Lru` the
  unlocked look at `numentries` and the dequeue behind it are two steps. In
  `PageManager` a node is in the hand of the manager thread between its lists, a
  look at a list and the removal from it are two steps, a fault is two, and a removal
  is four; there is one removal at a time. A failed assertion, a `NULL`
  that is used and a self-deadlock are kept in `failed` and end the behaviour. Neither
  policy is in the default build.
* **KvStore** is what a client expects of a key-value server; **ItemStore** is
  flexkvs's log of items with reference counts, requests, cleaner and maintenance
  thread. **SegmentAlloc** and **HashTable** are the parts ItemStore takes as one
  step each: the allocator statement by statement, a bucket pointer by pointer.
* **RecvBuffer** (flextcp) and **ServerConn** (sockets) are the two receive paths
  of the server; ServerConn also has the answers, the epoll mode and the reference
  a connection keeps, and counts bytes in 16 bits as the code does: a behaviour ends
  when a length has wrapped. **BenchClient** is the load generator. Each takes the other
  side of the socket as external.
* **MCPageTiering**, **MCWarm**, **MCThreads**, **MCStores** instantiate these for
  TLC. `MCWarm` starts from a state a long run reaches (all addresses mapped, DRAM
  full or empty). `MCThreads` and `MCStores` put components that share no state side by
  side: the variable `used`, fixed in the initial state, names the one that runs,
  so the states are the sum of the components' states and not their product, and
  each property speaks about the behaviours of its own component.
* **MigrationQueueProofs**, **PageTieringProofs**, **PageMappingProofs**,
  **ThreadsProofs**, **PolicyProofs**, **ItemStoreProofs** and **StoresProofs** hold
  the theorems (section 7). The third extends the second.

## 4. Runs

| run | instance | shows |
|---|---|---|
| `mq` | 2 workers, 3 requests, batch size 1 or 2 | `JobsConserved`, `RequestsDistinct`, `LoopStartsIdle`; implements `MigrationSpec` (safety); if every request is posted, the policy thread's wait ends and no request is left behind |
| `mq_lost_wakeup` | 2 requests, batch size 1 | violation: `WaitTerminates` fails when more than `batch_size` requests are submitted and the woken worker has gone back to sleep before the last one |
| `pt_reuse` | 1 DRAM and 2 NVM frames, 3 addresses, 2 munmaps, `quiescent` | free lists, aliasing, translations, table and assertions of the page life cycle, with reuse of structs and addresses |
| `pt_race` | 1 DRAM and 3 NVM frames, `any` | frames and structs are neither lost nor doubled, whatever `munmap` interleaves with; exchanges and skipped requests happen |
| `pt_exchange` | 2 DRAM and 5 NVM frames, 5 addresses, 2 workers, warm | two exchanges at once: they share no page, and no two addresses end up on one frame |
| `pt_live` | 2 DRAM and 3 NVM frames, 3 addresses on NVM at first, two requests an interval and one post, one munmap, `any`, with fairness | `munmap` returns; if every request is posted and no assertion fails, a removed page gets back to a free list |
| `pt_present` | `any` | violation: a page freed before `present` was cleared fails `assert(!page->present)` |
| `pt_stale` | `asleep` | violation: a worker migrates a struct that was released and allocated again |
| `threads` | lists of 4 entries; ring of 4 slots; a queue growing from 4 to 8 slots; threshold of 3 drifts, 3 periods; 2 threads, 2 words, 2 migrations; 3 copy threads, 3 jobs; 2 benchmark threads with 2 connections; 2 server connections | the containers are the queues they should be (`ListRight`, `RingsRight`, `AreQueues`); mode follows bias and settles (`ModeRight`); loads and stores are atomic and get through (`Invisible`), copies complete and end (`CopiesRight`); `BenchSafe` and `EveryConnUsed`; `ServerSafe` and `RequestsAnswered` |
| `stores` | 2 structs over 1 DRAM frame; 1 page, counters of 2 bits; 7 addresses, 2 neighbours; 2 application threads; 1 DRAM and 2 NVM frames (LRU), 2 and 1 (HeMem); 2 cores, 2 keys, 5 segments; bucket of 2 slots, 4 keys, 5 items; 2 segments, 2 threads; ring of 5 bytes | `MarkEarned`, `CountsRight`, `SmoothedRight`, `InterposeSafe`, `LruSafe`, `ManagerSafe`, `ItemsSafe`, `IsAtomicMap`, `TableIsMap`, `SegmentsOwned`, `BufferIsStream` |
| `sampling_period` | the detector of `threads` | violation: the period programmed on a switch is that of the old mode |
| `conn_close` | the server of `threads` | violation: a connection that closes drops a reference that was dropped before |

**Bounds.** One DRAM frame is enough for every page to compete for it; three
addresses make a candidate, a victim and a page below the first `NDram` scores,
which an exchange needs; a third NVM frame makes room for it. Two munmaps allow a
struct to be released, used again and released again. Two exchanges at once need
two DRAM frames and five pages, as a victim's index must exceed `NDram`; that run
covers one interval, and overlap of intervals is the matter of `pt_race` and
`pt_reuse`. `MaxPermits` bounds the posts left over when an interval starts; the
real number is bounded by `batch_size`, since in 100 to 500 ms a woken worker gets
to poll. In `pt_live` three addresses on NVM and two free DRAM frames make more requests
in an interval than posts, so that requests are left on the list; the application only
unmaps there. The
queue grows once, wraps in both sizes, and is full while an entry is read. Ages and
access counters wrap within the explored depth. Seven addresses hold a window, a gap and another
window; all subsets are walked. Five segments are two for each core, as at start,
and one to go on to; two SETs fill a segment, a third closes it, which makes it
worth cleaning, and a fourth races with the cleaner (three of one key, one of a key
whose item is in a chain). Five items in a bucket of two
slots make a chain of three and leave one to replace with. Requests of 2 to 4 bytes
in a ring of 5 meet the end of the ring at every place. An answer of 2 bytes over a
socket that takes 1 needs two writes, and two requests in a window are pipelined,
so that one is found in the buffer when the other has been answered.

**Symmetry** (addresses, workers, values of the store) is used in runs without
liveness properties.

**Deadlock.** The pages and queues may come to rest (nothing to map, bounds
reached, a process that aborted, the lost wake-up), so most runs switch the
deadlock check off; progress is stated as liveness.

## 5. What the runs say about the code

With `munmap` confined to moments when policy and migration threads are idle
(`quiescent`), everything holds. In any interleaving, ownership still holds: no
frame is lost or owned twice, no struct leaks, requests are disjoint. What fails:

* **Removal is announced before it is complete** (`pt_present`, pebs.c:1444).
* **Requests outlive pages** (`pt_stale`): the queue of removals is drained before
  the completions of the last interval are collected, so a struct may be freed and
  allocated again while a request names it; `present` is true again and does not
  stop the worker.
* **Lost wake-up** (`mq_lost_wakeup`, pebs.c:1249).
* **The period of the old mode is programmed** (`sampling_period`, pebs.c:1331).
* **A closing connection drops a reference twice** (`conn_close`,
  apps/flexkvs/server/main.c:214).

Some passing properties say how far a defect reaches, as the code has it. Their
histories show the case: with the formula in brackets as an invariant of the module,
TLC prints a behaviour that gets there.

* `RingsRight` (`misread = {}`, ModPageQueue): the policy thread reads an entry of
  `mod_page_dq` after the unlock (pebs.c:1076 to 1079), and a producer that fills the
  ring in between overwrites it or frees the array. The entry read is a later one or
  garbage, and an addition may be processed twice, which `assert(absent)` (1119) does not
  allow. These are the only entries that can come out wrong.
* `MarkEarned` (`\A p \in Promotable : streak[p] = 2`, PromotionRule): `can_promote`
  is not reset when a struct is released (pebs.c:536 to 550), so its next page may be
  promoted in the first interval in which it is hot, against the comment at pebs.c:1149.
  No other page is, and such a struct loses the mark as soon as it is not among the
  hottest.
* `SmoothedRight` (its last conjunct without `Contiguous`, Smoothing): the second
  iterator stays at the first gap in the addresses (pebs.c:676), so pages behind it are
  scored without their right neighbours, which the comments at 672, 698 and 724 intend.
  Left neighbours, and all neighbours before the gap, count.
* `CountsRight` (`disturbed` is false everywhere): a sample may be lost or revived, but only if its
  counter was cleared in the middle of the increment, or late.
* `InterposeSafe` (`~ManagesItself`): after the table has grown in a call,
  `internal_call` is down (arms.h:229); if the ring of page changes grows in the same
  call (kdq.h:43 from pebs.c:1416), the hook gives ARMS managed memory for its own
  `realloc`. And a `free` that unmaps while the table grows (khash.h:299) leads back to
  `pages_lock`, which the thread holds. Neither happens in a call in which no table has
  grown.
* `LruSafe` (`failed = "none"`): the scan, which takes no lock, may start after
  `lru_remove_page` has waited for it (lru.c:474), and hold or move the page; and
  kswapd may empty the list between the look of `shrink_caches` and its dequeue
  (lru.c:71), whose `NULL` is then used. Nothing else crashes, but for NVM being full.
* `ManagerSafe` (`failed = "none"`): a removal that meets the manager thread fails its
  assertion (hemem-mmgr.c:549) or takes the node from a list it is not on; one that
  meets a migration may take a node that has been freed (`torn`), after which tiers and
  counters differ. Otherwise the counters of free bytes are off by the pages removed,
  and nothing crashes before a tier is full.
* `ServerSafe` (`~overrun`): nothing limits the length of a request, and buffers of
  1,000,000 bytes have 16-bit lengths (flexkvs, server/main.c:46, 60); when a length has
  wrapped, a complete request is not seen to be complete (261).
* Every property of the page life cycle holds up to an abort for lack of memory
  (`aborted # "oom"`): removed frames that still wait for the policy thread do not count
  as free (pebs.c:1385). For the same reason `RemovedPagesFreed` is about behaviours
  without the abort; and it needs `WithinBatch`, as after the lost wake-up nothing is
  drained any more.

Two more models stop where the code leaves what it can rely on: `SegmentAlloc` when the
stray unlock (ialloc.c:129) meets a holder, `ItemStore` when the maintenance thread would
go on in a segment that has been handed out again (ialloc.c:458).

## 6. Fairness

Every thread that can run is scheduled again: weak fairness of each thread's
steps. `sem_wait` wakes some waiter, not a particular one: weak fairness of the
workers together for `Wake`. `page_lock` has at most one worker besides the
releasing thread. The detector's thread runs every interval. A copy job, the copy
threads and the barrier go on; the mutex of the copy need not be fair. Every thread
of the benchmark runs, and so does its server (external), which answers what it has
received. The server's worker runs; `epoll_wait` reports every ready connection
with the next batches, so each connection with an event is served (strong fairness);
clients (external) read their answers and finish the requests they have begun, but
need not begin any. No fairness is assumed of what the application or the policy
chooses to do: mapping, touching, unmapping, submitting a request, beginning a
migration.

## 7. Proofs

`MigrationQueueProofs`, for any finite set of workers, any requests, bounds and
batch sizes:

* `TypeCorrect`. `TypeOK` is inductive.
* `JobsAreConserved`: `num_migration_jobs` = queued + held + uncollected
  completions. Inductive together with `TypeOK`: a dequeue moves one from the list
  to the busy workers (`BusyAdd`), a completion from there to `completion_sem`
  (`BusyRemove`).
* `NoRequestTwice`: `Enqueue` only adds a request that is not outstanding, and
  `Dequeue` moves the head; the lemmas `EnqueueSets`, `DequeueSets`, `CompleteSets`
  say what happens to the sets of queued and held requests.
* `IntervalsDoNotOverlap` and `MachineryKeepsPromise` (refinement of
  `MigrationSpec!SafeSpec`) follow from `IInv == TypeOK /\ JobsConserved /\
  RequestsDistinct`: at `StartLoop` the count is 0, so list, workers and
  completions are empty (`IdleMachine`).

`PageTieringProofs`, for any number of frames, addresses, threads and workers, in
every `UnmapMode`:

* `TypeCorrect`: besides shapes, `TypeOK` says that a thread has the page its
  place needs, that the loop's indices stay inside the scores, that a worker past
  the lock has both frames. One lemma per action; the types of the hand-off come
  from `MigrationQueueProofs` through `HandOffStep`.
* `UsesMigrationQueue`: every step is a step of `MigrationQueue` or leaves it
  alone, so `SafeSpec => MQ!SafeSpec`. The only interesting case is that submitted
  requests are requests (`SubmittedRequests`), which needs the indices.
* `HandOffHolds`: hence the count of jobs and the distinctness of requests hold in
  the composed system.

In the same module, likewise in every `UnmapMode`: `StructsAccounted`,
`RequestsNeverShare`, `NoFrameLost` and `PolicyTableRight`. None of the four is
inductive. `OwnInv` adds what keeps them true:

* every struct has one kind of owner, and that owner has it once (`Accounted`,
  `Once`); an address has one thread at work (`ThreadPlaces`), and a struct is
  tracked under the address it bears until its removal is reported (`TablePlaces`);
* the entries of `mod_page_dq` about an address alternate, and after all of them
  `pages_map` is the table, but for what a thread is about to report
  (`EntriesAlternate`, `EntriesComplete`). A struct whose addition still waits has
  not been given back (`AdditionsFirst`). This is why draining makes the policy
  thread's table current;
* the pages that were scored cannot reach a free list before the next drain, and
  what has been submitted lies outside `promote_idx .. demote_idx` (`ScoresKnown`,
  `SubmittedOutside`), so a new request shares no page with an old one
  (`RequestsApart`). This is why a request that outlives its page still damages
  nobody's ownership;
* a worker saves the two frames it is about to exchange while it holds the pages
  (`FramesSaved`), so the exchange is a permutation (`OneStructEach`).

`PageMappingProofs`, when `munmap` runs only in quiescence (`QuietMode`; `pt_stale`
and `pt_present` show the failures otherwise): `NoFrameShared`, `FreePagesClean`,
`TableMatchesKernel`, `OwnMappingMoved`, `AssertsHold`. `MapInv` says that while a
thread releases a page nothing is outstanding (`Quiet`), how far a release has got
(`Untracked`, `ReleasedPages`), that `present` and the kernel's table agree with the
table of pages (`PresentRight`, `TablesAgree`), that requests and scores name tracked
pages (`RequestsTracked`, `ScoresTracked`) and in which tier candidates, lists,
requests and the pages of a worker are (`CandidateTier` to `LocksHeld`). With
`OwnInv`, no two addresses share a frame because no two structs do.

`ThreadsProofs`:

* `ListsAreRight` and `ListsAreQueues` (the refinement of `FifoSpec`) about `FifoList`,
  for any lists and entries. What a list holds is defined as a walk along its links that
  ends where there is no next one. That there is at most one such walk is proved from the
  least place where two would differ (`OneWalk`); each operation is then shown to give the
  walk it should: one entry more in front, the oldest gone, or one gone from the middle,
  which cuts the walk in two at that entry. The other lists keep theirs because no entry
  is on two lists.
* `PeeksRight` and `RingIsFifo` about `SpscRing`: the ring as a walk from `tail` to
  `head`; each operation is shown to change the walk as `BoundedFifo` says.
* `QueueIsFifo` and `ChangesInOrder` about `ModPageQueue`: the `count` entries from
  `front` on, modulo the size, are the last that were pushed, in order (`QueueInv`),
  and what was taken before is what the policy thread used (`OrderInv`). A growing ring moves the wrapped part
  behind the rest, where the larger modulus finds it. `RingsAreRight` puts them
  together. Producers push at any moment: `OrderInv` follows the slot that `kdq_shift`
  returned until it is read, and says that it holds the entry taken unless a push has
  filled it or moved the ring since.
* `ServerIsSafe` about `ServerConn`: for each connection, what was sent, what is in
  the socket, in the receive buffer and answered add up to whole requests
  (`BytesInv`), and the connection at work is in the state its place in the
  event loop needs (`PhaseInv`). Requests are of any length and lengths are counted
  modulo `LenMod`; the statement is for as long as no length has wrapped.
* `BenchIsSafe` about `BenchClient`: a request is either partly unsent or wholly on
  its way (`Pieces`); the queue holds, without repetition, the open connections,
  then all, then those without a request (`QueueOf`); the counter is the number of
  busy connections (`CountOf`), for which the queue of a thread that loads must say
  that a connection waiting to write has sent only a part; `init_count` is the
  number of threads that are done, so the last phase finds all of them done
  (`PhasesInv`).
* `CopyIsFaithful` (no store reaches a page between the copy of a word and the remap),
  from the protection and the place of the migrator; from it `MigrationInvisible`, the
  refinement of `AtomicPage` with `mem <- data[mapped]`, step by step.
* `CopiesComplete` about `ParallelCopy`, for any callers: the lock is held by the
  caller whose job is published (`LockInv`), each copy thread is as far as its chunk
  (`ChunksInv`), a frame changes for its own job only (`FramesInv`).

`PolicyProofs`: `ModeAndBiasAgree` and `RecencyKept` from `ModeInv`;
`OnlyStayedHotPromoted` from `RuleInv` (a positive `hot_age` means the page was hot in
the last interval, and `can_promote` in the last two, save for a struct that has had
the mark since it was released); `SamplesCounted` from `CountInv`: no table names a
struct that is on the free list (`TablesInv`), so that what the policy thread clears
late is the one exception, and elsewhere a counter differs from the truth by the
increment under way only (`CountersInv`).

`ItemStoreProofs`:

* `ItemsAreSafe` about `ItemStore`: the parts of `ItemsSafe` need the parts of `ItemInv`
  and these need it. A count is a sum over the table, the requests and the queues,
  and a step moves one reference from one of these to another or changes the count with
  it (`Replacing`, `Pushed`, `Popped`). A segment is in one place: free, reserved or in
  one log (`Apart`); only the last segment of a log has room and a reserved one is
  unused (`Filling`), so an allocation finds an item without references; a scan that
  goes on is of a segment still in its core's log or back on the free list
  (`ScanRight`); the item of a request or of a copy that is not in the table yet is
  known to its core alone (`FreshRight`).
* `StoreIsMap`: the refinement of `KvStore`, step by step. Moving an item in the
  cleaning replaces it in the table by a copy with the same key and value (`Contents`),
  unless a SET has replaced it before (the compare-and-set), and so is invisible;
  a request that has read an item keeps it until it has answered, as it holds a
  reference.

`StoresProofs`:

* `SegmentsAreOwned` about `SegmentAlloc`, statement by statement. The free list is the
  least set with its first segment that the links do not leave (`ChainOf`); `Acyclic`
  says that no segment of it is met again. `Holds` is what the holder of the lock
  knows of the list and of the count, `HandsOf` what a thread has in its hands, and
  `OneHolder` that the lock has one holder unless the stray unlock has met one.
* `ScoresAreSmoothed` about `Smoothing`. `SmMean` says that the mean counts an address as
  often as the rings hold it; for this no address may leave both rings at once, although
  `Shift` takes it out of the mean only once (`SmRings`: an address in both leaves the
  right ring first). While no page has been cleared, `SmLeft` says that the left ring is
  the run of pages that ends before the current one, once the pages that are not adjacent
  have been popped, and `SmRight` that `n_itr` is either right behind the right ring, with
  no gap in the tree up to there, or has stopped at a gap for good. Together they are the
  window when the page is scored (`MeanIsWindow`).
* `TableIsRight` about `HashTable`. The invariant gives the chain as a sequence of items
  (`ChainFrom`) and says that an item is in one slot or at one place of the chain
  (`OnePlace`, the last slot being the head of the chain) exactly when the table refers
  to it (`Referred`), and that these items are the ones put, each under its key
  (`Mapped`). The walk of hasht_get meets the chain and then `NULL`, and it is long
  enough, as the items of the chain are distinct and finite in number (`WalkAlong`).
  Every hasht_put is one of three exchanges: an item for another in a slot or in the
  chain (`ShapeReplaced`), or for none (`ShapeInserted`).
* `SegmentsAreStream`: the two segments of the receive buffer are what was received
  and not consumed, whichever of them wraps (`SegmentsInv`). The assertions and the
  abort of the code are unreachable.

**Assumptions.** The named `ASSUME`s of the components: sizes are naturals, sets of
workers, connections and copy threads are finite or not empty where the code has at
least one, `None` is none of the objects, lengths fit their fields. The theorems
about components of `MCThreads` and `MCStores` are about the `Spec` of those modules:
`OneComponent` (and `StoreRuns`) says that a step of the composition
is a step of the component that runs and leaves the others alone. Their bounds (`MaxPush`, `MaxRequests`, ...) are
constants with any value. The only `ASSUME` inside theorems is `QuietMode`: where the code
breaks the property, TLC shows how (`pt_present`, `pt_stale`).

**Only model-checked.**

* Liveness, and what needs `ENABLED`: outside the prover's reach. These are
  `ProgressWithinBatch`, `MunmapReturns`, `RemovedPagesFreed`, `EveryConnUsed` and
  `RequestsAnswered`. `AreQueues`, `ModeRight`, `CopiesRight` and `Invisible` contain a
  liveness part; the safety part is proved, of the first for the lists and the ring.
* `InterposeSafe`, `LruSafe` and `ManagerSafe`. Every other property of a passing run is
  the subject of a theorem.

## 8. Not modelled

* The weights of the moving averages (floating point) and the hardware side of
  sampling: opening and programming the counters, the layout of perf rings.
* Start-up but for what the hooks see of it; shutdown, statistics, timers, logging
  and bandwidth registers. The threads are started before their semaphores are
  initialised (pebs.c:1561); what that does is up to the C library.
* The copy by DMA engine (`USE_DMA`, arms.h:57, which this commit compiles), `LRU_SWAP`,
  `simple.c` (a bump allocator) and `paging.c` (page tables of the kernel).
* `khash.h` and `kbtree.h`: third-party, taken as maps and sets.
* DELETE of flexkvs, which only a `DEL_TEST` build sends; accepting connections; key
  distributions and histograms of the benchmark; the variants `main-ll2.c` and
  `main-flexnic.c` for other network stacks.
* Microbenchmarks are load generators; the kernel patches belong to another program.
