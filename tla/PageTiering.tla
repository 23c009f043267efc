----------------------------- MODULE PageTiering -----------------------------
(***************************************************************************)
(* The life of a page in ARMS (src/src/arms.c, src/src/pebs.c): a          *)
(* struct arms_page stands for a frame of the DRAM or the NVM device, is   *)
(* handed out on a fault or by mmap(MAP_POPULATE), tracked in the hash     *)
(* table pages, reported to the policy thread through mod_page_dq,         *)
(* migrated between the tiers by the migration threads, and given back     *)
(* after munmap.  Threads: the fault thread, application threads inside    *)
(* mmap and munmap, the policy thread, the migration threads.  One action  *)
(* is one stretch of code between two points where other threads matter    *)
(* (a lock, a semaphore, a system call).                                   *)
(*                                                                         *)
(* The hand-off of requests is MigrationQueue, instantiated below over the *)
(* same variables.  Lists are sequences, oldest entry first (FifoList      *)
(* shows that the linked lists of fifo.c are).  Hotness is abstracted:     *)
(* the order of scores, can_promote, the cost-benefit test and the budget  *)
(* of an interval are nondeterministic.                                    *)
(***************************************************************************)
EXTENDS Integers, Sequences, FiniteSets, Functions

CONSTANTS NDram, NNvm,   \* dramsize/PAGE_SIZE and nvmsize/PAGE_SIZE
          VAs,           \* huge-page aligned virtual addresses
          FaultThread,   \* handle_fault
          Apps,          \* application threads that mmap and munmap
          Workers,       \* pebs_migration_thread
          MaxJobs, BatchSizes, MaxPermits,  \* see MigrationQueue
          MaxUnmaps,     \* bound on the munmap calls of a behaviour
          UnmapMode,     \* when munmap may run: "never", "quiescent",
                         \* "asleep" or "any" (see MayUnmap)
          None           \* no page, no address, no frame, no owner

Threads == {FaultThread} \cup Apps
Pages == 1 .. NDram + NNvm
Frames == ({TRUE} \X (0 .. NDram - 1)) \cup ({FALSE} \X (0 .. NNvm - 1))

ASSUME SizesAssumption == NDram \in Nat /\ NNvm \in Nat /\ MaxUnmaps \in Nat
ASSUME NoneAssumption ==
    None \notin Pages \cup VAs \cup Frames \cup Workers \cup Threads
ASSUME ThreadsAssumption == FaultThread \notin Apps
ASSUME HandOffAssumption ==    \* what MigrationQueue assumes
    /\ IsFiniteSet(Workers) /\ Workers # {}
    /\ MaxJobs \in Nat /\ MaxPermits \in Nat /\ BatchSizes \subseteq Nat \ {0}
ASSUME UnmapModeAssumption == UnmapMode \in {"never", "quiescent", "asleep", "any"}

\* A migration_req; dram_page is NULL when no demotion is needed.
Reqs == [dram_page : Pages \cup {None}, nvm_page : Pages, free_page : Pages,
         need_demotion : BOOLEAN]
ASSUME ReqsAssumption == None \notin Reqs

VARIABLES
    \* struct arms_page; frame is the pair in_dram, devdax_offset
    va, frame, present, migrating, page_lock,
    \* the free lists, the tracking table, the policy thread's own table and
    \* the queue of additions and removals between them
    dram_free_list, nvm_free_list, pages, pages_map, mod_page_dq,
    \* the kernel: the frame mapped at an address, the state of its region
    page_table, region,
    \* the threads that allocate and release pages
    thread, unmaps,
    \* the policy thread
    step, scores, promote_idx, demote_idx, np,
    \* the migration threads: place inside a request and saved frames
    wstep, old_frame, new_frame,
    \* an assertion ended the process: "no", "oom" or "assert"
    aborted,
    \* MigrationQueue
    migration_queue, submission_sem, completion_sem, num_migration_jobs,
    batch_size, policy_pc, worker_pc, worker_req

structVars == <<va, frame, present, migrating, page_lock>>
freeLists == <<dram_free_list, nvm_free_list>>
tables == <<pages, pages_map, mod_page_dq>>
kernelVars == <<page_table, region>>
policyVars == <<step, scores, promote_idx, demote_idx, np>>
workVars == <<wstep, old_frame, new_frame>>
mqVars == <<migration_queue, submission_sem, completion_sem,
            num_migration_jobs, batch_size, policy_pc, worker_pc, worker_req>>
vars == <<structVars, freeLists, tables, kernelVars, thread, unmaps,
          policyVars, workVars, aborted, mqVars>>

MQ == INSTANCE MigrationQueue WITH NoReq <- None

in_dram(p) == frame[p][1]

IdleThread == [pc |-> "idle", v |-> None, page |-> None]

\* pebs_init: a struct for every frame, all of them on the free lists.
Init ==
    /\ va = [p \in Pages |-> None]
    /\ frame = [p \in Pages |-> IF p <= NDram THEN <<TRUE, p - 1>>
                                ELSE <<FALSE, p - NDram - 1>>]
    /\ present = [p \in Pages |-> FALSE]
    /\ migrating = [p \in Pages |-> FALSE]
    /\ page_lock = [p \in Pages |-> None]
    /\ dram_free_list = [i \in 1 .. NDram |-> i]
    /\ nvm_free_list = [i \in 1 .. NNvm |-> NDram + i]
    /\ pages = [v \in VAs |-> None]
    /\ pages_map = [v \in VAs |-> None]
    /\ mod_page_dq = <<>>
    /\ page_table = [v \in VAs |-> None]
    /\ region = [v \in VAs |-> "none"]
    /\ thread = [t \in Threads |-> IdleThread]
    /\ unmaps = 0
    /\ step = "asleep" /\ scores = <<>> /\ promote_idx = 0 /\ demote_idx = 0
    /\ np = None
    /\ wstep = [w \in Workers |-> "idle"]
    /\ old_frame = [w \in Workers |-> None]
    /\ new_frame = [w \in Workers |-> None]
    /\ aborted = "no"
    /\ MQ!Init

------------------------------------------------------------------------------
(* Allocation: handle_missing_fault in the fault thread, and               *)
(* arms_mmap_populate in an application thread.                            *)

\* The place of thread t in its code, with the address and page it works on.
Goto(t, pc, v, p) == thread' = [thread EXCEPT ![t] = [pc |-> pc, v |-> v, page |-> p]]

\* The application touches a reserved address that has no frame yet; the
\* kernel sends the missing fault to the fault thread, which serves one
\* message at a time (MAX_UFFD_MSGS is 1, other messages wait).
MissingFault(v) ==
    /\ thread[FaultThread].pc = "idle"
    /\ region[v] = "ready" /\ page_table[v] = None
    /\ Goto(FaultThread, "dram", v, None)
    /\ UNCHANGED <<structVars, freeLists, tables, kernelVars, policyVars,
                   workVars, mqVars, aborted, unmaps>>

\* arms_mmap reserves the address and registers it; with MAP_POPULATE it also
\* allocates, and the application gets the address only after that.
Mmap(a, v, populate) ==
    /\ thread[a].pc = "idle"
    /\ region[v] = "none"
    /\ region' = [region EXCEPT ![v] = IF populate THEN "mapping" ELSE "ready"]
    /\ IF populate THEN Goto(a, "dram", v, None) ELSE UNCHANGED thread
    /\ UNCHANGED <<structVars, freeLists, tables, page_table, policyVars,
                   workVars, mqVars, aborted, unmaps>>

\* pebs_allocate_page takes the oldest free DRAM page ...
AllocateDram(t) ==
    /\ thread[t].pc = "dram"
    /\ IF dram_free_list # <<>>
       THEN LET p == Head(dram_free_list) IN
            /\ dram_free_list' = Tail(dram_free_list)
            /\ present' = [present EXCEPT ![p] = TRUE]
            /\ Goto(t, "map", thread[t].v, p)
       ELSE /\ Goto(t, "nvm", thread[t].v, None)
            /\ UNCHANGED <<dram_free_list, present>>
    /\ UNCHANGED <<va, frame, migrating, page_lock, nvm_free_list, tables,
                   kernelVars, policyVars, workVars, mqVars, aborted, unmaps>>

\* ... and falls back to NVM, or aborts the process.
AllocateNvm(t) ==
    /\ thread[t].pc = "nvm"
    /\ IF nvm_free_list # <<>>
       THEN LET p == Head(nvm_free_list) IN
            /\ nvm_free_list' = Tail(nvm_free_list)
            /\ present' = [present EXCEPT ![p] = TRUE]
            /\ Goto(t, "map", thread[t].v, p)
            /\ UNCHANGED aborted
       ELSE /\ aborted' = "oom"
            /\ UNCHANGED <<nvm_free_list, present, thread>>
    /\ UNCHANGED <<va, frame, migrating, page_lock, dram_free_list, tables,
                   kernelVars, policyVars, workVars, mqVars, unmaps>>

\* The frame is zeroed and mapped with MAP_FIXED at the faulting address.
MapFrame(t) ==
    /\ thread[t].pc = "map"
    /\ page_table' = [page_table EXCEPT ![thread[t].v] = frame[thread[t].page]]
    /\ Goto(t, "track", thread[t].v, thread[t].page)
    /\ UNCHANGED <<structVars, freeLists, tables, region, policyVars,
                   workVars, mqVars, aborted, unmaps>>

\* A bug to catch: a struct that is used again keeps its old address.
TrackFirstVa(t) ==
    LET p == thread[t].page IN
    /\ thread[t].pc = "track"
    /\ va' = [va EXCEPT ![p] = IF @ = None THEN thread[t].v ELSE @]
    /\ migrating' = [migrating EXCEPT ![p] = FALSE]
    /\ page_lock' = IF t = FaultThread THEN page_lock
                    ELSE [page_lock EXCEPT ![p] = None]
    /\ pages' = [pages EXCEPT ![thread[t].v] = p]
    /\ Goto(t, "report", thread[t].v, p)
    /\ UNCHANGED <<frame, present, freeLists, pages_map, mod_page_dq,
                   kernelVars, policyVars, workVars, mqVars, aborted, unmaps>>

\* page->va is set and pebs_add_page puts the page into the table; the
\* populate path also initialises page_lock again.
TrackPage(t) ==
    LET p == thread[t].page IN
    /\ thread[t].pc = "track"
    /\ va' = [va EXCEPT ![p] = thread[t].v]
    /\ migrating' = [migrating EXCEPT ![p] = FALSE]
    /\ page_lock' = IF t = FaultThread THEN page_lock
                    ELSE [page_lock EXCEPT ![p] = None]
    /\ pages' = [pages EXCEPT ![thread[t].v] = p]
    /\ Goto(t, "report", thread[t].v, p)
    /\ UNCHANGED <<frame, present, freeLists, pages_map, mod_page_dq,
                   kernelVars, policyVars, workVars, mqVars, aborted, unmaps>>

\* The addition is pushed for the policy thread; the faulting thread is woken
\* or mmap returns.
ReportAdd(t) ==
    LET v == thread[t].v IN
    /\ thread[t].pc = "report"
    /\ mod_page_dq' = Append(mod_page_dq, [page |-> thread[t].page, free |-> FALSE])
    /\ region' = [region EXCEPT ![v] = "ready"]
    /\ Goto(t, "idle", None, None)
    /\ UNCHANGED <<structVars, freeLists, pages, pages_map, page_table,
                   policyVars, workVars, mqVars, aborted, unmaps>>

------------------------------------------------------------------------------
(* Release: arms_munmap and pebs_remove_page in an application thread.     *)

Releasing == \E a \in Apps : thread[a].pc \in {"remove", "absent", "unmap"}
WorkersIdle == migration_queue = <<>> /\ MQ!Busy = {}

\* The environment assumption of a run: munmap may run at any time, only
\* while the policy thread sleeps, or only while the workers are idle too.
MayUnmap == \/ UnmapMode = "any"
            \/ UnmapMode = "asleep" /\ step = "asleep"
            \/ UnmapMode = "quiescent" /\ step = "asleep" /\ WorkersIdle

\* The page is looked up and taken out of the table (both under pages_lock,
\* and only this thread releases v); an untouched address has none.  The
\* application does not touch an address it is unmapping.
Munmap(a, v) ==
    /\ MayUnmap
    /\ unmaps < MaxUnmaps
    /\ unmaps' = unmaps + 1
    /\ thread[a].pc = "idle"
    /\ region[v] = "ready"
    /\ \A t \in Threads : thread[t].v # v
    /\ region' = [region EXCEPT ![v] = "unmapping"]
    /\ pages' = [pages EXCEPT ![v] = None]
    /\ Goto(a, IF pages[v] = None THEN "unmap" ELSE "remove", v, pages[v])
    /\ UNCHANGED <<structVars, freeLists, pages_map, mod_page_dq, page_table,
                   policyVars, workVars, mqVars, aborted>>

\* The removal is pushed for the policy thread first ...
ReportRemoval(a) ==
    /\ thread[a].pc = "remove"
    /\ mod_page_dq' = Append(mod_page_dq, [page |-> thread[a].page, free |-> TRUE])
    /\ Goto(a, "absent", thread[a].v, thread[a].page)
    /\ UNCHANGED <<structVars, freeLists, pages, pages_map, kernelVars,
                   policyVars, workVars, mqVars, aborted, unmaps>>

\* ... and present is cleared after it, under page_lock, which a migration
\* of the page holds until it is complete.
ClearPresent(a) ==
    /\ thread[a].pc = "absent"
    /\ page_lock[thread[a].page] = None
    /\ present' = [present EXCEPT ![thread[a].page] = FALSE]
    /\ Goto(a, "unmap", thread[a].v, thread[a].page)
    /\ UNCHANGED <<va, frame, migrating, page_lock, freeLists, tables,
                   kernelVars, policyVars, workVars, mqVars, aborted, unmaps>>

\* A bug to catch: the address stays mapped.
UnmapKeepsMapping(a) ==
    /\ thread[a].pc = "unmap"
    /\ region' = [region EXCEPT ![thread[a].v] = "none"]
    /\ Goto(a, "idle", None, None)
    /\ UNCHANGED <<structVars, freeLists, tables, page_table, policyVars,
                   workVars, mqVars, aborted, unmaps>>

\* libc_munmap, and back to the application.
Unmap(a) ==
    LET v == thread[a].v IN
    /\ thread[a].pc = "unmap"
    /\ page_table' = [page_table EXCEPT ![v] = None]
    /\ region' = [region EXCEPT ![v] = "none"]
    /\ Goto(a, "idle", None, None)
    /\ UNCHANGED <<structVars, freeLists, tables, policyVars, workVars,
                   mqVars, aborted, unmaps>>

------------------------------------------------------------------------------
(* The policy thread.                                                      *)

WakeUp ==
    /\ step = "asleep"
    /\ UnmapMode \in {"asleep", "quiescent"} => ~Releasing
    /\ step' = "drain"
    /\ UNCHANGED <<structVars, freeLists, tables, kernelVars, thread, scores,
                   promote_idx, demote_idx, np, workVars, mqVars, aborted, unmaps>>

\* A bug to catch: the entry of a removed page stays in the table.
DrainKeepsEntry ==
    LET entry == Head(mod_page_dq)
        p == entry.page
        known == va[p] # None /\ pages_map[va[p]] # None
    IN
    /\ step = "drain"
    /\ mod_page_dq # <<>>
    /\ mod_page_dq' = Tail(mod_page_dq)
    /\ IF entry.free
       THEN /\ dram_free_list' = IF known /\ in_dram(p)
                                 THEN Append(dram_free_list, p) ELSE dram_free_list
            /\ nvm_free_list' = IF known /\ ~in_dram(p)
                                THEN Append(nvm_free_list, p) ELSE nvm_free_list
            /\ UNCHANGED pages_map
       ELSE /\ pages_map' = [pages_map EXCEPT ![va[p]] = p]
            /\ UNCHANGED freeLists
    /\ UNCHANGED <<structVars, pages, kernelVars, thread, policyVars,
                   workVars, mqVars, aborted, unmaps>>

\* A bug to catch: a removed DRAM page is dropped.
DrainForgets ==
    LET entry == Head(mod_page_dq)
        p == entry.page
        known == va[p] # None /\ pages_map[va[p]] # None
    IN
    /\ step = "drain"
    /\ mod_page_dq # <<>>
    /\ mod_page_dq' = Tail(mod_page_dq)
    /\ pages_map' = IF entry.free /\ ~known THEN pages_map
                    ELSE [pages_map EXCEPT ![va[p]] = IF entry.free THEN None ELSE p]
    /\ nvm_free_list' = IF entry.free /\ known /\ ~in_dram(p)
                        THEN Append(nvm_free_list, p) ELSE nvm_free_list
    /\ UNCHANGED <<structVars, dram_free_list, pages, kernelVars, thread,
                   policyVars, workVars, mqVars, aborted, unmaps>>

\* One entry of mod_page_dq.  A removed page leaves the policy thread's table
\* under its present va and goes to the free list of the tier it is in now; a
\* removed page that is not in the table is only reported.  An added page
\* enters the table (kh_put, assert(absent)).
Drain ==
    LET entry == Head(mod_page_dq)
        p == entry.page
        known == va[p] # None /\ pages_map[va[p]] # None
    IN
    /\ step = "drain"
    /\ mod_page_dq # <<>>
    /\ mod_page_dq' = Tail(mod_page_dq)
    /\ IF entry.free
       THEN /\ pages_map' = IF known THEN [pages_map EXCEPT ![va[p]] = None]
                            ELSE pages_map
            /\ dram_free_list' = IF known /\ in_dram(p)
                                 THEN Append(dram_free_list, p) ELSE dram_free_list
            /\ nvm_free_list' = IF known /\ ~in_dram(p)
                                THEN Append(nvm_free_list, p) ELSE nvm_free_list
       ELSE /\ pages_map' = [pages_map EXCEPT ![va[p]] = p]
            /\ UNCHANGED freeLists
    /\ UNCHANGED <<structVars, pages, kernelVars, thread, policyVars,
                   workVars, mqVars, aborted, unmaps>>

\* The pages that get a score, and the orders qsort may leave them in.
Scored == {p \in Range(pages_map) \ {None} : present[p]}
Orders(S) == {s \in [1 .. Cardinality(S) -> S] :
                 \A i, j \in 1 .. Cardinality(S) : s[i] = s[j] => i = j}

\* The queue is empty: the present pages of the table are scored and sorted;
\* without any the interval ends (goto loop_end).
Score ==
    /\ step = "drain"
    /\ mod_page_dq = <<>>
    /\ scores' \in Orders(Scored)
    /\ step' = IF Scored = {} THEN "asleep" ELSE "collect"
    /\ policy_pc' = IF Scored = {} THEN "sleep" ELSE "wait"
    /\ MQ!StartInterval
    /\ UNCHANGED <<structVars, freeLists, tables, kernelVars, thread,
                   promote_idx, demote_idx, np, workVars, aborted, unmaps>>

Collect ==
    /\ step = "collect"
    /\ MQ!CollectCompletion
    /\ UNCHANGED <<structVars, freeLists, tables, kernelVars, thread,
                   policyVars, workVars, aborted, unmaps>>

BeginMigrations ==
    /\ step = "collect"
    /\ MQ!StartLoop
    /\ step' = "choose"
    /\ promote_idx' = 0
    /\ demote_idx' = Len(scores) - 1
    /\ UNCHANGED <<structVars, freeLists, tables, kernelVars, thread, scores,
                   np, workVars, aborted, unmaps>>

\* The end of the migration loop; its local variables are dead afterwards.
LeaveLoop ==
    /\ MQ!EndLoop
    /\ step' = "asleep"
    /\ scores' = <<>> /\ promote_idx' = 0 /\ demote_idx' = 0 /\ np' = None

\* The loop condition fails, the budget of the interval is spent or the rest
\* of the pages has score 0: the last two depend on data and may happen in
\* any iteration.
StopMigrations ==
    /\ step = "choose"
    /\ LeaveLoop
    /\ UNCHANGED <<structVars, freeLists, tables, kernelVars, thread,
                   workVars, aborted, unmaps>>

\* The hottest page that is still in NVM is the candidate; a page below the
\* first NDram ones never has can_promote set, another one may or may not.
\* Its target is the oldest free DRAM page, if there is one.  Without a
\* candidate the loop ends (StopMigrations).
Choose ==
    /\ step = "choose"
    /\ promote_idx < NDram
    /\ num_migration_jobs < MaxJobs
    /\ \E k \in promote_idx .. demote_idx - 1 :
       /\ ~in_dram(scores[k + 1])
       /\ \A j \in promote_idx .. k - 1 : in_dram(scores[j + 1])
       /\ \/ /\ promote_idx' = k + 1
             /\ UNCHANGED <<step, np, dram_free_list>>
          \/ /\ k < NDram
             /\ promote_idx' = k
             /\ dram_free_list # <<>>
             /\ np' = Head(dram_free_list)
             /\ dram_free_list' = Tail(dram_free_list)
             /\ step' = "promote"
          \/ /\ k < NDram
             /\ promote_idx' = k
             /\ dram_free_list = <<>>
             /\ step' = "demote"
             /\ UNCHANGED <<np, dram_free_list>>
    /\ UNCHANGED <<structVars, nvm_free_list, tables, kernelVars, thread,
                   scores, demote_idx, workVars, mqVars, aborted, unmaps>>

\* The benefit does not cover the cost: the DRAM page goes back, the loop ends.
GiveBack ==
    /\ step = "promote"
    /\ dram_free_list' = Append(dram_free_list, np)
    /\ LeaveLoop
    /\ UNCHANGED <<structVars, nvm_free_list, tables, kernelVars, thread,
                   workVars, aborted, unmaps>>

SubmitPromotion ==
    /\ step = "promote"
    /\ MQ!Enqueue([dram_page |-> None, nvm_page |-> scores[promote_idx + 1],
                   free_page |-> np, need_demotion |-> FALSE])
    /\ step' = "post"
    /\ promote_idx' = promote_idx + 1
    /\ np' = None
    /\ UNCHANGED <<structVars, freeLists, tables, kernelVars, thread, scores,
                   demote_idx, workVars, aborted, unmaps>>

\* No page to demote, one that is too hot (continue_migration), or no free
\* NVM page: the loop ends.
GiveUpDemotion ==
    /\ step = "demote"
    /\ LeaveLoop
    /\ UNCHANGED <<structVars, freeLists, tables, kernelVars, thread,
                   workVars, aborted, unmaps>>

\* A bug to catch: the victim stays the candidate for the next demotion.
ExchangeNoStep ==
    /\ step = "demote"
    /\ nvm_free_list # <<>>
    /\ nvm_free_list' = Tail(nvm_free_list)
    /\ \E k \in promote_idx + 1 .. demote_idx :
       /\ k > NDram
       /\ in_dram(scores[k + 1])
       /\ \A j \in k + 1 .. demote_idx : ~in_dram(scores[j + 1])
       /\ MQ!Enqueue([dram_page |-> scores[k + 1],
                      nvm_page |-> scores[promote_idx + 1],
                      free_page |-> Head(nvm_free_list), need_demotion |-> TRUE])
       /\ demote_idx' = k
    /\ step' = "post"
    /\ promote_idx' = promote_idx + 1
    /\ UNCHANGED <<structVars, dram_free_list, tables, kernelVars, thread,
                   scores, np, workVars, aborted, unmaps>>

\* The coldest page in DRAM, found from the end of the scores, makes room.
SubmitExchange ==
    /\ step = "demote"
    /\ nvm_free_list # <<>>
    /\ nvm_free_list' = Tail(nvm_free_list)
    /\ \E k \in promote_idx + 1 .. demote_idx :
       /\ k > NDram
       /\ in_dram(scores[k + 1])
       /\ \A j \in k + 1 .. demote_idx : ~in_dram(scores[j + 1])
       /\ MQ!Enqueue([dram_page |-> scores[k + 1],
                      nvm_page |-> scores[promote_idx + 1],
                      free_page |-> Head(nvm_free_list), need_demotion |-> TRUE])
       /\ demote_idx' = k - 1
    /\ step' = "post"
    /\ promote_idx' = promote_idx + 1
    /\ UNCHANGED <<structVars, dram_free_list, tables, kernelVars, thread,
                   scores, np, workVars, aborted, unmaps>>

PostSubmission ==
    /\ step = "post"
    /\ MQ!Post
    /\ step' = "choose"
    /\ UNCHANGED <<structVars, freeLists, tables, kernelVars, thread, scores,
                   promote_idx, demote_idx, np, workVars, aborted, unmaps>>

------------------------------------------------------------------------------
(* A migration thread.                                                     *)

WakeWorker(w) ==
    /\ MQ!Wake(w) \/ MQ!FindEmpty(w)
    /\ UNCHANGED <<structVars, freeLists, tables, kernelVars, thread,
                   policyVars, workVars, aborted, unmaps>>

TakeRequest(w) ==
    /\ MQ!Dequeue(w)
    /\ wstep' = [wstep EXCEPT ![w] = IF Head(migration_queue).need_demotion
                                     THEN "demote" ELSE "promote"]
    /\ UNCHANGED <<structVars, freeLists, tables, kernelVars, thread,
                   policyVars, old_frame, new_frame, aborted, unmaps>>

\* A bug to catch: the frame the page leaves is not saved.
LockSavesNothing(w, p, next) ==
    /\ page_lock[p] = None
    /\ present[p]
    /\ page_lock' = [page_lock EXCEPT ![p] = w]
    /\ migrating' = [migrating EXCEPT ![p] = TRUE]
    /\ new_frame' = [new_frame EXCEPT ![w] = frame[worker_req[w].free_page]]
    /\ wstep' = [wstep EXCEPT ![w] = next]
    /\ UNCHANGED <<va, frame, present, freeLists, tables, kernelVars, thread,
                   policyVars, old_frame, mqVars, aborted, unmaps>>

\* demote_to_free_nvm_page and promote_to_free_dram_page start alike: take
\* page_lock, and if the page is present remember its frame and the frame of
\* the free page, set migrating and write-protect it.
LockForMigration(w, p, next) ==
    /\ page_lock[p] = None
    /\ present[p]
    /\ page_lock' = [page_lock EXCEPT ![p] = w]
    /\ migrating' = [migrating EXCEPT ![p] = TRUE]
    /\ old_frame' = [old_frame EXCEPT ![w] = frame[p]]
    /\ new_frame' = [new_frame EXCEPT ![w] = frame[worker_req[w].free_page]]
    /\ wstep' = [wstep EXCEPT ![w] = next]
    /\ UNCHANGED <<va, frame, present, freeLists, tables, kernelVars, thread,
                   policyVars, mqVars, aborted, unmaps>>

DemoteStart(w) == /\ wstep[w] = "demote"
                  /\ LockForMigration(w, worker_req[w].dram_page, "map_down")
PromoteStart(w) == /\ wstep[w] = "promote"
                   /\ LockForMigration(w, worker_req[w].nvm_page, "map_up")

\* A request is over: its worker posts the completion.
FinishRequest(w) ==
    /\ MQ!Complete(w)
    /\ wstep' = [wstep EXCEPT ![w] = "idle"]
    /\ old_frame' = [old_frame EXCEPT ![w] = None]
    /\ new_frame' = [new_frame EXCEPT ![w] = None]

\* The page was removed meanwhile: the free page goes back to its list, and
\* the other half of an exchange is dropped with it.
SkipDemotion(w) ==
    /\ wstep[w] = "demote"
    /\ LET p == worker_req[w].dram_page IN page_lock[p] = None /\ ~present[p]
    /\ nvm_free_list' = Append(nvm_free_list, worker_req[w].free_page)
    /\ FinishRequest(w)
    /\ UNCHANGED <<structVars, dram_free_list, tables, kernelVars, thread,
                   policyVars, aborted, unmaps>>

\* A bug to catch: the free page is not put back.
SkipPromotionLeaks(w) ==
    /\ wstep[w] = "promote"
    /\ LET p == worker_req[w].nvm_page IN page_lock[p] = None /\ ~present[p]
    /\ FinishRequest(w)
    /\ UNCHANGED <<structVars, freeLists, tables, kernelVars, thread,
                   policyVars, aborted, unmaps>>

SkipPromotion(w) ==
    /\ wstep[w] = "promote"
    /\ LET p == worker_req[w].nvm_page IN page_lock[p] = None /\ ~present[p]
    /\ dram_free_list' = Append(dram_free_list, worker_req[w].free_page)
    /\ FinishRequest(w)
    /\ UNCHANGED <<structVars, nvm_free_list, tables, kernelVars, thread,
                   policyVars, aborted, unmaps>>

\* The page a worker is moving.
Moving(w) == IF wstep[w] \in {"map_down", "commit_down"}
             THEN worker_req[w].dram_page ELSE worker_req[w].nvm_page

\* arms_migrate_down and arms_migrate_up: the copy is made (module PageCopy)
\* and the new frame mapped over the page's address with MAP_FIXED.
Remap(w) ==
    /\ wstep[w] \in {"map_down", "map_up"}
    /\ page_table' = [page_table EXCEPT ![va[Moving(w)]] = new_frame[w]]
    /\ wstep' = [wstep EXCEPT ![w] = IF @ = "map_down" THEN "commit_down"
                                     ELSE "commit_up"]
    /\ UNCHANGED <<structVars, freeLists, tables, region, thread, policyVars,
                   old_frame, new_frame, mqVars, aborted, unmaps>>

\* A bug to catch: the struct keeps its old frame.
CommitKeepsFrame(w) ==
    LET p == Moving(w) IN
    /\ wstep[w] \in {"commit_down", "commit_up"}
    /\ migrating' = [migrating EXCEPT ![p] = FALSE]
    /\ page_lock' = [page_lock EXCEPT ![p] = None]
    /\ wstep' = [wstep EXCEPT ![w] = IF @ = "commit_down" THEN "reset_down"
                                     ELSE "reset_up"]
    /\ UNCHANGED <<va, frame, present, freeLists, tables, kernelVars, thread,
                   policyVars, old_frame, new_frame, mqVars, aborted, unmaps>>

\* A bug to catch: page_lock is not released.
CommitKeepsLock(w) ==
    LET p == Moving(w) IN
    /\ wstep[w] \in {"commit_down", "commit_up"}
    /\ frame' = [frame EXCEPT ![p] = new_frame[w]]
    /\ migrating' = [migrating EXCEPT ![p] = FALSE]
    /\ wstep' = [wstep EXCEPT ![w] = IF @ = "commit_down" THEN "reset_down"
                                     ELSE "reset_up"]
    /\ UNCHANGED <<va, present, page_lock, freeLists, tables, kernelVars, thread,
                   policyVars, old_frame, new_frame, mqVars, aborted, unmaps>>

\* The struct gets its new frame, migrating is cleared, page_lock released.
Commit(w) ==
    LET p == Moving(w) IN
    /\ wstep[w] \in {"commit_down", "commit_up"}
    /\ frame' = [frame EXCEPT ![p] = new_frame[w]]
    /\ migrating' = [migrating EXCEPT ![p] = FALSE]
    /\ page_lock' = [page_lock EXCEPT ![p] = None]
    /\ wstep' = [wstep EXCEPT ![w] = IF @ = "commit_down" THEN "reset_down"
                                     ELSE "reset_up"]
    /\ UNCHANGED <<va, present, freeLists, tables, kernelVars, thread,
                   policyVars, old_frame, new_frame, mqVars, aborted, unmaps>>

\* A bug to catch: the free struct keeps its frame.
ResetNoOffset(w) ==
    /\ present' = [present EXCEPT ![worker_req[w].free_page] = FALSE]
    /\ UNCHANGED frame

\* The free struct takes over the frame the page left.  After a demotion it
\* is the DRAM page the promotion of the same request uses next ...
ResetFree(w) ==
    LET p == worker_req[w].free_page IN
    /\ frame' = [frame EXCEPT ![p] = old_frame[w]]
    /\ present' = [present EXCEPT ![p] = FALSE]

ResetAfterDemotion(w) ==
    /\ wstep[w] = "reset_down"
    /\ ResetFree(w)
    /\ wstep' = [wstep EXCEPT ![w] = "promote"]
    /\ UNCHANGED <<va, migrating, page_lock, freeLists, tables, kernelVars,
                   thread, policyVars, old_frame, new_frame, mqVars, aborted, unmaps>>

\* A bug to catch: the free struct goes to the list of the wrong tier.
ResetToDramList(w) ==
    /\ wstep[w] = "reset_up"
    /\ ResetFree(w)
    /\ dram_free_list' = Append(dram_free_list, worker_req[w].free_page)
    /\ FinishRequest(w)
    /\ UNCHANGED <<va, migrating, page_lock, nvm_free_list, tables,
                   kernelVars, thread, policyVars, aborted, unmaps>>

\* ... after a promotion it goes to the free list of NVM.
ResetAfterPromotion(w) ==
    /\ wstep[w] = "reset_up"
    /\ ResetFree(w)
    /\ nvm_free_list' = Append(nvm_free_list, worker_req[w].free_page)
    /\ FinishRequest(w)
    /\ UNCHANGED <<va, migrating, page_lock, dram_free_list, tables,
                   kernelVars, thread, policyVars, aborted, unmaps>>

------------------------------------------------------------------------------
(* The assertions on the way: a thread that is about to evaluate one that   *)
(* is false aborts the process (the build does not define NDEBUG).         *)

\* pebs_allocate_page on the page it dequeued, pebs_add_page on the table.
ThreadAsserts(t) ==
    /\ thread[t].pc = "dram" /\ dram_free_list # <<>>
       => in_dram(Head(dram_free_list)) /\ ~present[Head(dram_free_list)]
    /\ thread[t].pc = "nvm" /\ nvm_free_list # <<>>
       => ~in_dram(Head(nvm_free_list)) /\ ~present[Head(nvm_free_list)]
    /\ thread[t].pc = "track" => pages[thread[t].v] = None

\* An added page is new in pages_map; a free DRAM page is not present.
PolicyAsserts ==
    /\ step = "drain" /\ mod_page_dq # <<>> /\ ~Head(mod_page_dq).free
       => pages_map[va[Head(mod_page_dq).page]] = None
    /\ step = "promote" => ~present[np]

\* arms_migrate_down and arms_migrate_up get a page of the other tier, and
\* arms_wp_page one that has an address.
WorkerAsserts(w) ==
    /\ wstep[w] = "map_down" => in_dram(Moving(w)) /\ va[Moving(w)] # None
    /\ wstep[w] = "map_up" => ~in_dram(Moving(w)) /\ va[Moving(w)] # None

AssertFails ==
    /\ \/ \E t \in Threads : ~ThreadAsserts(t)
       \/ ~PolicyAsserts
       \/ \E w \in Workers : ~WorkerAsserts(w)
    /\ aborted' = "assert"
    /\ UNCHANGED <<structVars, freeLists, tables, kernelVars, thread, unmaps,
                   policyVars, workVars, mqVars>>

------------------------------------------------------------------------------
AllocateNext(t) == /\ ThreadAsserts(t)
                   /\ \/ AllocateDram(t) \/ AllocateNvm(t) \/ MapFrame(t)
                      \/ TrackPage(t) \/ ReportAdd(t)
ReleaseNext(a) == ReportRemoval(a) \/ ClearPresent(a) \/ Unmap(a)
PolicyNext == /\ PolicyAsserts
              /\ \/ WakeUp \/ Drain \/ Score \/ Collect \/ BeginMigrations
                 \/ StopMigrations \/ Choose \/ GiveBack \/ SubmitPromotion
                 \/ GiveUpDemotion \/ SubmitExchange \/ PostSubmission
WorkerNext(w) == /\ WorkerAsserts(w)
                 /\ \/ WakeWorker(w) \/ TakeRequest(w)
                    \/ DemoteStart(w) \/ SkipDemotion(w)
                    \/ PromoteStart(w) \/ SkipPromotion(w)
                    \/ Remap(w) \/ Commit(w)
                    \/ ResetAfterDemotion(w) \/ ResetAfterPromotion(w)
AppNext == \/ \E v \in VAs : MissingFault(v)
           \/ \E a \in Apps, v \in VAs : Munmap(a, v)
           \/ \E a \in Apps, v \in VAs, populate \in BOOLEAN : Mmap(a, v, populate)

Next == /\ aborted = "no"
        /\ \/ AppNext
           \/ \E t \in Threads : AllocateNext(t)
           \/ \E a \in Apps : ReleaseNext(a)
           \/ PolicyNext
           \/ \E w \in Workers : WorkerNext(w)
           \/ AssertFails

\* Every thread that can run is scheduled eventually; a mutex or a semaphore
\* a thread waits for is granted to some waiter (there is one worker per
\* page_lock at most, see MigrationQueue for the semaphores).  The
\* application need not map, touch or unmap anything.
Fairness == /\ \A t \in Threads : WF_vars(aborted = "no" /\ AllocateNext(t))
            /\ \A a \in Apps : WF_vars(aborted = "no" /\ ReleaseNext(a))
            /\ WF_vars(aborted = "no" /\ PolicyNext)
            /\ \A w \in Workers : WF_vars(aborted = "no" /\ WorkerNext(w))

SafeSpec == Init /\ [][Next]_vars
Spec == SafeSpec /\ Fairness

------------------------------------------------------------------------------
\* The shape of the structs, lists and tables.
StructsOK == /\ va \in [Pages -> VAs \cup {None}]
             /\ frame \in [Pages -> Frames]
             /\ present \in [Pages -> BOOLEAN] /\ migrating \in [Pages -> BOOLEAN]
             /\ page_lock \in [Pages -> Workers \cup {None}]
ListsOK == dram_free_list \in Seq(Pages) /\ nvm_free_list \in Seq(Pages)
TablesOK == /\ pages \in [VAs -> Pages \cup {None}]
            /\ pages_map \in [VAs -> Pages \cup {None}]
            /\ mod_page_dq \in Seq([page : Pages, free : BOOLEAN])
KernelOK == /\ page_table \in [VAs -> Frames \cup {None}]
            /\ region \in [VAs -> {"none", "mapping", "ready", "unmapping"}]

\* A thread inside a handler has its address, and its page from allocation to
\* release.
ThreadsOK ==
    /\ thread \in [Threads -> [pc : {"idle", "dram", "nvm", "map", "track", "report",
                                     "remove", "absent", "unmap"},
                               v : VAs \cup {None}, page : Pages \cup {None}]]
    /\ \A t \in Threads :
          /\ thread[t].pc # "idle" => thread[t].v \in VAs
          /\ thread[t].pc \in {"map", "track", "report", "remove", "absent"}
                => thread[t].page \in Pages

\* The indices of the migration loop stay inside the scores, and np is a page
\* between its dequeue and the request.
PolicyOK ==
    /\ step \in {"asleep", "drain", "collect", "choose", "promote", "demote", "post"}
    /\ scores \in Seq(Pages)
    /\ promote_idx \in Nat /\ demote_idx \in Int
    /\ step \in {"choose", "promote", "demote", "post"} => demote_idx < Len(scores)
    /\ step \in {"promote", "demote"} => promote_idx < demote_idx
    /\ np \in Pages \cup {None} /\ (np = None <=> step # "promote")

\* A worker inside a request has what its step needs.
WorkersOK ==
    /\ wstep \in [Workers -> {"idle", "demote", "map_down", "commit_down", "reset_down",
                              "promote", "map_up", "commit_up", "reset_up"}]
    /\ old_frame \in [Workers -> Frames \cup {None}]
    /\ new_frame \in [Workers -> Frames \cup {None}]
    /\ \A w \in Workers :
          /\ wstep[w] = "idle" <=> worker_pc[w] # "work"
          /\ wstep[w] \in {"demote", "map_down", "commit_down", "reset_down"}
                => worker_req[w].dram_page \in Pages
          /\ wstep[w] \notin {"idle", "demote", "promote"}
                => old_frame[w] \in Frames /\ new_frame[w] \in Frames
    /\ \A r \in Range(migration_queue) : r.need_demotion => r.dram_page \in Pages

\* Every variable keeps its shape, and no step works with a NULL page, a frame
\* outside the devices or an index outside the scores.
TypeOK == /\ StructsOK /\ ListsOK /\ TablesOK /\ KernelOK /\ ThreadsOK
          /\ PolicyOK /\ WorkersOK /\ MQ!TypeOK
          /\ unmaps \in 0 .. MaxUnmaps
          /\ aborted \in {"no", "oom", "assert"}

\* The frame a struct stands for.  Between the end of a migration and the
\* reset of the free page both structs name the new frame; the free page
\* already stands for the one the migrated page left.
Stands(p) ==
    IF \E w \in Workers : wstep[w] \in {"reset_down", "reset_up"}
                          /\ worker_req[w].free_page = p
    THEN old_frame[CHOOSE w \in Workers : wstep[w] \in {"reset_down", "reset_up"}
                                          /\ worker_req[w].free_page = p]
    ELSE frame[p]

\* No frame of a device is lost or owned twice, whatever is allocated,
\* released and migrated: the structs stand for all frames, one each.
FramesOwned == {Stands(p) : p \in Pages} = Frames

\* A page on a free list is in the tier of the list, is not present, and no
\* address maps its frame: allocating it (assert(page->in_dram),
\* assert(!page->present)) hands out memory nobody else can reach.
FreeListsClean ==
    /\ \A p \in Range(dram_free_list) : in_dram(p) /\ ~present[p]
    /\ \A p \in Range(nvm_free_list) : ~in_dram(p) /\ ~present[p]
    /\ \A p \in Range(dram_free_list) \cup Range(nvm_free_list), v \in VAs :
          page_table[v] # frame[p]

\* Two addresses never share a frame.
NoAliasing == \A u, v \in VAs :
    page_table[u] # None /\ page_table[u] = page_table[v] => u = v

\* The table agrees with the kernel: a tracked page is present under its own
\* address, and the address maps its frame, or the new one once the migration
\* that holds page_lock has remapped it.
TranslationRight ==
    \A v \in VAs : LET p == pages[v] IN
        p # None =>
            /\ va[p] = v /\ present[p]
            /\ \/ page_table[v] = frame[p]
               \/ \E w \in Workers : /\ wstep[w] \in {"commit_down", "commit_up"}
                                     /\ page_lock[p] = w /\ Moving(w) = p
                                     /\ page_table[v] = new_frame[w]

\* The places a struct can be in.
Places(p) ==
       {<<"dram", i>> : i \in {j \in DOMAIN dram_free_list : dram_free_list[j] = p}}
  \cup {<<"nvm", i>> : i \in {j \in DOMAIN nvm_free_list : nvm_free_list[j] = p}}
  \cup {<<"policy", i>> : i \in {j \in {0} : np = p}}
  \cup {<<"request", r>> : r \in {q \in MQ!Queued \cup MQ!Held : q.free_page = p}}
  \cup {<<"allocating", t>> : t \in {u \in Threads : thread[u].page = p
                                       /\ thread[u].pc \in {"map", "track"}}}
  \cup {<<"tracked", v>> : v \in {u \in VAs : pages[u] = p}}
  \cup {<<"removing", t>> : t \in {u \in Threads : thread[u].page = p
                                     /\ thread[u].pc = "remove"}}
  \cup {<<"removed", i>> : i \in {j \in DOMAIN mod_page_dq :
                                     mod_page_dq[j] = [page |-> p, free |-> TRUE]}}

\* No struct is leaked, and none is in two places: it is on one free list, or
\* tracked, or in the hands of one thread or request, or waiting in the queue
\* for the policy thread to free it.
PagesAccounted == \A p \in Pages : Cardinality(Places(p)) = 1

\* A page takes part in at most one outstanding request, in one role: the two
\* indices of the migration loop never meet and intervals do not overlap.
Involved(r) == {r.dram_page, r.nvm_page, r.free_page} \ {None}
RequestsDisjoint ==
    LET R == MQ!Queued \cup MQ!Held IN
    /\ \A r \in R : Cardinality(Involved(r)) = IF r.need_demotion THEN 3 ELSE 2
    /\ \A r, q \in R : r # q => Involved(r) \cap Involved(q) = {}

\* The address a migration is about to overwrite maps the frame it copied:
\* it never maps a page over memory of somebody else.
MovesOwnMapping ==
    \A w \in Workers : wstep[w] \in {"map_down", "map_up"}
                       => page_table[va[Moving(w)]] = old_frame[w]

\* None of the assertions on the way fails.
NoAssertFails == /\ \A t \in Threads : ThreadAsserts(t)
                 /\ PolicyAsserts
                 /\ \A w \in Workers : WorkerAsserts(w)

\* Once the policy thread has drained the queue its table is the table of
\* tracked pages (minus what threads are just adding or removing).
PolicyTableCurrent ==
    (mod_page_dq = <<>> /\ \A t \in Threads : thread[t].pc \notin {"report", "remove"})
        => pages_map = pages

\* munmap returns: it waits for a migration of its page, never forever.
MunmapReturns == \A a \in Apps :
    thread[a].pc = "remove" ~> thread[a].pc = "idle" \/ aborted # "no"

\* A removed page comes back: while the process runs and every request is
\* posted, it gets to a free list in some later interval.  The condition is
\* needed: a request without a post can be left on the list, the policy thread
\* then waits for it before it migrates (MigrationQueue, WaitTerminates) and
\* never drains mod_page_dq again.
RemovedPagesFreed ==
    MQ!WithinBatch /\ [](aborted = "no") =>
        \A p \in Pages :
            (\E i \in DOMAIN mod_page_dq : mod_page_dq[i] = [page |-> p, free |-> TRUE])
                ~> p \in Range(dram_free_list) \cup Range(nvm_free_list)
==============================================================================
