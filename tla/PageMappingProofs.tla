------------------------- MODULE PageMappingProofs -------------------------
(***************************************************************************)
(* The structs and the kernel's page table in PageTiering, for any number  *)
(* of frames, addresses, threads and workers, when munmap runs only while  *)
(* no migration can race it (UnmapMode "quiescent" or "never"; the runs    *)
(* pt_stale and pt_present show what happens otherwise): no two addresses  *)
(* share a frame (NoAliasing), the tracking table agrees with the kernel   *)
(* (TranslationRight), a migration overwrites its own mapping only         *)
(* (MovesOwnMapping), a free page is clean and in the tier of its list     *)
(* (FreeListsClean), and no assertion fails (NoAssertFails).               *)
(***************************************************************************)
EXTENDS PageTieringProofs

QuietMode == UnmapMode \in {"never", "quiescent"}

------------------------------------------------------------------------------
(* The inductive invariant, part by part; OwnInv is the rest of it.        *)

\* While a thread is inside munmap the policy thread sleeps and no request is
\* outstanding: what UnmapMode assumes, in every state of the release.
Quiet == Releasing => UnmapMode = "quiescent" /\ step = "asleep" /\ WorkersIdle

\* The page whose frame an address maps: the tracked one, or the one a thread
\* has mapped but not tracked yet, or untracked but not unmapped yet.
MappedAt == {"track", "remove", "absent", "unmap"}
Maps(v, p) ==
    /\ p # None
    /\ \/ pages[v] = p
       \/ \E t \in Threads : thread[t].v = v /\ thread[t].page = p /\ thread[t].pc \in MappedAt

\* A thread that allocates or releases works on an address that is not tracked;
\* neither is one that is not mapped.
Untracked ==
    /\ \A t \in Threads : thread[t].pc \notin {"idle", "report"} => pages[thread[t].v] = None
    /\ \A v \in VAs : region[v] = "none" => pages[v] = None

\* What munmap has removed keeps its address and waits for the policy thread.
ReleasedPages ==
    \A t \in Threads : thread[t].pc \in {"absent", "unmap"} /\ thread[t].page # None =>
        thread[t].page \in Holding["removed"] /\ va[thread[t].page] = thread[t].v

\* present says whose page it is.
Live == Holding["allocating"] \cup Holding["tracked"] \cup Holding["removing"]
          \cup PagesInside({"absent"})
PresentRight == \A p \in Pages : present[p] <=> p \in Live

\* The kernel maps an address to the frame of its page, or to the new frame
\* once a migration has remapped it.
Remapped(w) == wstep[w] \in {"commit_down", "commit_up"}
TablesAgree ==
    \A v \in VAs :
        /\ \A p \in Pages : Maps(v, p) =>
              \/ /\ page_table[v] = frame[p]
                 /\ \A w \in Workers : Remapped(w) => Moving(w) # p
              \/ \E w \in Workers : Remapped(w) /\ Moving(w) = p /\ page_table[v] = new_frame[w]
        /\ (\A p \in Pages : ~Maps(v, p)) => page_table[v] = None

\* Pages that are scored or to be migrated are tracked, and stay so.
RequestsTracked ==
    \A r \in Outstanding : {r.nvm_page, r.dram_page} \ {None} \subseteq Holding["tracked"]
ScoresTracked ==
    step \in {"collect", "choose", "promote", "demote", "post"} =>
        Range(scores) \subseteq Holding["tracked"]

\* The tiers: of the lists, of the candidate, of the pages a request names.
CandidateTier ==
    /\ step \in {"promote", "demote"} => ~in_dram(scores[promote_idx + 1])
    /\ step = "promote" => in_dram(np)
ListTiers == /\ \A p \in Range(dram_free_list) : in_dram(p)
             /\ \A p \in Range(nvm_free_list) : ~in_dram(p)
RequestTiers ==
    \A r \in MQ!Queued :
        /\ ~in_dram(r.nvm_page)
        /\ r.need_demotion => in_dram(r.dram_page) /\ ~in_dram(r.free_page)
        /\ ~r.need_demotion => in_dram(r.free_page)
WorkerTiers ==
    \A w \in Workers : LET r == worker_req[w] IN
        /\ wstep[w] \in {"demote", "map_down", "commit_down"} =>
              in_dram(r.dram_page) /\ ~in_dram(r.free_page) /\ ~in_dram(r.nvm_page)
        /\ wstep[w] = "reset_down" => old_frame[w][1] /\ ~in_dram(r.nvm_page)
        /\ wstep[w] \in {"promote", "map_up", "commit_up"} =>
              in_dram(r.free_page) /\ ~in_dram(r.nvm_page)
        /\ wstep[w] = "reset_up" => ~old_frame[w][1]

\* A worker holds page_lock of the page it moves until the commit.
LocksHeld == \A w \in Workers : Committing(w) => page_lock[Moving(w)] = w

MapInv == /\ Quiet /\ Untracked /\ ReleasedPages /\ PresentRight /\ TablesAgree
          /\ RequestsTracked /\ ScoresTracked
          /\ CandidateTier /\ ListTiers /\ RequestTiers /\ WorkerTiers /\ LocksHeld
------------------------------------------------------------------------------
(* What is where.                                                          *)

\* One page per address and one address per page; a mapped page is with no
\* list, request or policy thread.
LEMMA MapsOnce ==
  ASSUME OwnInv, MapInv
  PROVE  /\ \A v, p : v \in VAs /\ Maps(v, p) =>
               p \in Pages /\ \A k \in {"dram", "nvm", "policy", "request"} : p \notin Holding[k]
         /\ \A u, v, p : u \in VAs /\ v \in VAs /\ Maps(u, p) /\ Maps(v, p) => u = v
         /\ \A v, p, q : v \in VAs /\ Maps(v, p) /\ Maps(v, q) => p = q
<1>0. TypeOK /\ Accounted /\ Once /\ ThreadPlaces /\ TablePlaces /\ Untracked /\ ReleasedPages
  BY DEF OwnInv, MapInv
<1> DEFINE At(t, v, p) == thread[t].v = v /\ thread[t].page = p /\ thread[t].pc \in MappedAt
<1>1. ASSUME NEW v \in VAs, NEW p, p # None, pages[v] = p
      PROVE  p \in Pages /\ p \in Holding["tracked"] /\ va[p] = v
  BY <1>0, <1>1 DEF Holding, Range, TypeOK, TablesOK, TablePlaces
<1>2. ASSUME NEW t \in Threads, NEW v, NEW p, p # None, At(t, v, p)
      PROVE  /\ p \in Pages
             /\ \/ thread[t].pc = "track" /\ p \in Holding["allocating"]
                \/ thread[t].pc = "remove" /\ p \in Holding["removing"] /\ va[p] = v
                \/ thread[t].pc \in {"absent", "unmap"} /\ p \in Holding["removed"] /\ va[p] = v
  <2>1. p \in Pages
    BY <1>0, <1>2 DEF TypeOK, ThreadsOK
  <2>2. CASE thread[t].pc = "track"
    BY <1>2, <2>1, <2>2, HoldingOf DEF PagesInside, Inside, Allocating
  <2>3. CASE thread[t].pc = "remove"
    BY <1>0, <1>2, <2>1, <2>3, HoldingOf DEF PagesInside, Inside, Removing, TablePlaces
  <2>4. CASE thread[t].pc \in {"absent", "unmap"}
    BY <1>0, <1>2, <2>1, <2>4 DEF ReleasedPages
  <2> QED
    BY <1>2, <2>1, <2>2, <2>3, <2>4 DEF MappedAt
<1>3. ASSUME NEW v \in VAs, NEW p, Maps(v, p)
      PROVE  /\ p \in Pages
             /\ \E k \in {"tracked", "allocating", "removing", "removed"} : p \in Holding[k]
  BY <1>1, <1>2, <1>3 DEF Maps
<1>4. ASSUME NEW v \in VAs, NEW p, Maps(v, p)
      PROVE  \A k \in {"dram", "nvm", "policy", "request"} : p \notin Holding[k]
  BY <1>0, <1>3, <1>4, NotWith DEF Kinds
<1>5. ASSUME NEW u \in VAs, NEW v \in VAs, NEW p, Maps(u, p), Maps(v, p) PROVE u = v
  <2>1. p \in Pages /\ p # None
    BY <1>3, <1>5 DEF Maps
  <2>2. \A j, k \in Kinds : p \in Holding[j] /\ p \in Holding[k] => j = k
    BY <1>0, <2>1, OneOwner
  <2>3. ASSUME NEW t \in Threads, NEW s \in Threads, At(t, u, p), At(s, v, p) PROVE u = v
    <3>1. CASE thread[t].pc = "track" /\ thread[s].pc = "track"
      BY <1>0, <2>3, <3>1 DEF Once, OneInside, Inside, Allocating
    <3> QED
      BY <1>2, <2>1, <2>2, <2>3, <3>1 DEF Kinds
  <2>4. ASSUME NEW t \in Threads, NEW x \in VAs, NEW y \in VAs, pages[x] = p, At(t, y, p) PROVE FALSE
    BY <1>1, <1>2, <2>1, <2>2, <2>4 DEF Kinds
  <2>5. pages[u] = p /\ pages[v] = p => u = v
    BY <1>1, <2>1
  <2> QED
    BY <1>5, <2>3, <2>4, <2>5 DEF Maps
<1>6. ASSUME NEW v \in VAs, NEW p, NEW q, Maps(v, p), Maps(v, q) PROVE p = q
  <2>1. ASSUME NEW t \in Threads, At(t, v, p) \/ At(t, v, q) PROVE pages[v] = None
    BY <1>0, <2>1 DEF Untracked, MappedAt
  <2>2. ASSUME NEW t \in Threads, NEW s \in Threads, At(t, v, p), At(s, v, q) PROVE p = q
    <3>1. v # None
      BY NoneAssumption
    <3> QED
      BY <1>0, <2>2, <3>1 DEF ThreadPlaces
  <2> QED
    BY <1>6, <2>1, <2>2 DEF Maps
<1> QED
  BY <1>3, <1>4, <1>5, <1>6

\* Nobody is inside munmap while the policy thread is awake or a request is
\* outstanding.
LEMMA NobodyLeaves ==
  ASSUME OwnInv, MapInv, step # "asleep" \/ Outstanding # {}
  PROVE  ~Releasing /\ \A t \in Threads : thread[t].pc \notin Leaving
<1>1. Quiet /\ ThreadPlaces
  BY DEF OwnInv, MapInv
<1>2. WorkersIdle => Outstanding = {}
  BY DEF WorkersIdle, Outstanding, MQ!Queued, MQ!Held
<1>3. ~Releasing
  BY <1>1, <1>2 DEF Quiet
<1> QED
  BY <1>1, <1>3 DEF Releasing, Leaving, ThreadPlaces, Threads

\* When munmap begins.
LEMMA MunmapQuiet ==
  ASSUME OwnInv, QuietMode, NEW a \in Apps, NEW v \in VAs, Munmap(a, v)
  PROVE  /\ UnmapMode = "quiescent" /\ step = "asleep" /\ WorkersIdle /\ Outstanding = {}
         /\ \A w \in Workers : wstep[w] = "idle"
<1>1. UnmapMode = "quiescent" /\ step = "asleep" /\ WorkersIdle
  BY DEF Munmap, MayUnmap, QuietMode
<1> QED
  BY <1>1 DEF WorkersIdle, Outstanding, MQ!Queued, MQ!Held, MQ!Busy, OwnInv, TypeOK, WorkersOK

\* A thread that is not leaving starts to only in munmap.
LEMMA StartsLeaving ==
  ASSUME TypeOK, ThreadStep, Releasing', ~Releasing
  PROVE  \E a \in Apps, v \in VAs : Munmap(a, v)
<1>0. thread \in [Threads -> [pc : {"idle", "dram", "nvm", "map", "track", "report",
                                    "remove", "absent", "unmap"},
                              v : VAs \cup {None}, page : Pages \cup {None}]]
      /\ FaultThread \in Threads /\ Apps \subseteq Threads
  BY DEF TypeOK, ThreadsOK, Threads
<1>1. PICK a \in Apps : thread'[a].pc \in Leaving /\ thread[a].pc \notin Leaving
  BY DEF Releasing, Leaving
<1>2. CASE UNCHANGED thread
  BY <1>1, <1>2
<1>3. ASSUME NEW v \in VAs, MissingFault(v) PROVE FALSE
  BY <1>0, <1>1, <1>3 DEF MissingFault, Goto, Leaving
<1>4. ASSUME NEW b \in Apps, NEW v \in VAs, NEW populate \in BOOLEAN, Mmap(b, v, populate) PROVE FALSE
  BY <1>0, <1>1, <1>4 DEF Mmap, Goto, Leaving
<1>5. ASSUME NEW t \in Threads, AllocateNext(t) PROVE FALSE
  BY <1>0, <1>1, <1>5 DEF AllocateNext, AllocateDram, AllocateNvm, MapFrame, TrackPage, ReportAdd,
     Goto, Leaving
<1>6. ASSUME NEW b \in Apps, ReleaseNext(b) PROVE FALSE
  BY <1>0, <1>1, <1>6 DEF ReleaseNext, ReportRemoval, ClearPresent, Unmap, Goto, Leaving, Releasing
<1>7. CASE AssertFails \/ UNCHANGED vars
  BY <1>1, <1>7 DEF AssertFails, vars
<1> QED
  BY <1>3, <1>4, <1>5, <1>6, <1>7 DEF ThreadStep, AppNext

\* Every step keeps munmap apart from the policy thread and the workers.
LEMMA QuietStep ==
  ASSUME OwnInv, MapInv, QuietMode, [Next]_vars
  PROVE  Quiet'
<1>0. TypeOK /\ Quiet
  BY DEF OwnInv, MapInv
<1> SUFFICES ASSUME Releasing' PROVE UnmapMode = "quiescent" /\ step' = "asleep" /\ WorkersIdle'
  BY DEF Quiet
<1>1. CASE ThreadStep
  <2>1. UNCHANGED <<step, migration_queue, worker_pc>>
    BY <1>1, ThreadsLeave
  <2>2. UnmapMode = "quiescent" /\ step = "asleep" /\ WorkersIdle
    BY <1>0, <1>1, StartsLeaving, MunmapQuiet DEF Quiet
  <2> QED
    BY <2>1, <2>2 DEF WorkersIdle, MQ!Busy
<1>2. CASE PolicyNext
  <2>1. Releasing
    BY <1>2, PolicyLeaves DEF Releasing
  <2> QED
    BY <1>0, <1>2, <2>1 DEF Quiet, PolicyNext, WakeUp, Drain, Score, Collect, BeginMigrations,
       StopMigrations, Choose, GiveBack, SubmitPromotion, GiveUpDemotion, SubmitExchange,
       PostSubmission
<1>3. ASSUME NEW w \in Workers, WorkerNext(w) PROVE UnmapMode = "quiescent" /\ step' = "asleep" /\ WorkersIdle'
  <2>1. Releasing /\ UNCHANGED step
    BY <1>3, WorkerLeaves DEF Releasing
  <2>2. UnmapMode = "quiescent" /\ step = "asleep" /\ WorkersIdle
    BY <1>0, <2>1 DEF Quiet
  <2>3. worker_pc[w] # "work" /\ wstep[w] = "idle" /\ migration_queue = <<>>
    BY <1>0, <2>2 DEF WorkersIdle, MQ!Busy, TypeOK, WorkersOK
  <2>4. WakeWorker(w)
    BY <1>3, <2>3 DEF WorkerNext, TakeRequest, MQ!Dequeue, DemoteStart, SkipDemotion, PromoteStart,
       SkipPromotion, Remap, Commit, ResetAfterDemotion, ResetAfterPromotion
  <2>5. MQ!Busy' = MQ!Busy /\ UNCHANGED migration_queue
    BY <1>0, <2>4 DEF WakeWorker, MQ!Wake, MQ!FindEmpty, MQ!Busy, TypeOK, MQ!TypeOK
  <2> QED
    BY <2>1, <2>2, <2>5 DEF WorkersIdle
<1> QED
  BY <1>1, <1>2, <1>3, StepOf
\* Whose threads, tables and regions a step of the other threads leaves alone.
LEMMA OthersLeave ==
  ASSUME PolicyNext \/ \E w \in Workers : WorkerNext(w)
  PROVE  UNCHANGED <<va, pages, region, thread>>
BY PolicyLeaves, WorkerLeaves

\* The threads after one of them has gone on.
LEMMA AfterGoto ==
  ASSUME TypeOK, NEW t \in Threads, NEW pc, NEW v, NEW p, Goto(t, pc, v, p)
  PROVE  /\ thread'[t] = [pc |-> pc, v |-> v, page |-> p]
         /\ \A u \in Threads \ {t} : thread'[u] = thread[u]
BY DEF Goto, TypeOK, ThreadsOK

\* An address without a frame is not tracked, and neither is one a thread is
\* inside of.
LEMMA NotMapped ==
  ASSUME OwnInv, MapInv, NEW v \in VAs, page_table[v] = None
  PROVE  pages[v] = None
<1>1. TypeOK /\ TablesAgree
  BY DEF OwnInv, MapInv
<1>2. None \notin Frames
  BY NoneAssumption
<1> SUFFICES ASSUME pages[v] # None PROVE FALSE
  OBVIOUS
<1>3. pages[v] \in Pages /\ Maps(v, pages[v])
  BY <1>1 DEF Maps, TypeOK, TablesOK
<1>4. page_table[v] \in Frames
  BY <1>1, <1>3 DEF TablesAgree, TypeOK, StructsOK, WorkersOK, Remapped
<1> QED
  BY <1>2, <1>4

\* A thread that goes on, where the addresses of the threads stay untracked.
LEMMA UntrackedGoto ==
  ASSUME TypeOK, NEW t \in Threads, NEW pc, NEW v, NEW p, Goto(t, pc, v, p),
         pc \notin {"idle", "report"} => pages'[v] = None,
         \A u \in Threads \ {t} : thread[u].pc \notin {"idle", "report"} => pages'[thread[u].v] = None,
         \A x \in VAs : region'[x] = "none" => pages'[x] = None
  PROVE  Untracked'
<1>1. /\ thread'[t].pc = pc /\ thread'[t].v = v
      /\ \A u \in Threads \ {t} : thread'[u] = thread[u]
  <2>1. /\ thread'[t] = [pc |-> pc, v |-> v, page |-> p]
        /\ \A u \in Threads \ {t} : thread'[u] = thread[u]
    BY AfterGoto
  <2> QED
    BY <2>1
<1>2. ASSUME NEW u \in Threads, thread'[u].pc \notin {"idle", "report"} PROVE pages'[thread'[u].v] = None
  <2>1. CASE u = t
    BY <1>1, <1>2, <2>1
  <2>2. CASE u # t
    BY <1>1, <1>2, <2>2
  <2> QED
    BY <2>1, <2>2
<1> QED
  BY <1>2 DEF Untracked

\* Every step keeps untracked what a thread works on.
LEMMA UntrackedStep ==
  ASSUME OwnInv, MapInv, [Next]_vars
  PROVE  Untracked'
<1>0. /\ TypeOK /\ ThreadsOK /\ TablesOK /\ KernelOK /\ Untracked /\ ThreadPlaces
      /\ FaultThread \in Threads /\ Apps \subseteq Threads /\ None \notin VAs
  BY NoneAssumption DEF OwnInv, MapInv, TypeOK, Threads
<1>1. CASE UNCHANGED <<thread, pages, region>>
  BY <1>0, <1>1 DEF Untracked
<1>2. ASSUME NEW v \in VAs, MissingFault(v) PROVE Untracked'
  <2>1. pages[v] = None
    BY <1>2, NotMapped DEF MissingFault
  <2> QED
    BY <1>0, <1>2, <2>1, UntrackedGoto DEF MissingFault, Untracked, tables, kernelVars
<1>3. ASSUME NEW a \in Apps, NEW v \in VAs, NEW populate \in BOOLEAN, Mmap(a, v, populate)
      PROVE  Untracked'
  <2>1. pages[v] = None /\ UNCHANGED pages
        /\ \A x \in VAs : region'[x] = "none" => region[x] = "none"
    BY <1>0, <1>3 DEF Mmap, Untracked, tables, KernelOK
  <2>2. CASE UNCHANGED thread
    BY <1>0, <2>1, <2>2 DEF Untracked
  <2>3. CASE Goto(a, "dram", v, None)
    BY <1>0, <2>1, <2>3, UntrackedGoto DEF Untracked
  <2> QED
    BY <1>3, <2>2, <2>3 DEF Mmap
<1>4. ASSUME NEW a \in Apps, NEW v \in VAs, Munmap(a, v) PROVE Untracked'
  <2>1. \A x \in VAs : pages'[x] = IF x = v THEN None ELSE pages[x]
    BY <1>0, <1>4 DEF Munmap, TablesOK
  <2>2. PICK pc, p : Goto(a, pc, v, p)
    BY <1>4 DEF Munmap
  <2>3. \A x \in VAs : region'[x] = "none" => region[x] = "none"
    BY <1>0, <1>4 DEF Munmap, KernelOK
  <2>4. \A t \in Threads : thread[t].pc # "idle" => thread[t].v \in VAs
    BY <1>0 DEF ThreadsOK
  <2>5. \A t \in Threads : thread[t].pc \notin {"idle", "report"} => pages'[thread[t].v] = None
    BY <1>0, <2>1, <2>4 DEF Untracked
  <2>6. \A x \in VAs : region'[x] = "none" => pages'[x] = None
    BY <1>0, <2>1, <2>3 DEF Untracked
  <2> QED
    BY <1>0, <2>1, <2>2, <2>5, <2>6, UntrackedGoto
<1>5. ASSUME NEW t \in Threads, AllocateDram(t) \/ AllocateNvm(t) \/ MapFrame(t) PROVE Untracked'
  <2>1. thread[t].pc \in {"dram", "nvm", "map"} /\ UNCHANGED <<pages, region>>
        /\ (UNCHANGED thread \/ \E pc, p : Goto(t, pc, thread[t].v, p))
    BY <1>5 DEF AllocateDram, AllocateNvm, MapFrame, tables, kernelVars
  <2> QED
    BY <1>0, <2>1, UntrackedGoto DEF Untracked
<1>6. ASSUME NEW t \in Threads, TrackPage(t) PROVE Untracked'
  <2>1. /\ thread[t].pc = "track" /\ thread[t].v \in VAs /\ UNCHANGED region
        /\ \A x \in VAs : x # thread[t].v => pages'[x] = pages[x]
        /\ Goto(t, "report", thread[t].v, thread[t].page)
    BY <1>0, <1>6 DEF TrackPage, TablesOK, ThreadsOK, kernelVars
  <2>2. region[thread[t].v] # "none"
    BY <1>0, <2>1 DEF ThreadPlaces, Threads, Leaving
  <2>3. \A u \in Threads \ {t} : thread[u].pc # "idle" => thread[u].v \in VAs /\ thread[u].v # thread[t].v
    BY <1>0, <2>1 DEF ThreadPlaces, ThreadsOK
  <2>4. \A u \in Threads \ {t} : thread[u].pc \notin {"idle", "report"} => pages'[thread[u].v] = None
    BY <1>0, <2>1, <2>3 DEF Untracked
  <2>5. \A x \in VAs : region'[x] = "none" => pages'[x] = None
    BY <1>0, <2>1, <2>2 DEF Untracked
  <2> QED
    BY <1>0, <2>1, <2>4, <2>5, UntrackedGoto
<1>7. ASSUME NEW t \in Threads, ReportAdd(t) PROVE Untracked'
  <2>1. UNCHANGED pages /\ Goto(t, "idle", None, None)
        /\ \A x \in VAs : region'[x] = "none" => region[x] = "none"
    BY <1>0, <1>7 DEF ReportAdd, KernelOK
  <2> QED
    BY <1>0, <2>1, UntrackedGoto DEF Untracked
<1>8. ASSUME NEW a \in Apps, ReportRemoval(a) \/ ClearPresent(a) PROVE Untracked'
  <2>1. thread[a].pc \in Leaving /\ UNCHANGED <<pages, region>>
        /\ \E pc : Goto(a, pc, thread[a].v, thread[a].page)
    BY <1>8 DEF ReportRemoval, ClearPresent, tables, kernelVars, Leaving
  <2> QED
    BY <1>0, <2>1, UntrackedGoto DEF Untracked, Leaving
<1>9. ASSUME NEW a \in Apps, Unmap(a) PROVE Untracked'
  <2>1. /\ pages[thread[a].v] = None /\ UNCHANGED pages /\ Goto(a, "idle", None, None)
        /\ \A x \in VAs : region'[x] = "none" => region[x] = "none" \/ x = thread[a].v
    BY <1>0, <1>9 DEF Unmap, Untracked, KernelOK, tables
  <2> QED
    BY <1>0, <2>1, UntrackedGoto DEF Untracked
<1>10. CASE ThreadStep
  BY <1>1, <1>2, <1>3, <1>4, <1>5, <1>6, <1>7, <1>8, <1>9, <1>10 DEF ThreadStep, AppNext,
     AllocateNext, ReleaseNext, AssertFails, vars, tables, kernelVars
<1> QED
  BY <1>1, <1>10, OthersLeave, StepOf

\* The removals waiting for the policy thread become fewer when it drains only.
LEMMA RemovedGrows ==
  ASSUME TypeOK, [Next]_vars, ~Drain
  PROVE  Holding["removed"] \subseteq Holding'["removed"]
<1>1. CASE UNCHANGED mod_page_dq
  BY <1>1, HoldingSame
<1>2. ASSUME NEW t \in Threads, NEW f \in BOOLEAN, thread[t].page \in Pages,
             mod_page_dq' = Append(mod_page_dq, [page |-> thread[t].page, free |-> f])
      PROVE  Holding["removed"] \subseteq Holding'["removed"]
  <2>1. RemovedAt \subseteq RemovedAt' /\ RemovedAt \subseteq DOMAIN mod_page_dq
        /\ \A i \in DOMAIN mod_page_dq : mod_page_dq'[i] = mod_page_dq[i]
    BY <1>2, RemovedAppend DEF TypeOK, RemovedAt
  <2> QED
    BY <2>1 DEF Holding
<1>3. ASSUME NEW t \in Threads, ReportAdd(t) \/ ReportRemoval(t)
      PROVE  Holding["removed"] \subseteq Holding'["removed"]
  BY <1>2, <1>3 DEF ReportAdd, ReportRemoval, TypeOK, ThreadsOK
<1>4. CASE ThreadStep
  BY <1>1, <1>3, <1>4 DEF ThreadStep, AppNext, MissingFault, Mmap, Munmap, AllocateNext,
     AllocateDram, AllocateNvm, MapFrame, TrackPage, ReleaseNext, ClearPresent, Unmap,
     AssertFails, vars, tables, Threads
<1> QED
  BY <1>1, <1>4, PolicyLeaves, WorkerLeaves, StepOf
\* A thread that goes on, where what has been removed stays removed.
LEMMA ReleasedGoto ==
  ASSUME TypeOK, ReleasedPages, NEW t \in Threads, NEW pc, NEW v, NEW p, Goto(t, pc, v, p),
         Holding["removed"] \subseteq Holding'["removed"],
         pc \in {"absent", "unmap"} /\ p # None => p \in Holding'["removed"] /\ va'[p] = v,
         \A u \in Threads \ {t} : thread[u].pc \in {"absent", "unmap"} /\ thread[u].page # None
                                     => va'[thread[u].page] = va[thread[u].page]
  PROVE  ReleasedPages'
<1>1. /\ thread'[t].pc = pc /\ thread'[t].v = v /\ thread'[t].page = p
      /\ \A u \in Threads \ {t} : thread'[u] = thread[u]
  <2>1. /\ thread'[t] = [pc |-> pc, v |-> v, page |-> p]
        /\ \A u \in Threads \ {t} : thread'[u] = thread[u]
    BY AfterGoto
  <2> QED
    BY <2>1
<1>2. ASSUME NEW u \in Threads, thread'[u].pc \in {"absent", "unmap"}, thread'[u].page # None
      PROVE  thread'[u].page \in Holding'["removed"] /\ va'[thread'[u].page] = thread'[u].v
  <2>1. CASE u = t
    BY <1>1, <1>2, <2>1
  <2>2. CASE u # t
    BY <1>1, <1>2, <2>2 DEF ReleasedPages
  <2> QED
    BY <2>1, <2>2
<1> QED
  BY <1>2 DEF ReleasedPages

\* Every step keeps removed what munmap has removed, with its address.
LEMMA ReleasedPagesStep ==
  ASSUME OwnInv, MapInv, [Next]_vars
  PROVE  ReleasedPages'
<1>0. /\ TypeOK /\ ReleasedPages /\ Accounted /\ TablePlaces /\ FaultThread \in Threads
      /\ Apps \subseteq Threads
  BY DEF OwnInv, MapInv, Threads
<1>1. CASE UNCHANGED <<thread, va>>
  <2>1. CASE Drain
    BY <1>1, <2>1, NobodyLeaves DEF Drain, ReleasedPages, Leaving
  <2> QED
    BY <1>0, <1>1, <2>1, RemovedGrows DEF ReleasedPages
<1>2. CASE ~Drain
  <2>0. Holding["removed"] \subseteq Holding'["removed"]
    BY <1>0, <1>2, RemovedGrows
  <2>1. ASSUME NEW t \in Threads, UNCHANGED va,
               \E pc, v, p : Goto(t, pc, v, p) /\ pc \notin {"absent", "unmap"}
        PROVE  ReleasedPages'
    BY <1>0, <2>0, <2>1, ReleasedGoto
  <2>2. ASSUME NEW v \in VAs, MissingFault(v) PROVE ReleasedPages'
    BY <1>0, <2>1, <2>2 DEF MissingFault, structVars
  <2>3. ASSUME NEW a \in Apps, NEW v \in VAs, NEW populate \in BOOLEAN, Mmap(a, v, populate)
        PROVE  ReleasedPages'
    BY <1>0, <1>1, <2>1, <2>3 DEF Mmap, structVars
  <2>4. ASSUME NEW a \in Apps, NEW v \in VAs, Munmap(a, v) PROVE ReleasedPages'
    <3>1. CASE pages[v] = None
      BY <1>0, <2>0, <2>4, <3>1, ReleasedGoto DEF Munmap, structVars
    <3>2. CASE pages[v] # None
      BY <1>0, <2>1, <2>4, <3>2 DEF Munmap, structVars
    <3> QED
      BY <3>1, <3>2
  <2>5. ASSUME NEW t \in Threads, AllocateDram(t) \/ AllocateNvm(t) \/ MapFrame(t) \/ ReportAdd(t)
        PROVE  ReleasedPages'
    <3>1. UNCHANGED va /\ \/ UNCHANGED thread
                          \/ \E pc, v, p : Goto(t, pc, v, p) /\ pc \notin {"absent", "unmap"}
      BY <2>5 DEF AllocateDram, AllocateNvm, MapFrame, ReportAdd, structVars
    <3> QED
      BY <1>1, <2>1, <3>1
  <2>6. ASSUME NEW t \in Threads, TrackPage(t) PROVE ReleasedPages'
    <3>1. /\ thread[t].page \in Pages /\ thread[t].page \in Holding["allocating"]
          /\ Goto(t, "report", thread[t].v, thread[t].page)
          /\ va' = [va EXCEPT ![thread[t].page] = thread[t].v]
      BY <1>0, <2>6, HoldingOf DEF TrackPage, TypeOK, ThreadsOK, PagesInside, Inside, Allocating
    <3>2. thread[t].page \notin Holding["removed"]
      BY <1>0, <3>1, NotWith DEF Kinds
    <3>3. \A u \in Threads : thread[u].pc \in {"absent", "unmap"} /\ thread[u].page # None
             => thread[u].page \in Holding["removed"] /\ thread[u].page \in Pages
      BY <1>0 DEF ReleasedPages, TypeOK, ThreadsOK
    <3>4. \A u \in Threads \ {t} : thread[u].pc \in {"absent", "unmap"} /\ thread[u].page # None
             => va'[thread[u].page] = va[thread[u].page]
      BY <1>0, <3>1, <3>2, <3>3 DEF TypeOK, StructsOK
    <3> QED
      BY <1>0, <2>0, <3>1, <3>4, ReleasedGoto
  <2>7. ASSUME NEW a \in Apps, ReportRemoval(a) PROVE ReleasedPages'
    <3>1. /\ thread[a].pc = "remove" /\ thread[a].page \in Pages /\ UNCHANGED va
          /\ mod_page_dq' = Append(mod_page_dq, [page |-> thread[a].page, free |-> TRUE])
          /\ Goto(a, "absent", thread[a].v, thread[a].page)
      BY <1>0, <2>7 DEF ReportRemoval, structVars, TypeOK, ThreadsOK
    <3>2. thread[a].page \in Holding'["removed"]
      <4>1. PICK n : n = Len(mod_page_dq) + 1
        OBVIOUS
      <4>2. mod_page_dq'[n] = [page |-> thread[a].page, free |-> TRUE] /\ n \in RemovedAt'
        BY <1>0, <3>1, <4>1, RemovedAppend DEF TypeOK
      <4>3. mod_page_dq'[n].page = thread[a].page
        BY <4>2
      <4> QED
        BY <4>2, <4>3 DEF Holding
    <3> QED
      BY <1>0, <2>0, <3>1, <3>2, ReleasedGoto DEF TablePlaces
  <2>8. ASSUME NEW a \in Apps, ClearPresent(a) PROVE ReleasedPages'
    BY <1>0, <2>0, <2>8, ReleasedGoto DEF ClearPresent, ReleasedPages
  <2>9. ASSUME NEW a \in Apps, Unmap(a) PROVE ReleasedPages'
    BY <1>0, <2>1, <2>9 DEF Unmap, structVars
  <2>10. CASE ThreadStep
    BY <1>1, <2>2, <2>3, <2>4, <2>5, <2>6, <2>7, <2>8, <2>9, <2>10 DEF ThreadStep, AppNext,
       AllocateNext, ReleaseNext, AssertFails, vars, structVars
  <2> QED
    BY <1>1, <2>10, OthersLeave, StepOf
<1> QED
  BY <1>1, <1>2, OthersLeave DEF PolicyNext, Drain, structVars
\* The pages threads are about to clear are different.
LEMMA AbsentOnce ==
  ASSUME OwnInv, MapInv
  PROVE  OneInside({"absent"})
<1>1. TypeOK /\ ThreadPlaces /\ ReleasedPages
  BY DEF OwnInv, MapInv
<1>2. \A t \in Inside({"absent"}) : /\ t \in Threads /\ thread[t].page \in Pages
                                    /\ thread[t].v \in VAs /\ va[thread[t].page] = thread[t].v
  BY <1>1, NoneAssumption DEF Inside, ReleasedPages, TypeOK, ThreadsOK
<1> QED
  BY <1>1, <1>2, NoneAssumption DEF OneInside, ThreadPlaces

\* The pages of threads at some places of their code, when one goes on.
LEMMA LiveGoto ==
  ASSUME OwnInv, MapInv, NEW t \in Threads, NEW pc, NEW v, NEW p, Goto(t, pc, v, p),
         NEW S \in {Allocating, Removing, {"absent"}},
         pc \in S => IF thread[t].pc \in S THEN p = thread[t].page ELSE p \notin PagesInside(S)
  PROVE  PagesInside(S)' = IF pc \in S THEN PagesInside(S) \cup {p}
                           ELSE IF thread[t].pc \in S THEN PagesInside(S) \ {thread[t].page}
                           ELSE PagesInside(S)
<1>1. OneInside(S)
  <2>1. OneInside(Allocating) /\ OneInside(Removing) /\ OneInside({"absent"})
    BY AbsentOnce DEF OwnInv, Once
  <2> QED
    BY <2>1
<1>2. ThreadsOK
  BY DEF OwnInv, TypeOK
<1>4. pc \in S /\ thread[t].pc \in S => p = thread[t].page
  OBVIOUS
<1>5. pc \in S /\ thread[t].pc \notin S => p \notin PagesInside(S)
  OBVIOUS
<1> QED
  BY <1>1, <1>2, <1>4, <1>5, GotoInside
\* The three ways it can go on.
LEMMA GotoApart ==
  ASSUME OwnInv, MapInv, NEW t \in Threads, NEW pc, NEW v, NEW p, Goto(t, pc, v, p),
         NEW S \in {Allocating, Removing, {"absent"}}, pc \notin S, thread[t].pc \notin S
  PROVE  PagesInside(S)' = PagesInside(S)
BY LiveGoto

LEMMA GotoEnters ==
  ASSUME OwnInv, MapInv, NEW t \in Threads, NEW pc, NEW v, NEW p, Goto(t, pc, v, p),
         NEW S \in {Allocating, Removing, {"absent"}}, pc \in S, thread[t].pc \notin S,
         p \notin PagesInside(S)
  PROVE  PagesInside(S)' = PagesInside(S) \cup {p}
BY LiveGoto

LEMMA GotoLeaves ==
  ASSUME OwnInv, MapInv, NEW t \in Threads, NEW pc, NEW v, NEW p, Goto(t, pc, v, p),
         NEW S \in {Allocating, Removing, {"absent"}}, pc \notin S, thread[t].pc \in S
  PROVE  PagesInside(S)' = PagesInside(S) \ {thread[t].page}
BY LiveGoto

\* The pages of threads about to clear present wait for the policy thread.
LEMMA AbsentRemoved ==
  ASSUME OwnInv, MapInv
  PROVE  PagesInside({"absent"}) \subseteq Holding["removed"]
<1>1. TypeOK /\ ReleasedPages
  BY DEF OwnInv, MapInv
<1> QED
  BY <1>1, NoneAssumption DEF PagesInside, Inside, ReleasedPages, TypeOK, ThreadsOK

\* A page of a list or of a request belongs to no address.
LEMMA FreeNotLive ==
  ASSUME OwnInv, MapInv, NEW p \in Pages, NEW k \in {"dram", "nvm", "policy", "request"},
         p \in Holding[k]
  PROVE  p \notin Live
<1>1. Accounted
  BY DEF OwnInv
<1>2. \A j \in {"allocating", "tracked", "removing", "removed"} : p \notin Holding[j]
  BY <1>1, NotWith DEF Kinds
<1> QED
  BY <1>2, AbsentRemoved DEF Live

\* Live in terms of its parts, before and after a step.
LEMMA LiveParts ==
  /\ Live = PagesInside(Allocating) \cup Holding["tracked"] \cup PagesInside(Removing)
              \cup PagesInside({"absent"})
  /\ Live' = PagesInside(Allocating)' \cup Holding'["tracked"] \cup PagesInside(Removing)'
              \cup PagesInside({"absent"})'
BY DEF Live, Holding

\* The places of a thread that allocates, and of one that removes.
LEMMA PlaceSets == Allocating = {"map", "track"} /\ Removing = {"remove"}
BY DEF Allocating, Removing

\* A thread that goes on without a page that has been allocated or is removed.
LEMMA LiveStays ==
  ASSUME OwnInv, MapInv, NEW t \in Threads, NEW pc, NEW v, NEW p, Goto(t, pc, v, p),
         UNCHANGED <<pages, present>>,
         \/ {pc, thread[t].pc} \cap {"map", "track", "remove", "absent"} = {}
         \/ {pc, thread[t].pc} \subseteq Allocating /\ p = thread[t].page
  PROVE  PresentRight'
<1>1. /\ PagesInside(Allocating)' = PagesInside(Allocating)
      /\ PagesInside(Removing)' = PagesInside(Removing)
      /\ PagesInside({"absent"})' = PagesInside({"absent"})
  <2>1. ASSUME NEW S \in {Allocating, Removing, {"absent"}},
               pc \notin S /\ thread[t].pc \notin S
        PROVE  PagesInside(S)' = PagesInside(S)
    BY <2>1, LiveGoto
  <2>2. ASSUME pc \in Allocating, thread[t].pc \in Allocating, p = thread[t].page
        PROVE  PagesInside(Allocating)' = PagesInside(Allocating)
    <3>1. PagesInside(Allocating)' = PagesInside(Allocating) \cup {p}
      BY <2>2, LiveGoto
    <3>2. p \in PagesInside(Allocating)
      BY <2>2 DEF PagesInside, Inside
    <3> QED
      BY <3>1, <3>2
  <2>3. CASE {pc, thread[t].pc} \cap {"map", "track", "remove", "absent"} = {}
    BY <2>1, <2>3 DEF Allocating, Removing
  <2>4. CASE {pc, thread[t].pc} \subseteq Allocating /\ p = thread[t].page
    BY <2>1, <2>2, <2>4 DEF Allocating, Removing
  <2> QED
    BY <2>3, <2>4
<1>2. Holding'["tracked"] = Holding["tracked"]
  BY HoldingSame
<1>3. Live' = Live
  BY <1>1, <1>2, LiveParts
<1> QED
  BY <1>3 DEF MapInv, PresentRight

\* Every step: present says which pages are with an address.
LEMMA PresentStep ==
  ASSUME OwnInv, MapInv, [Next]_vars
  PROVE  PresentRight'
<1>0. /\ TypeOK /\ StructsOK /\ ThreadsOK /\ ListsOK /\ TablesOK /\ Accounted /\ PresentRight
      /\ ReleasedPages /\ Untracked /\ FaultThread \in Threads /\ Apps \subseteq Threads
      /\ present \in [Pages -> BOOLEAN]
  BY DEF OwnInv, MapInv, TypeOK, StructsOK, Threads
<1>1. CASE UNCHANGED <<thread, pages, present>>
  <2>1. Live' = Live
    BY <1>1, LiveParts, HoldingSame, ThreadsStay
  <2> QED
    BY <1>0, <1>1, <2>1 DEF PresentRight
<1>2. ASSUME NEW v \in VAs, MissingFault(v) PROVE PresentRight'
  BY <1>0, <1>2, LiveStays DEF MissingFault, structVars, tables
<1>3. ASSUME NEW a \in Apps, NEW v \in VAs, NEW populate \in BOOLEAN, Mmap(a, v, populate)
      PROVE  PresentRight'
  BY <1>0, <1>1, <1>3, LiveStays DEF Mmap, structVars, tables
<1>4. ASSUME NEW t \in Threads, NEW p \in Pages, NEW v, p \in Holding["dram"] \cup Holding["nvm"],
             thread[t].pc \in {"dram", "nvm"}, Goto(t, "map", v, p), UNCHANGED pages,
             present' = [present EXCEPT ![p] = TRUE]
      PROVE  PresentRight'
  <2>1. p \notin PagesInside(Allocating)
    BY <1>0, <1>4, NotWith, HoldingOf DEF Kinds
  <2>2. PagesInside(Allocating)' = PagesInside(Allocating) \cup {p}
    BY <1>4, <2>1, GotoEnters, PlaceSets
  <2>3. PagesInside(Removing)' = PagesInside(Removing)
    BY <1>4, GotoApart, PlaceSets
  <2>4. PagesInside({"absent"})' = PagesInside({"absent"})
    BY <1>4, GotoApart
  <2>5. Live' = Live \cup {p}
    BY <1>4, <2>2, <2>3, <2>4, LiveParts, HoldingSame
  <2> QED
    BY <1>0, <1>4, <2>5 DEF PresentRight
<1>5. ASSUME NEW t \in Threads, AllocateDram(t) PROVE PresentRight'
  <2>1. CASE dram_free_list = <<>>
    BY <1>0, <1>5, <2>1, LiveStays DEF AllocateDram, tables
  <2>2. CASE dram_free_list # <<>>
    <3>1. PICK p : p = Head(dram_free_list)
      OBVIOUS
    <3>2. p \in Holding["dram"] /\ p \in Pages
      BY <1>0, <2>2, <3>1, TailFacts, HoldingOf DEF ListsOK, Range
    <3> QED
      BY <1>4, <1>5, <2>2, <3>1, <3>2 DEF AllocateDram, tables
  <2> QED
    BY <2>1, <2>2
<1>6. ASSUME NEW t \in Threads, AllocateNvm(t) PROVE PresentRight'
  <2>1. CASE nvm_free_list = <<>>
    BY <1>0, <1>1, <1>6, <2>1 DEF AllocateNvm, tables
  <2>2. CASE nvm_free_list # <<>>
    <3>1. PICK p : p = Head(nvm_free_list)
      OBVIOUS
    <3>2. p \in Holding["nvm"] /\ p \in Pages
      BY <1>0, <2>2, <3>1, TailFacts, HoldingOf DEF ListsOK, Range
    <3> QED
      BY <1>4, <1>6, <2>2, <3>1, <3>2 DEF AllocateNvm, tables
  <2> QED
    BY <2>1, <2>2
<1>7. ASSUME NEW t \in Threads, MapFrame(t) \/ ReportAdd(t) PROVE PresentRight'
  BY <1>0, <1>7, LiveStays DEF MapFrame, ReportAdd, Allocating, structVars, tables
<1>8. ASSUME NEW t \in Threads, TrackPage(t) PROVE PresentRight'
  <2>1. PICK p, v : p = thread[t].page /\ v = thread[t].v
    OBVIOUS
  <2>2. /\ thread[t].pc = "track" /\ p \in Pages /\ v \in VAs /\ pages[v] = None
        /\ p \in PagesInside(Allocating)
    BY <1>0, <1>8, <2>1 DEF TrackPage, ThreadsOK, Untracked, PagesInside, Inside, Allocating
  <2>3. pages' = [pages EXCEPT ![v] = p] /\ Goto(t, "report", v, p) /\ UNCHANGED present
    BY <1>8, <2>1 DEF TrackPage
  <2>4. PagesInside(Allocating)' = PagesInside(Allocating) \ {p}
    BY <2>1, <2>2, <2>3, GotoLeaves, PlaceSets
  <2>5. PagesInside(Removing)' = PagesInside(Removing)
    BY <2>2, <2>3, GotoApart, PlaceSets
  <2>6. PagesInside({"absent"})' = PagesInside({"absent"})
    BY <2>2, <2>3, GotoApart
  <2>7. Holding'["tracked"] = Holding["tracked"] \cup {p}
    BY <1>0, <2>2, <2>3, TrackedAdded, HoldingOf DEF Holding
  <2>8. Live' = Live
    BY <2>2, <2>4, <2>5, <2>6, <2>7, LiveParts
  <2> QED
    BY <1>0, <2>3, <2>8 DEF PresentRight
<1>9. ASSUME NEW a \in Apps, NEW v \in VAs, Munmap(a, v) PROVE PresentRight'
  <2>1. CASE pages[v] = None
    BY <1>0, <1>9, <2>1, LiveStays, NoneAssumption DEF Munmap, TablesOK, structVars
  <2>2. CASE pages[v] # None
    <3>1. PICK p : p = pages[v]
      OBVIOUS
    <3>2. p \in Pages /\ p \in Holding["tracked"]
      BY <1>0, <2>2, <3>1 DEF TablesOK, Holding, Range
    <3>3. /\ pages' = [pages EXCEPT ![v] = None] /\ Goto(a, "remove", v, p) /\ UNCHANGED present
          /\ thread[a].pc = "idle" /\ a \in Threads
      BY <1>0, <1>9, <2>2, <3>1 DEF Munmap, structVars
    <3>4. p \notin PagesInside(Removing)
      BY <1>0, <3>2, NotWith, HoldingOf DEF Kinds
    <3>5. PagesInside(Removing)' = PagesInside(Removing) \cup {p}
      BY <3>3, <3>4, GotoEnters, PlaceSets
    <3>6. PagesInside(Allocating)' = PagesInside(Allocating)
      BY <3>3, GotoApart, PlaceSets
    <3>7. PagesInside({"absent"})' = PagesInside({"absent"})
      BY <3>3, GotoApart
    <3>8. Holding'["tracked"] = Holding["tracked"] \ {p}
      BY <1>0, <2>2, <3>1, <3>2, <3>3, TrackedRemoved DEF OwnInv, Holding
    <3>9. Live' = Live
      BY <3>2, <3>5, <3>6, <3>7, <3>8, LiveParts
    <3> QED
      BY <1>0, <3>3, <3>9 DEF PresentRight
  <2> QED
    BY <2>1, <2>2
<1>10. ASSUME NEW a \in Apps, ReportRemoval(a) PROVE PresentRight'
  <2>1. PICK p : p = thread[a].page
    OBVIOUS
  <2>2. /\ thread[a].pc = "remove" /\ p \in Pages /\ a \in Threads
        /\ p \in PagesInside(Removing)
    BY <1>0, <1>10, <2>1 DEF ReportRemoval, ThreadsOK, PagesInside, Inside, Removing
  <2>3. Goto(a, "absent", thread[a].v, p) /\ UNCHANGED <<pages, present>>
    BY <1>10, <2>1 DEF ReportRemoval, structVars
  <2>4. p \notin PagesInside({"absent"})
    BY <1>0, <2>2, NotWith, HoldingOf, AbsentRemoved DEF Kinds
  <2>5. PagesInside({"absent"})' = PagesInside({"absent"}) \cup {p}
    BY <2>2, <2>3, <2>4, GotoEnters
  <2>6. PagesInside(Allocating)' = PagesInside(Allocating)
    BY <2>2, <2>3, GotoApart, PlaceSets
  <2>7. PagesInside(Removing)' = PagesInside(Removing) \ {p}
    BY <2>1, <2>2, <2>3, GotoLeaves, PlaceSets
  <2>8. Live' = Live
    BY <2>2, <2>3, <2>5, <2>6, <2>7, LiveParts, HoldingSame
  <2> QED
    BY <1>0, <2>3, <2>8 DEF PresentRight
<1>11. ASSUME NEW a \in Apps, ClearPresent(a) PROVE PresentRight'
  <2>1. PICK p : p = thread[a].page
    OBVIOUS
  <2>2. /\ thread[a].pc = "absent" /\ p \in Pages /\ a \in Threads
        /\ p \in PagesInside({"absent"})
    BY <1>0, <1>11, <2>1 DEF ClearPresent, ThreadsOK, PagesInside, Inside
  <2>3. Goto(a, "unmap", thread[a].v, p) /\ UNCHANGED pages
        /\ present' = [present EXCEPT ![p] = FALSE]
    BY <1>11, <2>1 DEF ClearPresent, tables
  <2>4. p \in Holding["removed"]
    BY <2>2, AbsentRemoved
  <2>5. p \notin Holding["allocating"] /\ p \notin Holding["tracked"] /\ p \notin Holding["removing"]
    BY <1>0, <2>2, <2>4, NotWith DEF Kinds
  <2>6. PagesInside({"absent"})' = PagesInside({"absent"}) \ {p}
    BY <2>1, <2>2, <2>3, GotoLeaves
  <2>7. PagesInside(Allocating)' = PagesInside(Allocating)
    BY <2>2, <2>3, GotoApart, PlaceSets
  <2>8. PagesInside(Removing)' = PagesInside(Removing)
    BY <2>2, <2>3, GotoApart, PlaceSets
  <2>9. Live' = Live \ {p}
    BY <2>3, <2>5, <2>6, <2>7, <2>8, LiveParts, HoldingSame, HoldingOf
  <2> QED
    BY <1>0, <2>2, <2>3, <2>9 DEF PresentRight
<1>12. ASSUME NEW a \in Apps, Unmap(a) PROVE PresentRight'
  BY <1>0, <1>12, LiveStays DEF Unmap, structVars, tables
<1>13. ASSUME NEW w \in Workers, ResetFree(w), wstep[w] # "idle", UNCHANGED <<thread, pages>>
       PROVE  PresentRight'
  <2>1. PICK p : p = worker_req[w].free_page
    OBVIOUS
  <2>2. p \in Pages /\ p \in Holding["request"]
    <3>1. worker_req[w] \in Outstanding /\ worker_req[w] \in Reqs
      BY <1>13, OutstandingReqs DEF OwnInv, TypeOK, WorkersOK
    <3> QED
      BY <2>1, <3>1, HoldingOf DEF Reqs
  <2>3. p \notin Live
    BY <2>2, FreeNotLive
  <2>4. Live' = Live
    BY <1>13, LiveParts, HoldingSame, ThreadsStay
  <2> QED
    BY <1>0, <1>13, <2>1, <2>2, <2>3, <2>4 DEF PresentRight, ResetFree
<1>14. CASE ThreadStep
  BY <1>1, <1>2, <1>3, <1>5, <1>6, <1>7, <1>8, <1>9, <1>10, <1>11, <1>12, <1>14 DEF ThreadStep,
     AppNext, AllocateNext, ReleaseNext, AssertFails, vars, structVars, tables
<1>15. CASE PolicyNext
  <2>1. UNCHANGED present
    BY <1>15 DEF PolicyNext, WakeUp, Drain, Score, Collect, BeginMigrations, StopMigrations,
       Choose, GiveBack, SubmitPromotion, GiveUpDemotion, SubmitExchange, PostSubmission, structVars
  <2> QED
    BY <1>1, <1>15, <2>1, PolicyLeaves
<1>16. ASSUME NEW w \in Workers, WorkerNext(w) PROVE PresentRight'
  <2>1. UNCHANGED present \/ (ResetFree(w) /\ wstep[w] # "idle")
    BY <1>16 DEF WorkerNext, WakeWorker, TakeRequest, DemoteStart, PromoteStart, LockForMigration,
       SkipDemotion, SkipPromotion, Remap, Commit, ResetAfterDemotion, ResetAfterPromotion, structVars
  <2> QED
    BY <1>1, <1>13, <1>16, <2>1, WorkerLeaves
<1> QED
  BY <1>14, <1>15, <1>16, StepOf
------------------------------------------------------------------------------
(* Pages that are scored or to be migrated.                                *)

\* A tracked page stays tracked unless munmap begins.
LEMMA TrackedStays ==
  ASSUME OwnInv, MapInv, [Next]_vars, ~\E a \in Apps, v \in VAs : Munmap(a, v)
  PROVE  Holding["tracked"] \subseteq Holding'["tracked"]
<1>0. TypeOK /\ TablesOK /\ Untracked
  BY DEF OwnInv, MapInv, TypeOK
<1>1. CASE UNCHANGED pages
  BY <1>1, HoldingSame
<1>2. ASSUME NEW t \in Threads, TrackPage(t) PROVE Holding["tracked"] \subseteq Holding'["tracked"]
  <2>1. PICK p, v : p = thread[t].page /\ v = thread[t].v
    OBVIOUS
  <2>2. /\ p \in Pages /\ v \in VAs /\ pages[v] = None /\ pages' = [pages EXCEPT ![v] = p]
    BY <1>0, <1>2, <2>1 DEF TrackPage, TypeOK, ThreadsOK, Untracked
  <2>3. Range(pages') \ {None} = (Range(pages) \ {None}) \cup {p}
    BY <1>0, <2>2, TrackedAdded
  <2> QED
    BY <2>3 DEF Holding
<1>3. CASE ThreadStep
  BY <1>1, <1>2, <1>3 DEF ThreadStep, AppNext, MissingFault, Mmap, AllocateNext, AllocateDram,
     AllocateNvm, MapFrame, ReportAdd, ReleaseNext, ReportRemoval, ClearPresent, Unmap,
     AssertFails, vars, tables
<1> QED
  BY <1>1, <1>3, PolicyLeaves, WorkerLeaves, StepOf

\* The request of SubmitPromotion or SubmitExchange is of scored pages.
LEMMA SubmittedScored ==
  ASSUME OwnInv, SubmitPromotion \/ SubmitExchange
  PROVE  \E r \in Reqs : /\ Outstanding' = Outstanding \cup {r}
                         /\ {r.nvm_page, r.dram_page} \ {None} \subseteq Range(scores)
<1>0. TypeOK /\ HandOffInv
  BY DEF OwnInv
<1>1. CASE SubmitPromotion
  <2>1. PICK r : r = [dram_page |-> None, nvm_page |-> scores[promote_idx + 1],
                      free_page |-> np, need_demotion |-> FALSE]
    OBVIOUS
  <2>2. r \in Reqs /\ MQ!Enqueue(r) /\ promote_idx + 1 \in DOMAIN scores
    BY <1>0, <1>1, <2>1, ScoresIndex DEF SubmitPromotion
  <2>3. r.dram_page = None /\ r.nvm_page = scores[promote_idx + 1]
    BY <2>1
  <2> QED
    BY <1>0, <2>2, <2>3, OutstandingEnqueue DEF Range
<1>2. CASE SubmitExchange
  <2>1. PICK k \in promote_idx + 1 .. demote_idx, r \in Reqs :
            /\ r = [dram_page |-> scores[k + 1], nvm_page |-> scores[promote_idx + 1],
                    free_page |-> Head(nvm_free_list), need_demotion |-> TRUE]
            /\ k + 1 \in DOMAIN scores /\ promote_idx + 1 \in DOMAIN scores /\ MQ!Enqueue(r)
    BY <1>0, <1>2, ExchangeRequest
  <2>2. r.dram_page = scores[k + 1] /\ r.nvm_page = scores[promote_idx + 1]
    BY <2>1
  <2> QED
    BY <1>0, <2>1, <2>2, OutstandingEnqueue DEF Range
<1> QED
  BY <1>1, <1>2

\* The pages of outstanding requests stay tracked: munmap waits.
LEMMA RequestsTrackedStep ==
  ASSUME OwnInv, MapInv, QuietMode, [Next]_vars
  PROVE  RequestsTracked'
<1>0. HandOffInv /\ RequestsTracked
  BY DEF OwnInv, MapInv
<1>1. ASSUME Outstanding' \subseteq Outstanding, ~\E a \in Apps, v \in VAs : Munmap(a, v)
      PROVE  RequestsTracked'
  BY <1>0, <1>1, TrackedStays DEF RequestsTracked
<1>2. CASE ThreadStep
  <2>1. Outstanding' = Outstanding
    BY <1>2, ThreadsLeave, OutstandingSame
  <2>2. ASSUME NEW a \in Apps, NEW v \in VAs, Munmap(a, v) PROVE Outstanding = {}
    BY <2>2, MunmapQuiet
  <2> QED
    BY <1>1, <2>1, <2>2 DEF RequestsTracked
<1>3. UNCHANGED thread => ~\E a \in Apps, v \in VAs : Munmap(a, v)
  <2> SUFFICES ASSUME UNCHANGED thread, NEW a \in Apps, NEW v \in VAs, Munmap(a, v) PROVE FALSE
    OBVIOUS
  <2>1. PICK pc, p : Goto(a, pc, v, p) /\ thread[a].pc = "idle" /\ pc \in Leaving
    BY DEF Munmap, Leaving
  <2>2. a \in Threads /\ TypeOK
    BY DEF Threads, OwnInv
  <2>3. thread'[a] = [pc |-> pc, v |-> v, page |-> p]
    BY <2>1, <2>2, AfterGoto
  <2> QED
    BY <2>1, <2>3 DEF Leaving
<1>4. CASE PolicyNext
  <2>1. UNCHANGED thread
    BY <1>4, PolicyLeaves
  <2>2. CASE SubmitPromotion \/ SubmitExchange
    <3>1. PICK r \in Reqs : /\ Outstanding' = Outstanding \cup {r}
                            /\ {r.nvm_page, r.dram_page} \ {None} \subseteq Range(scores)
      BY <2>2, SubmittedScored
    <3>2. Range(scores) \subseteq Holding["tracked"]
      BY <2>2 DEF MapInv, ScoresTracked, SubmitPromotion, SubmitExchange
    <3>3. Holding["tracked"] \subseteq Holding'["tracked"]
      BY <1>3, <2>1, TrackedStays
    <3> QED
      BY <1>0, <3>1, <3>2, <3>3 DEF RequestsTracked
  <2> QED
    BY <1>1, <1>3, <1>4, <2>1, <2>2, PolicyOutstanding
<1>5. ASSUME NEW w \in Workers, WorkerNext(w) PROVE RequestsTracked'
  BY <1>0, <1>1, <1>3, <1>5, OutstandingShrinks, WorkerLeaves
<1> QED
  BY <1>2, <1>4, <1>5, StepOf

\* The scored pages stay tracked until the interval ends, for the same reason.
LEMMA ScoresTrackedStep ==
  ASSUME OwnInv, MapInv, QuietMode, [Next]_vars
  PROVE  ScoresTracked'
<1>0. TypeOK /\ EntriesComplete /\ ScoresTracked /\ PolicyOK
  BY DEF OwnInv, MapInv, TypeOK
<1>1. CASE UNCHANGED <<step, scores>>
  <2>1. CASE \E a \in Apps, v \in VAs : Munmap(a, v)
    BY <1>1, <2>1, MunmapQuiet DEF ScoresTracked
  <2>2. CASE ~\E a \in Apps, v \in VAs : Munmap(a, v)
    BY <1>0, <1>1, <2>2, TrackedStays DEF ScoresTracked
  <2> QED
    BY <2>1, <2>2
<1>2. CASE Score
  <2>1. /\ mod_page_dq = <<>> /\ scores' \in Orders(Scored) /\ UNCHANGED pages /\ step = "drain"
    BY <1>2 DEF Score, tables
  <2>2. Range(scores') \subseteq Scored
    BY <2>1 DEF Orders, Range
  <2>3. Scored \subseteq Known
    BY <1>0, <2>1, DrainedKnown DEF Scored, Range, TypeOK, TablesOK
  <2>4. Holding["removing"] = {}
    BY <2>1, NobodyLeaves, HoldingOf DEF PagesInside, Inside, Removing, Leaving
  <2>5. Holding["removed"] = {}
    BY <2>1, HoldingOf DEF RemovedAt
  <2>6. Range(scores') \subseteq Holding["tracked"]
    BY <2>2, <2>3, <2>4, <2>5 DEF Known
  <2> QED
    BY <2>1, <2>6, HoldingSame DEF ScoresTracked
<1>3. CASE BeginMigrations \/ Choose \/ SubmitPromotion \/ SubmitExchange \/ PostSubmission
  <2>1. /\ step \in {"collect", "choose", "promote", "demote", "post"} /\ UNCHANGED <<scores, pages>>
    BY <1>3 DEF BeginMigrations, Choose, SubmitPromotion, SubmitExchange, PostSubmission, tables
  <2> QED
    BY <1>0, <2>1, HoldingSame DEF ScoresTracked
<1>4. CASE step' \in {"asleep", "drain"}
  BY <1>4 DEF ScoresTracked
<1>5. CASE PolicyNext
  BY <1>0, <1>1, <1>2, <1>3, <1>4, <1>5 DEF PolicyNext, WakeUp, Drain, Collect, StopMigrations,
     GiveBack, GiveUpDemotion, LeaveLoop, policyVars
<1> QED
  BY <1>1, <1>5, ThreadsLeave, WorkerLeaves, StepOf
------------------------------------------------------------------------------
(* Whose frame a step changes, and the tiers.                              *)

\* The pages of a worker inside a request: those it moves are tracked, and the
\* free one is the request's.
LEMMA WorkerPages ==
  ASSUME OwnInv, MapInv, NEW w \in Workers, wstep[w] # "idle"
  PROVE  /\ worker_req[w] \in Outstanding /\ worker_req[w] \in Reqs
         /\ Moving(w) \in Pages /\ Moving(w) \in Holding["tracked"]
         /\ worker_req[w].free_page \in Pages /\ worker_req[w].free_page \in Holding["request"]
         /\ worker_req[w].nvm_page \in Pages /\ worker_req[w].nvm_page \in Holding["tracked"]
         /\ worker_req[w].dram_page # None =>
               worker_req[w].dram_page \in Pages /\ worker_req[w].dram_page \in Holding["tracked"]
<1>1. TypeOK /\ RequestsTracked
  BY DEF OwnInv, MapInv
<1>2. worker_req[w] \in Outstanding /\ worker_req[w] \in Reqs
  BY <1>1, OutstandingReqs DEF OwnInv, TypeOK, WorkersOK
<1>3. /\ worker_req[w].free_page \in Pages /\ worker_req[w].nvm_page \in Pages
      /\ worker_req[w].dram_page \in Pages \cup {None}
  BY <1>2 DEF Reqs
<1>4. worker_req[w].nvm_page # None
  BY <1>3, NoneAssumption
<1>5. {worker_req[w].nvm_page, worker_req[w].dram_page} \ {None} \subseteq Holding["tracked"]
  BY <1>1, <1>2 DEF RequestsTracked
<1>6. worker_req[w].free_page \in Holding["request"]
  BY <1>2, HoldingOf
<1>7. Moving(w) \in Pages /\ Moving(w) \in Holding["tracked"]
  <2>1. wstep[w] \in {"map_down", "commit_down"} => worker_req[w].dram_page \in Pages
    BY <1>1 DEF TypeOK, WorkersOK
  <2>2. wstep[w] \in {"map_down", "commit_down"} => worker_req[w].dram_page # None
    BY <2>1, NoneAssumption
  <2> QED
    BY <1>3, <1>4, <1>5, <2>1, <2>2 DEF Moving
<1> QED
  BY <1>2, <1>3, <1>4, <1>5, <1>6, <1>7

\* A worker changes the frame of the page it has moved, when it commits, and
\* of the free page, when it resets it.
LEMMA FrameKept ==
  ASSUME TypeOK, NEW w \in Workers, WorkerNext(w), NEW p \in Pages,
         wstep[w] \in {"commit_down", "commit_up"} => p # Moving(w),
         wstep[w] \in {"reset_down", "reset_up"} => p # worker_req[w].free_page
  PROVE  frame'[p] = frame[p]
<1>1. CASE UNCHANGED frame
  BY <1>1
<1>2. CASE Commit(w) \/ ResetAfterDemotion(w) \/ ResetAfterPromotion(w)
  BY <1>2 DEF Commit, ResetAfterDemotion, ResetAfterPromotion, ResetFree, TypeOK, StructsOK
<1> QED
  BY <1>1, <1>2 DEF WorkerNext, WakeWorker, TakeRequest, DemoteStart, PromoteStart,
     LockForMigration, SkipDemotion, SkipPromotion, Remap, structVars

\* The pages of another request are not the worker's.
LEMMA OtherPages ==
  ASSUME OwnInv, NEW w \in Workers, wstep[w] # "idle",
         NEW r \in Outstanding, r # worker_req[w], NEW p \in Involved(r)
  PROVE  p # Moving(w) /\ p # worker_req[w].free_page
<1>0. TypeOK /\ HandOffInv /\ RequestsApart
  BY DEF OwnInv
<1>1. worker_req[w] \in Outstanding /\ Moving(w) \in Pages /\ worker_req[w].free_page \in Pages
  BY <1>0, WorkersApart, OutstandingReqs DEF TypeOK, WorkersOK
<1>2. Moving(w) # None /\ worker_req[w].free_page # None
  BY <1>1, NoneAssumption
<1>3. Moving(w) \in Involved(worker_req[w]) /\ worker_req[w].free_page \in Involved(worker_req[w])
  BY <1>2 DEF Involved, Moving
<1>4. Involved(r) \cap Involved(worker_req[w]) = {}
  BY <1>0, <1>1 DEF RequestsApart
<1> QED
  BY <1>3, <1>4

\* ... so their frames stay, and so do the tiers.
LEMMA OthersKeepFrames ==
  ASSUME OwnInv, NEW w \in Workers, WorkerNext(w), NEW r \in Outstanding,
         wstep[w] # "idle" => r # worker_req[w], NEW p \in Involved(r), p \in Pages
  PROVE  frame'[p] = frame[p]
<1>1. TypeOK
  BY DEF OwnInv
<1> QED
  BY <1>1, OtherPages, FrameKept

\* A page that is neither tracked nor requested keeps its frame.
LEMMA FreeKeepsFrame ==
  ASSUME OwnInv, MapInv, NEW w \in Workers, WorkerNext(w), NEW p \in Pages,
         p \notin Holding["tracked"], p \notin Holding["request"]
  PROVE  frame'[p] = frame[p]
<1>1. TypeOK
  BY DEF OwnInv
<1> QED
  BY <1>1, WorkerPages, FrameKept

\* The candidate of the migration loop stays in its tier until it is submitted.
LEMMA CandidateTierStep ==
  ASSUME OwnInv, MapInv, [Next]_vars
  PROVE  CandidateTier'
<1>0. /\ TypeOK /\ PolicyOK /\ Accounted /\ CandidateTier /\ ListTiers /\ SubmittedOutside
      /\ ScoresKnown /\ ScoresTracked /\ ListsOK /\ HandOffInv
  BY DEF OwnInv, MapInv, TypeOK
<1>1. CASE UNCHANGED <<step, scores, promote_idx, np, frame>>
  BY <1>0, <1>1 DEF CandidateTier, in_dram
<1>2. CASE PolicyNext
  <2>1. UNCHANGED frame
    BY <1>2, PolicyFrames
  <2>2. CASE step' \notin {"promote", "demote"}
    BY <2>2 DEF CandidateTier
  <2>3. CASE Choose
    <3>1. PICK k \in promote_idx .. demote_idx - 1 :
             /\ ~in_dram(scores[k + 1])
             /\ step' \in {"promote", "demote"} => promote_idx' = k
             /\ step' = "promote" => dram_free_list # <<>> /\ np' = Head(dram_free_list)
      BY <2>3 DEF Choose
    <3>2. step' = "promote" => np' \in Range(dram_free_list)
      BY <1>0, <3>1, TailFacts DEF ListsOK, Range
    <3>3. UNCHANGED scores
      BY <2>3 DEF Choose
    <3> QED
      BY <1>0, <2>1, <3>1, <3>2, <3>3 DEF CandidateTier, ListTiers, in_dram
  <2> QED
    BY <1>1, <1>2, <2>1, <2>2, <2>3 DEF PolicyNext, WakeUp, Drain, Score, Collect,
       BeginMigrations, StopMigrations, GiveBack, SubmitPromotion, GiveUpDemotion,
       SubmitExchange, PostSubmission, LeaveLoop, policyVars
<1>3. ASSUME NEW w \in Workers, WorkerNext(w) PROVE CandidateTier'
  <2>1. UNCHANGED <<step, scores, promote_idx, np>>
    BY <1>3, WorkerLeaves
  <2>2. ASSUME step \in {"promote", "demote"} PROVE frame'[scores[promote_idx + 1]] = frame[scores[promote_idx + 1]]
    <3>1. /\ scores \in Seq(Pages) /\ promote_idx + 1 \in DOMAIN scores /\ promote_idx \in Nat
          /\ demote_idx \in Int /\ promote_idx < demote_idx
      BY <1>0, <2>2 DEF PolicyOK
    <3>2. PICK c : c = scores[promote_idx + 1]
      OBVIOUS
    <3>3. c \in Pages /\ c \in Holding["tracked"]
      BY <1>0, <2>2, <3>1, <3>2 DEF ScoresTracked, Range
    <3>4. \A i, j \in DOMAIN scores : scores[i] = scores[j] => i = j
      BY <1>0, <2>2 DEF ScoresKnown, NoRepeats
    <3>5. \A r \in Outstanding : r.nvm_page # c /\ (r.dram_page # None => r.dram_page # c)
      <4>1. SUFFICES ASSUME NEW r \in Outstanding
                     PROVE  r.nvm_page # c /\ (r.dram_page # None => r.dram_page # c)
        OBVIOUS
      <4>2. PICK i \in 1 .. promote_idx : i \in DOMAIN scores /\ r.nvm_page = scores[i]
        BY <1>0, <2>2 DEF SubmittedOutside
      <4>3. r.nvm_page # c
        BY <3>1, <3>2, <3>4, <4>2
      <4>4. ASSUME r.dram_page # None PROVE r.dram_page # c
        <5>1. PICK j \in DOMAIN scores : demote_idx + 2 <= j /\ r.dram_page = scores[j]
          BY <1>0, <2>2, <4>4 DEF SubmittedOutside
        <5>2. j # promote_idx + 1
          BY <3>1, <5>1
        <5> QED
          BY <3>1, <3>2, <3>4, <5>1, <5>2
      <4> QED
        BY <4>3, <4>4
    <3>6. c \notin Holding["request"]
      BY <1>0, <3>3, NotWith DEF Kinds
    <3>7. wstep[w] # "idle" => c # Moving(w) /\ c # worker_req[w].free_page
      <4>1. wstep[w] # "idle" => c # worker_req[w].free_page
        BY <3>6, WorkerPages
      <4>2. wstep[w] # "idle" => Moving(w) # None /\ worker_req[w] \in Outstanding
        BY WorkerPages, NoneAssumption
      <4> QED
        BY <3>5, <4>1, <4>2 DEF Moving
    <3> QED
      BY <1>0, <1>3, <3>2, <3>3, <3>7, FrameKept
  <2>3. ASSUME step = "promote" PROVE frame'[np] = frame[np]
    <3>1. np \in Pages /\ np # None
      BY <1>0, <2>3, NoneAssumption DEF PolicyOK
    <3>2. np \in Holding["policy"]
      BY <3>1, HoldingOf
    <3>3. np \notin Holding["tracked"] /\ np \notin Holding["request"]
      BY <1>0, <3>1, <3>2, NotWith DEF Kinds
    <3> QED
      BY <1>3, <3>1, <3>3, FreeKeepsFrame
  <2> QED
    BY <1>0, <2>1, <2>2, <2>3 DEF CandidateTier, in_dram
<1> QED
  BY <1>1, <1>2, <1>3, ThreadsLeave, StepOf
\* A list keeps its tier when it loses its head or gets a page of that tier.
LEMMA ListsKeepTiers ==
  ASSUME TypeOK, Once, ListTiers,
         \A p \in Range(dram_free_list) \cup Range(nvm_free_list) : frame'[p] = frame[p],
         \/ UNCHANGED dram_free_list
         \/ dram_free_list # <<>> /\ dram_free_list' = Tail(dram_free_list)
         \/ \E p : dram_free_list' = Append(dram_free_list, p) /\ frame'[p][1],
         \/ UNCHANGED nvm_free_list
         \/ nvm_free_list # <<>> /\ nvm_free_list' = Tail(nvm_free_list)
         \/ \E p : nvm_free_list' = Append(nvm_free_list, p) /\ ~frame'[p][1]
  PROVE  ListTiers'
<1>0. /\ dram_free_list \in Seq(Pages) /\ nvm_free_list \in Seq(Pages)
      /\ NoRepeats(dram_free_list) /\ NoRepeats(nvm_free_list)
  BY DEF TypeOK, ListsOK, Once
<1>1. \A p \in Range(dram_free_list') : frame'[p][1]
  <2>1. CASE UNCHANGED dram_free_list
    BY <2>1 DEF ListTiers, in_dram
  <2>2. CASE dram_free_list # <<>> /\ dram_free_list' = Tail(dram_free_list)
    <3>1. Range(dram_free_list') \subseteq Range(dram_free_list)
      BY <1>0, <2>2, TailRange
    <3> QED
      BY <3>1 DEF ListTiers, in_dram
  <2>3. CASE \E p : dram_free_list' = Append(dram_free_list, p) /\ frame'[p][1]
    <3>1. PICK p : dram_free_list' = Append(dram_free_list, p) /\ frame'[p][1]
      BY <2>3
    <3>2. Range(dram_free_list') = Range(dram_free_list) \cup {p}
      BY <1>0, <3>1, AppendRange
    <3> QED
      BY <3>1, <3>2 DEF ListTiers, in_dram
  <2> QED
    BY <2>1, <2>2, <2>3
<1>2. \A p \in Range(nvm_free_list') : ~frame'[p][1]
  <2>1. CASE UNCHANGED nvm_free_list
    BY <2>1 DEF ListTiers, in_dram
  <2>2. CASE nvm_free_list # <<>> /\ nvm_free_list' = Tail(nvm_free_list)
    <3>1. Range(nvm_free_list') \subseteq Range(nvm_free_list)
      BY <1>0, <2>2, TailRange
    <3> QED
      BY <3>1 DEF ListTiers, in_dram
  <2>3. CASE \E p : nvm_free_list' = Append(nvm_free_list, p) /\ ~frame'[p][1]
    <3>1. PICK p : nvm_free_list' = Append(nvm_free_list, p) /\ ~frame'[p][1]
      BY <2>3
    <3>2. Range(nvm_free_list') = Range(nvm_free_list) \cup {p}
      BY <1>0, <3>1, AppendRange
    <3> QED
      BY <3>1, <3>2 DEF ListTiers, in_dram
  <2> QED
    BY <2>1, <2>2, <2>3
<1> QED
  BY <1>1, <1>2 DEF ListTiers, in_dram

\* Every step keeps the lists in their tiers.
LEMMA ListTiersStep ==
  ASSUME OwnInv, MapInv, [Next]_vars
  PROVE  ListTiers'
<1>0. /\ TypeOK /\ Accounted /\ Once /\ ListTiers /\ CandidateTier /\ WorkerTiers /\ ListsOK
      /\ FramesSaved
  BY DEF OwnInv, MapInv, TypeOK
<1>1. CASE ThreadStep
  <2>1. UNCHANGED frame
    BY <1>1, ThreadsLeave
  <2>2. /\ \/ UNCHANGED dram_free_list
           \/ dram_free_list # <<>> /\ dram_free_list' = Tail(dram_free_list)
        /\ \/ UNCHANGED nvm_free_list
           \/ nvm_free_list # <<>> /\ nvm_free_list' = Tail(nvm_free_list)
    BY <1>1 DEF ThreadStep, AppNext, MissingFault, Mmap, Munmap, AllocateNext, AllocateDram,
       AllocateNvm, MapFrame, TrackPage, ReportAdd, ReleaseNext, ReportRemoval, ClearPresent,
       Unmap, AssertFails, vars, freeLists
  <2> QED
    BY <1>0, <2>1, <2>2, ListsKeepTiers
<1>2. CASE PolicyNext
  <2>1. UNCHANGED frame
    BY <1>2, PolicyFrames
  <2>2. CASE UNCHANGED freeLists
    BY <1>0, <2>1, <2>2, ListsKeepTiers DEF freeLists
  <2>3. CASE Drain
    <3>1. PICK p : p = Head(mod_page_dq).page
      OBVIOUS
    <3>2. /\ \/ UNCHANGED dram_free_list
             \/ dram_free_list' = Append(dram_free_list, p) /\ in_dram(p)
          /\ \/ UNCHANGED nvm_free_list
             \/ nvm_free_list' = Append(nvm_free_list, p) /\ ~in_dram(p)
      BY <2>3, <3>1 DEF Drain, freeLists
    <3> QED
      BY <1>0, <2>1, <3>2, ListsKeepTiers DEF in_dram
  <2>4. CASE Choose
    BY <1>0, <2>1, <2>4, ListsKeepTiers DEF Choose
  <2>5. CASE GiveBack
    BY <1>0, <2>1, <2>5, ListsKeepTiers DEF GiveBack, CandidateTier, in_dram
  <2>6. CASE SubmitExchange
    BY <1>0, <2>1, <2>6, ListsKeepTiers DEF SubmitExchange
  <2> QED
    BY <1>2, <2>2, <2>3, <2>4, <2>5, <2>6 DEF PolicyNext, WakeUp, Score, Collect, BeginMigrations,
       StopMigrations, SubmitPromotion, GiveUpDemotion, PostSubmission
<1>3. ASSUME NEW w \in Workers, WorkerNext(w) PROVE ListTiers'
  <2>1. ASSUME NEW p \in Range(dram_free_list) \cup Range(nvm_free_list) PROVE frame'[p] = frame[p]
    <3>1. p \in Pages
      BY <1>0 DEF ListsOK, Range
    <3>2. p \in Holding["dram"] \/ p \in Holding["nvm"]
      BY HoldingOf
    <3>3. p \notin Holding["tracked"] /\ p \notin Holding["request"]
      BY <1>0, <3>1, <3>2, NotWith DEF Kinds
    <3> QED
      BY <1>3, <3>1, <3>3, FreeKeepsFrame
  <2>2. CASE UNCHANGED freeLists
    BY <1>0, <2>1, <2>2, ListsKeepTiers DEF freeLists
  <2>3. CASE SkipDemotion(w)
    <3>1. ~in_dram(worker_req[w].free_page)
      BY <1>0, <2>3 DEF SkipDemotion, WorkerTiers
    <3> QED
      BY <1>0, <2>1, <2>3, <3>1, ListsKeepTiers DEF SkipDemotion, structVars, in_dram
  <2>4. CASE SkipPromotion(w)
    <3>1. in_dram(worker_req[w].free_page)
      BY <1>0, <2>4 DEF SkipPromotion, WorkerTiers
    <3> QED
      BY <1>0, <2>1, <2>4, <3>1, ListsKeepTiers DEF SkipPromotion, structVars, in_dram
  <2>5. CASE ResetAfterPromotion(w)
    <3>1. ~old_frame[w][1]
      BY <1>0, <2>5 DEF ResetAfterPromotion, WorkerTiers
    <3>2. worker_req[w].free_page \in Pages
      BY <2>5, WorkerPages DEF ResetAfterPromotion
    <3>3. frame'[worker_req[w].free_page] = old_frame[w]
      BY <1>0, <2>5, <3>2 DEF ResetAfterPromotion, ResetFree, TypeOK, StructsOK
    <3>4. UNCHANGED dram_free_list /\ nvm_free_list' = Append(nvm_free_list, worker_req[w].free_page)
      BY <2>5 DEF ResetAfterPromotion
    <3> QED
      BY <1>0, <2>1, <3>1, <3>3, <3>4, ListsKeepTiers
  <2> QED
    BY <1>3, <2>2, <2>3, <2>4, <2>5 DEF WorkerNext, WakeWorker, TakeRequest, DemoteStart,
       PromoteStart, LockForMigration, Remap, Commit, ResetAfterDemotion
<1> QED
  BY <1>1, <1>2, <1>3, StepOf

\* Every step keeps the tiers of the requests still in the list.
LEMMA RequestTiersStep ==
  ASSUME OwnInv, MapInv, [Next]_vars
  PROVE  RequestTiers'
<1>0. /\ TypeOK /\ HandOffInv /\ ListTiers /\ CandidateTier /\ RequestTiers /\ ListsOK
  BY DEF OwnInv, MapInv, TypeOK
<1>1. CASE UNCHANGED <<migration_queue, frame>>
  BY <1>0, <1>1 DEF RequestTiers, MQ!Queued, in_dram
<1>2. CASE PolicyNext
  <2>1. UNCHANGED frame
    BY <1>2, PolicyFrames
  <2>2. ASSUME NEW r \in Reqs, MQ!Queued' = MQ!Queued \cup {r},
               ~in_dram(r.nvm_page), r.need_demotion => in_dram(r.dram_page) /\ ~in_dram(r.free_page),
               ~r.need_demotion => in_dram(r.free_page)
        PROVE  RequestTiers'
    BY <1>0, <2>1, <2>2 DEF RequestTiers, in_dram
  <2>3. ASSUME NEW r \in Reqs, MQ!Enqueue(r) PROVE MQ!Queued' = MQ!Queued \cup {r}
    <3>1. MQP!Enqueue(r) /\ MQP!TypeOK
      BY <1>0, <2>3, SameTypes DEF MQ!Enqueue, MQP!Enqueue, MQ!workerVars, MQP!workerVars, HandOffInv,
                   MQ!Queued, MQP!Queued, MQ!Held, MQP!Held, MQ!Busy, MQP!Busy
    <3> QED
      BY <3>1, HandOffAssumptions, MQP!EnqueueSets, SameSets
  <2>4. CASE SubmitPromotion
    <3>1. PICK r : r = [dram_page |-> None, nvm_page |-> scores[promote_idx + 1],
                        free_page |-> np, need_demotion |-> FALSE]
      OBVIOUS
    <3>2. r \in Reqs /\ MQ!Enqueue(r) /\ step = "promote"
      BY <1>0, <2>4, <3>1, ScoresIndex DEF SubmitPromotion
    <3>3. r.nvm_page = scores[promote_idx + 1] /\ r.free_page = np /\ r.need_demotion = FALSE
      BY <3>1
    <3> QED
      BY <1>0, <2>2, <2>3, <3>2, <3>3 DEF CandidateTier
  <2>5. CASE SubmitExchange
    <3>1. PICK k \in promote_idx + 1 .. demote_idx, r \in Reqs :
            /\ r = [dram_page |-> scores[k + 1], nvm_page |-> scores[promote_idx + 1],
                    free_page |-> Head(nvm_free_list), need_demotion |-> TRUE]
            /\ in_dram(scores[k + 1]) /\ MQ!Enqueue(r)
      BY <1>0, <2>5, ExchangeRequest
    <3>2. /\ r.nvm_page = scores[promote_idx + 1] /\ r.free_page = Head(nvm_free_list)
          /\ r.dram_page = scores[k + 1] /\ r.need_demotion = TRUE
      BY <3>1
    <3>3. step = "demote" /\ Head(nvm_free_list) \in Range(nvm_free_list)
      BY <1>0, <2>5, TailFacts DEF SubmitExchange, ListsOK, Range
    <3> QED
      BY <1>0, <2>2, <2>3, <3>1, <3>2, <3>3 DEF CandidateTier, ListTiers
  <2> QED
    BY <1>1, <1>2, <2>1, <2>4, <2>5 DEF PolicyNext, WakeUp, Drain, Score, Collect, BeginMigrations,
       StopMigrations, Choose, GiveBack, GiveUpDemotion, PostSubmission, LeaveLoop, mqVars,
       MQ!StartInterval, MQ!CollectCompletion, MQ!StartLoop, MQ!EndLoop, MQ!Post, MQ!workerVars
<1>3. ASSUME NEW w \in Workers, WorkerNext(w) PROVE RequestTiers'
  <2>1. MQ!Queued' \subseteq MQ!Queued
    <3>1. CASE TakeRequest(w)
      <4>1. MQP!Dequeue(w) /\ MQP!IInv
        BY <1>0, <3>1, SameInvariant DEF TakeRequest, MQ!Dequeue, MQP!Dequeue, MQ!policyVars,
           MQP!policyVars, HandOffInv
      <4> QED
        BY <4>1, HandOffAssumptions, MQP!DequeueSets, SameSets
    <3>2. CASE ~TakeRequest(w)
      <4>1. UNCHANGED migration_queue
        BY <1>3, <3>2 DEF WorkerNext, WakeWorker, DemoteStart, SkipDemotion, PromoteStart,
           SkipPromotion, Remap, Commit, ResetAfterDemotion, ResetAfterPromotion, LockForMigration,
           FinishRequest, mqVars, MQ!Wake, MQ!FindEmpty, MQ!Complete
      <4> QED
        BY <4>1 DEF MQ!Queued
    <3> QED
      BY <3>1, <3>2
  <2>2. ASSUME NEW r \in MQ!Queued
        PROVE  /\ frame'[r.nvm_page] = frame[r.nvm_page] /\ frame'[r.free_page] = frame[r.free_page]
               /\ r.need_demotion => frame'[r.dram_page] = frame[r.dram_page]
    <3>1. r \in Outstanding /\ r \in Reqs
      BY <1>0, OutstandingReqs DEF Outstanding
    <3>2. wstep[w] # "idle" => r # worker_req[w]
      <4>1. wstep[w] # "idle" => worker_req[w] \in MQ!Held
        BY <1>0 DEF TypeOK, WorkersOK, MQ!Held, MQ!Busy
      <4> QED
        BY <1>0, <4>1 DEF HandOffInv, MQ!RequestsDistinct
    <3>3. /\ r.nvm_page \in Pages /\ r.free_page \in Pages
          /\ r.need_demotion => r.dram_page \in Pages
      BY <1>0, <3>1 DEF Reqs, OwnInv, RequestsApart
    <3>4. /\ r.nvm_page \in Involved(r) /\ r.free_page \in Involved(r)
          /\ r.need_demotion => r.dram_page \in Involved(r)
      BY <3>3, NoneAssumption DEF Involved
    <3> QED
      BY <1>3, <3>1, <3>2, <3>3, <3>4, OthersKeepFrames
  <2> QED
    BY <1>0, <2>1, <2>2 DEF RequestTiers, in_dram
<1> QED
  BY <1>1, <1>2, <1>3, ThreadsLeave, StepOf
\* What WorkerTiers says of one worker.
TiersOf(w) == LET r == worker_req[w] IN
    /\ wstep[w] \in {"demote", "map_down", "commit_down"} =>
          in_dram(r.dram_page) /\ ~in_dram(r.free_page) /\ ~in_dram(r.nvm_page)
    /\ wstep[w] = "reset_down" => old_frame[w][1] /\ ~in_dram(r.nvm_page)
    /\ wstep[w] \in {"promote", "map_up", "commit_up"} =>
          in_dram(r.free_page) /\ ~in_dram(r.nvm_page)
    /\ wstep[w] = "reset_up" => ~old_frame[w][1]

\* Every step of a worker keeps the tiers of its own request ...
LEMMA OwnTiersStep ==
  ASSUME OwnInv, MapInv, NEW w \in Workers, WorkerNext(w)
  PROVE  TiersOf(w)'
<1>0. /\ TypeOK /\ HandOffInv /\ RequestTiers /\ TiersOf(w) /\ FramesSaved /\ RequestsApart
      /\ wstep \in [Workers -> {"idle", "demote", "map_down", "commit_down", "reset_down",
                                "promote", "map_up", "commit_up", "reset_up"}]
      /\ old_frame \in [Workers -> Frames \cup {None}]
      /\ frame \in [Pages -> Frames]
  BY DEF OwnInv, MapInv, WorkerTiers, TiersOf, TypeOK, WorkersOK, StructsOK
<1>1. ASSUME wstep[w] # "idle"
      PROVE  /\ worker_req[w].nvm_page \in Pages /\ worker_req[w].free_page \in Pages
             /\ worker_req[w].nvm_page # worker_req[w].free_page
             /\ worker_req[w].nvm_page # worker_req[w].dram_page
             /\ worker_req[w].dram_page # worker_req[w].free_page
  BY <1>0, <1>1, WorkerPages DEF RequestsApart
<1>2. CASE WakeWorker(w)
  <2>1. wstep'[w] = "idle"
    BY <1>0, <1>2 DEF WakeWorker, workVars, TypeOK, WorkersOK, MQ!Wake, MQ!FindEmpty
  <2> QED
    BY <2>1 DEF TiersOf
<1>3. CASE TakeRequest(w)
  <2>1. PICK r : r = Head(migration_queue)
    OBVIOUS
  <2>2. /\ worker_req'[w] = r /\ r \in MQ!Queued /\ UNCHANGED frame
        /\ wstep'[w] = IF r.need_demotion THEN "demote" ELSE "promote"
    <3>1. MQP!Dequeue(w) /\ MQP!IInv
      BY <1>0, <1>3, SameInvariant DEF TakeRequest, MQ!Dequeue, MQP!Dequeue, MQ!policyVars,
         MQP!policyVars, HandOffInv
    <3>2. r \in MQ!Queued
      BY <2>1, <3>1, HandOffAssumptions, MQP!DequeueSets, SameSets
    <3> QED
      BY <1>0, <1>3, <2>1, <3>2, OutstandingDequeue DEF TakeRequest, structVars
  <2> QED
    BY <1>0, <2>2 DEF RequestTiers, TiersOf, in_dram
<1>4. CASE DemoteStart(w) \/ PromoteStart(w) \/ Remap(w)
  <2>1. UNCHANGED <<frame, worker_req>>
    BY <1>4 DEF DemoteStart, PromoteStart, Remap, LockForMigration, structVars, mqVars
  <2>2. \/ wstep[w] = "demote" /\ wstep'[w] = "map_down"
        \/ wstep[w] = "promote" /\ wstep'[w] = "map_up"
        \/ wstep[w] = "map_down" /\ wstep'[w] = "commit_down"
        \/ wstep[w] = "map_up" /\ wstep'[w] = "commit_up"
    BY <1>0, <1>4 DEF DemoteStart, PromoteStart, Remap, LockForMigration
  <2> QED
    BY <1>0, <2>1, <2>2 DEF TiersOf, in_dram
<1>5. CASE Commit(w)
  <2>1. /\ UNCHANGED <<worker_req, old_frame>> /\ wstep[w] # "idle"
        /\ frame' = [frame EXCEPT ![Moving(w)] = new_frame[w]]
        /\ \/ wstep[w] = "commit_down" /\ wstep'[w] = "reset_down"
           \/ wstep[w] = "commit_up" /\ wstep'[w] = "reset_up"
    BY <1>0, <1>5 DEF Commit, mqVars
  <2>2. frame[Moving(w)] = old_frame[w]
    BY <1>0, <2>1 DEF FramesSaved
  <2>3. CASE wstep[w] = "commit_down" /\ wstep'[w] = "reset_down"
    <3>1. Moving(w) = worker_req[w].dram_page
      BY <2>3 DEF Moving
    <3>2. frame'[worker_req[w].nvm_page] = frame[worker_req[w].nvm_page]
      BY <1>0, <1>1, <2>1, <3>1
    <3> QED
      BY <1>0, <2>1, <2>2, <2>3, <3>1, <3>2 DEF TiersOf, in_dram
  <2>4. CASE wstep[w] = "commit_up" /\ wstep'[w] = "reset_up"
    <3>1. Moving(w) = worker_req[w].nvm_page
      BY <2>4 DEF Moving
    <3> QED
      BY <1>0, <2>1, <2>2, <2>4, <3>1 DEF TiersOf, in_dram
  <2> QED
    BY <2>1, <2>3, <2>4
<1>6. CASE ResetAfterDemotion(w)
  <2>1. /\ UNCHANGED <<worker_req, old_frame>> /\ wstep[w] = "reset_down" /\ wstep'[w] = "promote"
        /\ frame' = [frame EXCEPT ![worker_req[w].free_page] = old_frame[w]]
    BY <1>0, <1>6 DEF ResetAfterDemotion, ResetFree, mqVars
  <2>2. /\ frame'[worker_req[w].free_page] = old_frame[w]
        /\ frame'[worker_req[w].nvm_page] = frame[worker_req[w].nvm_page]
    BY <1>0, <1>1, <2>1
  <2> QED
    BY <1>0, <2>1, <2>2 DEF TiersOf, in_dram
<1>7. CASE SkipDemotion(w) \/ SkipPromotion(w) \/ ResetAfterPromotion(w)
  <2>1. wstep'[w] = "idle"
    BY <1>0, <1>7 DEF SkipDemotion, SkipPromotion, ResetAfterPromotion, FinishRequest
  <2> QED
    BY <2>1 DEF TiersOf
<1> QED
  BY <1>2, <1>3, <1>4, <1>5, <1>6, <1>7 DEF WorkerNext

\* ... and of the requests of the others.
LEMMA WorkerTiersStep ==
  ASSUME OwnInv, MapInv, [Next]_vars
  PROVE  WorkerTiers'
<1>0. TypeOK /\ HandOffInv /\ WorkerTiers /\ RequestsApart
  BY DEF OwnInv, MapInv
<1>1. CASE UNCHANGED <<frame, worker_req, wstep, old_frame>>
  BY <1>0, <1>1 DEF WorkerTiers, in_dram
<1>2. ASSUME NEW w \in Workers, WorkerNext(w) PROVE WorkerTiers'
  <2>1. ASSUME NEW u \in Workers \ {w} PROVE TiersOf(u)'
    <3>1. UNCHANGED <<wstep[u], worker_req[u], old_frame[u]>>
      BY <1>0, <1>2, OtherWorkers
    <3>2. CASE wstep[u] = "idle"
      BY <3>1, <3>2 DEF TiersOf
    <3>3. CASE wstep[u] # "idle"
      <4>1. PICK r : r = worker_req[u]
        OBVIOUS
      <4>2. /\ r \in Outstanding /\ r.nvm_page \in Pages /\ r.free_page \in Pages
            /\ r.dram_page # None => r.dram_page \in Pages
        BY <3>3, <4>1, WorkerPages
      <4>3. wstep[w] # "idle" => r # worker_req[w]
        BY <1>0, <3>3, <4>1, OutstandingReqs DEF TypeOK, WorkersOK
      <4>4. r.nvm_page \in Involved(r) /\ r.free_page \in Involved(r)
            /\ (r.dram_page # None => r.dram_page \in Involved(r))
        BY <4>2, NoneAssumption DEF Involved
      <4>5. /\ frame'[r.nvm_page] = frame[r.nvm_page] /\ frame'[r.free_page] = frame[r.free_page]
            /\ r.dram_page # None => frame'[r.dram_page] = frame[r.dram_page]
        BY <1>2, <4>2, <4>3, <4>4, OthersKeepFrames
      <4>6. wstep[u] \in {"demote", "map_down", "commit_down"} => r.dram_page # None
        BY <1>0, <4>1, NoneAssumption DEF TypeOK, WorkersOK
      <4> QED
        BY <1>0, <3>1, <4>1, <4>5, <4>6 DEF WorkerTiers, TiersOf, in_dram
    <3> QED
      BY <3>2, <3>3
  <2> QED
    BY <1>2, <2>1, OwnTiersStep DEF WorkerTiers, TiersOf
<1> QED
  BY <1>1, <1>2, ThreadsLeave, PolicyFrames, StepOf

\* A worker keeps page_lock of the page it moves until it commits.
LEMMA LocksHeldStep ==
  ASSUME OwnInv, MapInv, [Next]_vars
  PROVE  LocksHeld'
<1>0. /\ TypeOK /\ HandOffInv /\ RequestsApart /\ LocksHeld /\ Accounted
      /\ page_lock \in [Pages -> Workers \cup {None}]
      /\ wstep \in [Workers -> {"idle", "demote", "map_down", "commit_down", "reset_down",
                                "promote", "map_up", "commit_up", "reset_up"}]
  BY DEF OwnInv, MapInv, TypeOK, StructsOK, WorkersOK
<1>1. \A w \in Workers : Committing(w) => /\ wstep[w] # "idle" /\ Moving(w) \in Pages
                                          /\ Moving(w) \in Holding["tracked"]
  BY WorkerPages DEF Committing
<1>2. CASE UNCHANGED <<page_lock, wstep, worker_req>>
  BY <1>0, <1>2 DEF LocksHeld, Committing, Moving
<1>3. ASSUME NEW t \in Threads, TrackPage(t) PROVE LocksHeld'
  <2>1. PICK p : p = thread[t].page
    OBVIOUS
  <2>2. /\ p \in Pages /\ p \in Holding["allocating"]
        /\ page_lock' = page_lock \/ page_lock' = [page_lock EXCEPT ![p] = None]
        /\ UNCHANGED <<wstep, worker_req>>
    BY <1>0, <1>3, <2>1, HoldingOf DEF TrackPage, TypeOK, ThreadsOK, PagesInside, Inside, Allocating,
       workVars, mqVars
  <2>3. p \notin Holding["tracked"]
    BY <1>0, <2>2, NotWith DEF Kinds
  <2>4. \A w \in Workers : Committing(w) => page_lock'[Moving(w)] = page_lock[Moving(w)]
    BY <1>0, <1>1, <2>2, <2>3
  <2> QED
    BY <1>0, <2>2, <2>4 DEF LocksHeld, Committing, Moving
<1>4. CASE ThreadStep
  <2>1. UNCHANGED <<wstep, worker_req>>
    BY <1>4, ThreadsLeave
  <2>2. UNCHANGED page_lock \/ \E t \in Threads : TrackPage(t)
    BY <1>4 DEF ThreadStep, AppNext, MissingFault, Mmap, Munmap, AllocateNext, AllocateDram,
       AllocateNvm, MapFrame, ReportAdd, ReleaseNext, ReportRemoval, ClearPresent, Unmap,
       AssertFails, vars, structVars
  <2> QED
    BY <1>2, <1>3, <2>1, <2>2
<1>5. CASE PolicyNext
  <2>1. UNCHANGED page_lock
    BY <1>5 DEF PolicyNext, WakeUp, Drain, Score, Collect, BeginMigrations, StopMigrations,
       Choose, GiveBack, SubmitPromotion, GiveUpDemotion, SubmitExchange, PostSubmission, structVars
  <2> QED
    BY <1>2, <1>5, <2>1, PolicyFrames
<1>6. ASSUME NEW w \in Workers, WorkerNext(w) PROVE LocksHeld'
  <2>1. ASSUME NEW u \in Workers \ {w}, Committing(u)'
        PROVE  page_lock'[Moving(u)'] = u
    <3>1. Committing(u) /\ Moving(u)' = Moving(u) /\ wstep[u] # "idle"
      <4>1. UNCHANGED <<wstep[u], worker_req[u]>>
        BY <1>0, <1>6, OtherWorkers
      <4> QED
        BY <2>1, <4>1 DEF Committing, Moving
    <3>2. page_lock[Moving(u)] = u /\ Moving(u) \in Pages /\ u # None
      BY <1>0, <1>1, <3>1, NoneAssumption DEF LocksHeld
    <3>3. page_lock'[Moving(u)] = page_lock[Moving(u)]
      <4>1. CASE UNCHANGED page_lock
        BY <4>1
      <4>2. CASE DemoteStart(w) \/ PromoteStart(w)
        <5>1. \E p : page_lock[p] = None /\ page_lock' = [page_lock EXCEPT ![p] = w]
          BY <4>2 DEF DemoteStart, PromoteStart, LockForMigration
        <5> QED
          BY <1>0, <3>2, <5>1
      <4>3. CASE Commit(w)
        <5>1. wstep[w] # "idle" /\ page_lock' = [page_lock EXCEPT ![Moving(w)] = None]
          BY <4>3 DEF Commit
        <5>2. Moving(u) # Moving(w)
          BY <1>0, <3>1, <5>1, WorkersApart
        <5> QED
          BY <1>0, <3>2, <5>1, <5>2
      <4> QED
        BY <1>6, <4>1, <4>2, <4>3 DEF WorkerNext, WakeWorker, TakeRequest, SkipDemotion, SkipPromotion,
           Remap, ResetAfterDemotion, ResetAfterPromotion, structVars
    <3> QED
      BY <3>1, <3>2, <3>3
  <2>2. ASSUME Committing(w)' PROVE page_lock'[Moving(w)'] = w
    <3>1. CASE DemoteStart(w)
      <4>1. /\ wstep'[w] = "map_down" /\ UNCHANGED worker_req /\ wstep[w] = "demote"
            /\ page_lock' = [page_lock EXCEPT ![worker_req[w].dram_page] = w]
        BY <1>0, <3>1 DEF DemoteStart, LockForMigration, mqVars
      <4>2. worker_req[w].dram_page \in Pages /\ Moving(w)' = worker_req[w].dram_page
        BY <1>0, <4>1 DEF TypeOK, WorkersOK, Moving
      <4> QED
        BY <1>0, <4>1, <4>2
    <3>2. CASE PromoteStart(w)
      <4>1. /\ wstep'[w] = "map_up" /\ UNCHANGED worker_req /\ wstep[w] = "promote"
            /\ page_lock' = [page_lock EXCEPT ![worker_req[w].nvm_page] = w]
        BY <1>0, <3>2 DEF PromoteStart, LockForMigration, mqVars
      <4>2. worker_req[w].nvm_page \in Pages /\ Moving(w)' = worker_req[w].nvm_page
        BY <4>1, WorkerPages DEF Moving
      <4> QED
        BY <1>0, <4>1, <4>2
    <3>3. CASE Remap(w)
      <4>1. /\ \/ wstep[w] = "map_down" /\ wstep'[w] = "commit_down"
               \/ wstep[w] = "map_up" /\ wstep'[w] = "commit_up"
            /\ UNCHANGED <<worker_req, page_lock>>
        BY <1>0, <3>3 DEF Remap, mqVars, structVars
      <4> QED
        BY <1>0, <4>1 DEF LocksHeld, Committing, Moving
    <3>4. CASE UNCHANGED wstep
      <4>1. Committing(w) /\ WakeWorker(w)
        BY <1>0, <1>6, <2>2, <3>4 DEF Committing, WorkerNext, TakeRequest, DemoteStart, PromoteStart,
           LockForMigration, SkipDemotion, SkipPromotion, Remap, Commit, ResetAfterDemotion,
           ResetAfterPromotion, FinishRequest
      <4> QED
        BY <1>0, <4>1 DEF WakeWorker, MQ!Wake, MQ!FindEmpty, TypeOK, WorkersOK, Committing
    <3>5. CASE wstep'[w] \in {"idle", "demote", "promote", "reset_down", "reset_up"}
      BY <2>2, <3>5 DEF Committing
    <3> QED
      BY <1>0, <1>6, <3>1, <3>2, <3>3, <3>4, <3>5 DEF WorkerNext, WakeWorker, workVars, TakeRequest,
         SkipDemotion, SkipPromotion, Commit, ResetAfterDemotion, ResetAfterPromotion, FinishRequest
  <2> QED
    BY <2>1, <2>2 DEF LocksHeld
<1> QED
  BY <1>4, <1>5, <1>6, StepOf
------------------------------------------------------------------------------
(* The kernel's page table.                                                *)

\* What TablesAgree says of an address and its page.
Agrees(v, p) ==
    \/ /\ page_table[v] = frame[p]
       /\ \A w \in Workers : Remapped(w) => Moving(w) # p
    \/ \E w \in Workers : Remapped(w) /\ Moving(w) = p /\ page_table[v] = new_frame[w]

\* Which page an address maps, with one thread set apart from the others.
OthersAt(t, u, q) == \E s \in Threads \ {t} :
    thread[s].v = u /\ thread[s].page = q /\ thread[s].pc \in MappedAt

LEMMA MapsGoto ==
  ASSUME TypeOK, NEW t \in Threads, NEW pc, NEW v, NEW p, Goto(t, pc, v, p)
  PROVE  \A u, q :
            /\ Maps(u, q) <=> /\ q # None
                              /\ \/ pages[u] = q
                                 \/ thread[t].v = u /\ thread[t].page = q /\ thread[t].pc \in MappedAt
                                 \/ OthersAt(t, u, q)
            /\ Maps(u, q)' <=> /\ q # None
                               /\ \/ pages'[u] = q
                                  \/ v = u /\ p = q /\ pc \in MappedAt
                                  \/ OthersAt(t, u, q)
<1>1. /\ thread'[t].pc = pc /\ thread'[t].v = v /\ thread'[t].page = p
      /\ \A u \in Threads \ {t} : thread'[u] = thread[u]
  <2>1. /\ thread'[t] = [pc |-> pc, v |-> v, page |-> p]
        /\ \A u \in Threads \ {t} : thread'[u] = thread[u]
    BY AfterGoto
  <2> QED
    BY <2>1
<1> QED
  BY <1>1 DEF Maps, OthersAt

\* A step of a thread that leaves every address mapped as it was.
LEMMA AgreeMapsKept ==
  ASSUME MapInv, \A v \in VAs : \A p \in Pages : Maps(v, p)' <=> Maps(v, p),
         UNCHANGED <<page_table, frame, wstep, worker_req, new_frame>>
  PROVE  TablesAgree'
<1>1. \A w \in Workers : (Remapped(w)' <=> Remapped(w)) /\ Moving(w)' = Moving(w)
  BY DEF Remapped, Moving
<1>2. \A v \in VAs, p \in Pages : Agrees(v, p)' <=> Agrees(v, p)
  BY <1>1 DEF Agrees
<1>3. \A v \in VAs : /\ \A p \in Pages : Maps(v, p) => Agrees(v, p)
                     /\ (\A p \in Pages : ~Maps(v, p)) => page_table[v] = None
  BY DEF MapInv, TablesAgree, Agrees
<1>4. \A v \in VAs : /\ \A p \in Pages : Maps(v, p)' => Agrees(v, p)'
                     /\ (\A p \in Pages : ~Maps(v, p)') => page_table'[v] = None
  BY <1>2, <1>3
<1> QED
  BY <1>4 DEF TablesAgree, Agrees

\* Allocation and release change the mapping of their own address only.
LEMMA TablesThreadStep ==
  ASSUME OwnInv, MapInv, ThreadStep
  PROVE  TablesAgree'
<1>0. /\ TypeOK /\ ThreadsOK /\ TablesOK /\ KernelOK /\ Untracked /\ ThreadPlaces /\ Accounted
      /\ FaultThread \in Threads /\ Apps \subseteq Threads /\ None \notin VAs /\ TablesAgree
  BY NoneAssumption DEF OwnInv, MapInv, TypeOK, Threads
<1>1. UNCHANGED <<frame, wstep, worker_req, new_frame>>
  BY ThreadsLeave
<1>2. CASE UNCHANGED <<thread, pages, page_table>>
  <2>1. \A v \in VAs : \A p \in Pages : Maps(v, p)' <=> Maps(v, p)
    BY <1>2 DEF Maps
  <2> QED
    BY <1>1, <1>2, <2>1, AgreeMapsKept
<1>3. ASSUME NEW t \in Threads, NEW pc, NEW v, NEW p, Goto(t, pc, v, p),
             thread[t].pc \notin MappedAt, pc \notin MappedAt, UNCHANGED <<pages, page_table>>
      PROVE  TablesAgree'
  <2>1. \A u, q : Maps(u, q)' <=> Maps(u, q)
    BY <1>0, <1>3, MapsGoto
  <2> QED
    BY <1>1, <1>3, <2>1, AgreeMapsKept
<1>4. ASSUME NEW v \in VAs, MissingFault(v) PROVE TablesAgree'
  BY <1>0, <1>3, <1>4 DEF MissingFault, tables, kernelVars, MappedAt
<1>5. ASSUME NEW a \in Apps, NEW v \in VAs, NEW populate \in BOOLEAN, Mmap(a, v, populate)
      PROVE  TablesAgree'
  BY <1>0, <1>2, <1>3, <1>5 DEF Mmap, tables, MappedAt
<1>6. ASSUME NEW t \in Threads, AllocateDram(t) \/ AllocateNvm(t) \/ ReportAdd(t) PROVE TablesAgree'
  <2>1. /\ UNCHANGED <<pages, page_table>> /\ thread[t].pc \notin MappedAt
        /\ \/ UNCHANGED thread
           \/ \E pc, v, p : Goto(t, pc, v, p) /\ pc \notin MappedAt
    BY <1>6 DEF AllocateDram, AllocateNvm, ReportAdd, tables, kernelVars, MappedAt
  <2> QED
    BY <1>2, <1>3, <2>1
<1>7. ASSUME NEW t \in Threads, MapFrame(t) PROVE TablesAgree'
  <2>1. PICK p, v : p = thread[t].page /\ v = thread[t].v
    OBVIOUS
  <2>2. /\ thread[t].pc = "map" /\ p \in Pages /\ v \in VAs /\ pages[v] = None /\ v # None /\ p # None
    BY <1>0, <1>7, <2>1, NoneAssumption DEF MapFrame, ThreadsOK, Untracked
  <2>3. /\ page_table' = [page_table EXCEPT ![v] = frame[p]] /\ Goto(t, "track", v, p)
        /\ UNCHANGED pages
    BY <1>7, <2>1 DEF MapFrame, tables
  <2>4. \A u, q : OthersAt(t, u, q) => u # v
    BY <1>0, <2>1, <2>2 DEF OthersAt, ThreadPlaces
  <2>5. \A u, q : /\ u # v => (Maps(u, q)' <=> Maps(u, q))
                  /\ Maps(v, q)' <=> q = p
    BY <1>0, <2>1, <2>2, <2>3, <2>4, MapsGoto DEF MappedAt
  <2>6. \A w \in Workers : (Remapped(w)' <=> Remapped(w)) /\ Moving(w)' = Moving(w)
    BY <1>1 DEF Remapped, Moving
  <2>7. \A w \in Workers : Remapped(w) => Moving(w) # p
    <3>1. p \in Holding["allocating"]
      BY <2>1, <2>2, HoldingOf DEF PagesInside, Inside, Allocating
    <3>2. p \notin Holding["tracked"]
      BY <1>0, <2>2, <3>1, NotWith DEF Kinds
    <3> QED
      BY <3>2, WorkerPages DEF Remapped
  <2>8. /\ page_table'[v] = frame[p]
        /\ \A u \in VAs \ {v} : page_table'[u] = page_table[u]
    BY <1>0, <2>2, <2>3 DEF KernelOK
  <2>9. Agrees(v, p)'
    BY <1>1, <2>6, <2>7, <2>8 DEF Agrees
  <2>10. \A u \in VAs \ {v} : \A q \in Pages : Agrees(u, q)' <=> Agrees(u, q)
    BY <1>1, <2>6, <2>8 DEF Agrees
  <2>11. \A u \in VAs : /\ \A q \in Pages : Maps(u, q) => Agrees(u, q)
                        /\ (\A q \in Pages : ~Maps(u, q)) => page_table[u] = None
    BY <1>0 DEF TablesAgree, Agrees
  <2>12. ASSUME NEW u \in VAs
         PROVE  /\ \A q \in Pages : Maps(u, q)' => Agrees(u, q)'
                /\ (\A q \in Pages : ~Maps(u, q)') => page_table'[u] = None
    <3>1. CASE u = v
      BY <2>2, <2>5, <2>9, <3>1
    <3>2. CASE u # v
      BY <2>5, <2>8, <2>10, <2>11, <3>2
    <3> QED
      BY <3>1, <3>2
  <2> QED
    BY <2>12 DEF TablesAgree, Agrees
<1>8. ASSUME NEW t \in Threads, TrackPage(t) PROVE TablesAgree'
  <2>1. PICK p, v : p = thread[t].page /\ v = thread[t].v
    OBVIOUS
  <2>2. /\ thread[t].pc = "track" /\ p \in Pages /\ v \in VAs /\ pages[v] = None
        /\ pages' = [pages EXCEPT ![v] = p] /\ Goto(t, "report", v, p) /\ UNCHANGED page_table
    BY <1>0, <1>8, <2>1 DEF TrackPage, ThreadsOK, Untracked, kernelVars
  <2>3. pages'[v] = p /\ \A u \in VAs \ {v} : pages'[u] = pages[u]
    BY <1>0, <2>2 DEF TablesOK
  <2>4. \A u \in VAs : \A q \in Pages : Maps(u, q)' <=> Maps(u, q)
    BY <1>0, <2>1, <2>2, <2>3, MapsGoto DEF MappedAt
  <2> QED
    BY <1>1, <2>2, <2>4, AgreeMapsKept
<1>9. ASSUME NEW a \in Apps, NEW v \in VAs, Munmap(a, v) PROVE TablesAgree'
  <2>1. PICK p : p = pages[v]
    OBVIOUS
  <2>2. /\ thread[a].pc = "idle" /\ pages' = [pages EXCEPT ![v] = None] /\ UNCHANGED page_table
        /\ Goto(a, IF p = None THEN "unmap" ELSE "remove", v, p) /\ a \in Threads
    BY <1>0, <1>9, <2>1 DEF Munmap
  <2>3. pages'[v] = None /\ \A u \in VAs \ {v} : pages'[u] = pages[u]
    BY <1>0, <2>2 DEF TablesOK
  <2>4. (IF p = None THEN "unmap" ELSE "remove") \in MappedAt
    BY DEF MappedAt
  <2>5. \A u \in VAs : \A q \in Pages : Maps(u, q)' <=> Maps(u, q)
    BY <1>0, <2>1, <2>2, <2>3, <2>4, MapsGoto DEF MappedAt
  <2> QED
    BY <1>1, <2>2, <2>5, AgreeMapsKept
<1>10. ASSUME NEW a \in Apps, ReportRemoval(a) \/ ClearPresent(a) PROVE TablesAgree'
  <2>1. PICK p, v : p = thread[a].page /\ v = thread[a].v
    OBVIOUS
  <2>2. /\ thread[a].pc \in MappedAt /\ UNCHANGED <<pages, page_table>> /\ a \in Threads
        /\ \E pc \in MappedAt : Goto(a, pc, v, p)
    BY <1>0, <1>10, <2>1 DEF ReportRemoval, ClearPresent, MappedAt, tables, kernelVars
  <2>3. PICK pc \in MappedAt : Goto(a, pc, v, p)
    BY <2>2
  <2>4. \A u \in VAs : \A q \in Pages : Maps(u, q)' <=> Maps(u, q)
    BY <1>0, <2>1, <2>2, <2>3, MapsGoto
  <2> QED
    BY <1>1, <2>2, <2>4, AgreeMapsKept
<1>11. ASSUME NEW a \in Apps, Unmap(a) PROVE TablesAgree'
  <2>1. PICK p, v : p = thread[a].page /\ v = thread[a].v
    OBVIOUS
  <2>2. /\ thread[a].pc = "unmap" /\ v \in VAs /\ pages[v] = None /\ v # None /\ a \in Threads
    BY <1>0, <1>11, <2>1 DEF Unmap, ThreadsOK, Untracked
  <2>3. /\ page_table' = [page_table EXCEPT ![v] = None] /\ Goto(a, "idle", None, None)
        /\ UNCHANGED pages
    BY <1>11, <2>1 DEF Unmap, tables
  <2>4. \A u, q : OthersAt(a, u, q) => u # v
    BY <1>0, <2>1, <2>2 DEF OthersAt, ThreadPlaces
  <2>5. \A u, q : /\ u # v => (Maps(u, q)' <=> Maps(u, q))
                  /\ ~Maps(v, q)'
    BY <1>0, <2>1, <2>2, <2>3, <2>4, MapsGoto DEF MappedAt
  <2>6. \A w \in Workers : (Remapped(w)' <=> Remapped(w)) /\ Moving(w)' = Moving(w)
    BY <1>1 DEF Remapped, Moving
  <2>7. /\ page_table'[v] = None
        /\ \A u \in VAs \ {v} : page_table'[u] = page_table[u]
    BY <1>0, <2>2, <2>3 DEF KernelOK
  <2>8. \A u \in VAs \ {v} : \A q \in Pages : Agrees(u, q)' <=> Agrees(u, q)
    BY <1>1, <2>6, <2>7 DEF Agrees
  <2>9. \A u \in VAs : /\ \A q \in Pages : Maps(u, q) => Agrees(u, q)
                       /\ (\A q \in Pages : ~Maps(u, q)) => page_table[u] = None
    BY <1>0 DEF TablesAgree, Agrees
  <2>10. ASSUME NEW u \in VAs
         PROVE  /\ \A q \in Pages : Maps(u, q)' => Agrees(u, q)'
                /\ (\A q \in Pages : ~Maps(u, q)') => page_table'[u] = None
    <3>1. CASE u = v
      BY <2>5, <2>7, <3>1
    <3>2. CASE u # v
      <4>1. /\ \A q \in Pages : (Maps(u, q)' <=> Maps(u, q)) /\ (Agrees(u, q)' <=> Agrees(u, q))
            /\ page_table'[u] = page_table[u]
        BY <2>5, <2>7, <2>8, <3>2
      <4> QED
        BY <2>9, <4>1
    <3> QED
      BY <3>1, <3>2
  <2> QED
    BY <2>10 DEF TablesAgree, Agrees
<1> QED
  BY <1>2, <1>4, <1>5, <1>6, <1>7, <1>8, <1>9, <1>10, <1>11 DEF ThreadStep, AppNext,
     AllocateNext, ReleaseNext, AssertFails, vars, tables, kernelVars
\* A worker that remaps the page it moves, and one that commits.
LEMMA TablesWorkerStep ==
  ASSUME OwnInv, MapInv, NEW w \in Workers, WorkerNext(w)
  PROVE  TablesAgree'
<1>0. /\ TypeOK /\ HandOffInv /\ RequestsApart /\ TablesAgree /\ TablePlaces /\ FramesSaved
      /\ frame \in [Pages -> Frames] /\ page_table \in [VAs -> Frames \cup {None}]
      /\ wstep \in [Workers -> {"idle", "demote", "map_down", "commit_down", "reset_down",
                                "promote", "map_up", "commit_up", "reset_up"}]
  BY DEF OwnInv, MapInv, TypeOK, StructsOK, WorkersOK, KernelOK
<1>1. \A v, p : Maps(v, p)' <=> Maps(v, p)
  BY WorkerLeaves DEF Maps
<1>2. \A u \in Workers \ {w} : /\ Remapped(u)' <=> Remapped(u)
                               /\ Moving(u)' = Moving(u) /\ new_frame'[u] = new_frame[u]
  <2> SUFFICES ASSUME NEW u \in Workers \ {w}
               PROVE  /\ Remapped(u)' <=> Remapped(u)
                      /\ Moving(u)' = Moving(u) /\ new_frame'[u] = new_frame[u]
    OBVIOUS
  <2>1. UNCHANGED <<wstep[u], worker_req[u], new_frame[u]>>
    BY <1>0, OtherWorkers
  <2> QED
    BY <2>1 DEF Remapped, Moving
<1>3. \A v \in VAs : /\ \A p \in Pages : Maps(v, p) => Agrees(v, p)
                     /\ (\A p \in Pages : ~Maps(v, p)) => page_table[v] = None
  BY <1>0 DEF TablesAgree, Agrees
<1>4. ASSUME NEW v \in VAs, NEW p \in Pages, Maps(v, p), frame'[p] = frame[p],
             page_table'[v] = page_table[v],
             Remapped(w) => Moving(w) # p, Remapped(w)' => Moving(w)' # p
      PROVE  Agrees(v, p)'
  <2>1. CASE page_table[v] = frame[p] /\ \A u \in Workers : Remapped(u) => Moving(u) # p
    BY <1>2, <1>4, <2>1 DEF Agrees
  <2>2. CASE \E u \in Workers : Remapped(u) /\ Moving(u) = p /\ page_table[v] = new_frame[u]
    <3>1. PICK u \in Workers : Remapped(u) /\ Moving(u) = p /\ page_table[v] = new_frame[u]
      BY <2>2
    <3>2. u # w
      BY <1>4, <3>1
    <3> QED
      BY <1>2, <1>4, <3>1, <3>2 DEF Agrees
  <2> QED
    BY <1>3, <1>4, <2>1, <2>2 DEF Agrees
<1>5. CASE Remap(w)
  <2>1. PICK p, v : p = Moving(w) /\ v = va[p]
    OBVIOUS
  <2>2. /\ UNCHANGED <<frame, worker_req, new_frame>> /\ wstep[w] # "idle" /\ ~Remapped(w)
        /\ page_table' = [page_table EXCEPT ![v] = new_frame[w]]
        /\ Remapped(w)' /\ Moving(w)' = p
    <3>1. /\ UNCHANGED <<frame, worker_req, new_frame>>
          /\ page_table' = [page_table EXCEPT ![v] = new_frame[w]]
          /\ \/ wstep[w] = "map_down" /\ wstep'[w] = "commit_down"
             \/ wstep[w] = "map_up" /\ wstep'[w] = "commit_up"
      BY <1>0, <1>5, <2>1 DEF Remap, structVars, mqVars
    <3> QED
      BY <2>1, <3>1 DEF Remapped, Moving
  <2>3. p \in Pages /\ v \in VAs /\ pages[v] = p /\ Maps(v, p)
    <3>1. p \in Pages /\ p \in Range(pages) \ {None}
      BY <2>1, <2>2, WorkerPages, HoldingOf
    <3>2. PICK u \in VAs : pages[u] = p /\ p # None
      BY <1>0, <3>1 DEF Range, TypeOK, TablesOK
    <3>3. u = v
      BY <1>0, <2>1, <3>2 DEF TablePlaces
    <3> QED
      BY <3>1, <3>2, <3>3 DEF Maps
  <2>4. page_table'[v] = new_frame[w] /\ \A u \in VAs \ {v} : page_table'[u] = page_table[u]
    BY <1>0, <2>2, <2>3
  <2>5. Agrees(v, p)'
    BY <2>2, <2>4 DEF Agrees
  <2>6. ASSUME NEW u \in VAs, NEW q \in Pages, Maps(u, q) PROVE Agrees(u, q)'
    <3>1. CASE u = v
      <4>1. q = p
        BY <2>3, <2>6, <3>1, MapsOnce
      <4> QED
        BY <2>5, <3>1, <4>1
    <3>2. CASE u # v
      <4>1. q # p
        BY <2>3, <2>6, <3>2, MapsOnce
      <4>2. frame'[q] = frame[q] /\ page_table'[u] = page_table[u]
            /\ (Remapped(w) => Moving(w) # q) /\ (Remapped(w)' => Moving(w)' # q)
        BY <2>2, <2>4, <3>2, <4>1
      <4> QED
        BY <1>4, <2>6, <4>2
    <3> QED
      BY <3>1, <3>2
  <2>7. ASSUME NEW u \in VAs, \A q \in Pages : ~Maps(u, q) PROVE page_table'[u] = None
    <3>1. u # v
      BY <2>3, <2>7
    <3> QED
      BY <1>3, <2>4, <2>7, <3>1
  <2> QED
    BY <1>1, <2>6, <2>7 DEF TablesAgree, Agrees
<1>6. CASE Commit(w)
  <2>1. PICK p : p = Moving(w)
    OBVIOUS
  <2>2. /\ UNCHANGED <<page_table, worker_req, new_frame>> /\ wstep[w] # "idle" /\ Remapped(w)
        /\ frame' = [frame EXCEPT ![p] = new_frame[w]] /\ ~Remapped(w)'
    BY <1>0, <1>6, <2>1 DEF Commit, kernelVars, mqVars, Remapped
  <2>3. p \in Pages /\ frame'[p] = new_frame[w] /\ \A q \in Pages \ {p} : frame'[q] = frame[q]
    BY <1>0, <2>1, <2>2, WorkerPages
  <2>4. \A u \in Workers \ {w} : Remapped(u) => Moving(u) # p
    BY <1>0, <2>1, <2>2, WorkersApart DEF Remapped
  <2>5. ASSUME NEW v \in VAs, NEW q \in Pages, Maps(v, q) PROVE Agrees(v, q)'
    <3>1. CASE q = p
      <4>1. page_table[v] = new_frame[w]
        BY <1>3, <2>1, <2>2, <2>4, <2>5, <3>1 DEF Agrees
      <4> QED
        BY <1>2, <2>2, <2>3, <2>4, <3>1, <4>1 DEF Agrees
    <3>2. CASE q # p
      BY <1>4, <2>1, <2>2, <2>3, <2>5, <3>2
    <3> QED
      BY <3>1, <3>2
  <2> QED
    BY <1>1, <1>3, <2>2, <2>5 DEF TablesAgree, Agrees
<1>7. CASE ResetAfterDemotion(w) \/ ResetAfterPromotion(w)
  <2>1. PICK p : p = worker_req[w].free_page
    OBVIOUS
  <2>2. /\ UNCHANGED page_table /\ wstep[w] # "idle" /\ ~Remapped(w) /\ ~Remapped(w)'
        /\ frame' = [frame EXCEPT ![p] = old_frame[w]]
    BY <1>0, <1>7, <2>1 DEF ResetAfterDemotion, ResetAfterPromotion, FinishRequest, ResetFree,
       kernelVars, Remapped
  <2>3. p \in Holding["request"]
    BY <2>1, <2>2, WorkerPages
  <2>4. ASSUME NEW v \in VAs, NEW q \in Pages, Maps(v, q) PROVE Agrees(v, q)'
    <3>1. q # p
      BY <2>3, <2>4, MapsOnce
    <3>2. frame'[q] = frame[q]
      BY <1>0, <2>2, <3>1
    <3> QED
      BY <1>4, <2>2, <2>4, <3>2
  <2> QED
    BY <1>1, <1>3, <2>2, <2>4 DEF TablesAgree, Agrees
<1>8. CASE UNCHANGED <<frame, page_table>> /\ ~Remapped(w) /\ ~Remapped(w)'
  BY <1>1, <1>3, <1>4, <1>8 DEF TablesAgree, Agrees
<1>9. CASE WakeWorker(w)
  <2>1. UNCHANGED <<frame, page_table, wstep>> /\ wstep[w] = "idle"
    BY <1>0, <1>9 DEF WakeWorker, structVars, kernelVars, workVars, MQ!Wake, MQ!FindEmpty, TypeOK,
       WorkersOK
  <2> QED
    BY <1>8, <2>1 DEF Remapped
<1>10. CASE TakeRequest(w)
  <2>1. UNCHANGED <<frame, page_table>> /\ wstep[w] = "idle" /\ wstep'[w] \in {"demote", "promote"}
    BY <1>0, <1>10 DEF TakeRequest, structVars, kernelVars, MQ!Dequeue, TypeOK, WorkersOK
  <2> QED
    BY <1>8, <2>1 DEF Remapped
<1>11. CASE DemoteStart(w) \/ PromoteStart(w)
  <2>1. /\ UNCHANGED <<frame, page_table>> /\ wstep[w] \in {"demote", "promote"}
        /\ wstep'[w] \in {"map_down", "map_up"}
    BY <1>0, <1>11 DEF DemoteStart, PromoteStart, LockForMigration, kernelVars
  <2> QED
    BY <1>8, <2>1 DEF Remapped
<1>12. CASE SkipDemotion(w) \/ SkipPromotion(w)
  <2>1. /\ UNCHANGED <<frame, page_table>> /\ wstep[w] \in {"demote", "promote"}
        /\ wstep'[w] = "idle"
    BY <1>0, <1>12 DEF SkipDemotion, SkipPromotion, FinishRequest, structVars, kernelVars
  <2> QED
    BY <1>8, <2>1 DEF Remapped
<1> QED
  BY <1>5, <1>6, <1>7, <1>9, <1>10, <1>11, <1>12 DEF WorkerNext

\* Every step keeps the page table and the structs in agreement.
LEMMA TablesAgreeStep ==
  ASSUME OwnInv, MapInv, [Next]_vars
  PROVE  TablesAgree'
<1>1. CASE PolicyNext
  <2>1. UNCHANGED <<frame, wstep, worker_req, new_frame, pages, thread>>
    BY <1>1, PolicyFrames, PolicyLeaves
  <2>2. UNCHANGED page_table
    BY <1>1 DEF PolicyNext, WakeUp, Drain, Score, Collect, BeginMigrations, StopMigrations,
       Choose, GiveBack, SubmitPromotion, GiveUpDemotion, SubmitExchange, PostSubmission, kernelVars
  <2>3. \A v \in VAs : \A p \in Pages : Maps(v, p)' <=> Maps(v, p)
    BY <2>1 DEF Maps
  <2> QED
    BY <2>1, <2>2, <2>3, AgreeMapsKept
<1> QED
  BY <1>1, TablesThreadStep, TablesWorkerStep, StepOf
------------------------------------------------------------------------------
(* The invariant.                                                          *)

\* Nothing is mapped when the program starts, and the lists hold their tiers.
LEMMA MapInit == Init => MapInv
<1> SUFFICES ASSUME Init PROVE MapInv
  OBVIOUS
<1>1. /\ \A t \in Threads : thread[t].pc = "idle" /\ thread[t].page = None /\ thread[t].v = None
      /\ step = "asleep" /\ Outstanding = {} /\ \A w \in Workers : wstep[w] = "idle"
      /\ \A v \in VAs : pages[v] = None /\ page_table[v] = None
      /\ \A p \in Pages : present[p] = FALSE
  <2>1. \A t \in Threads : thread[t] = IdleThread
    BY DEF Init
  <2>2. migration_queue = <<>> /\ MQ!Busy = {}
    BY DEF Init, MQ!Init, MQ!Busy
  <2>3. Outstanding = {}
    BY <2>2 DEF Outstanding, MQ!Queued, MQ!Held
  <2> QED
    BY <2>1, <2>3 DEF Init, IdleThread
<1>2. Quiet /\ Untracked /\ ReleasedPages
  BY <1>1 DEF Quiet, Releasing, Untracked, ReleasedPages, Threads
<1>3. PresentRight
  <2>1. Inside(Allocating) = {} /\ Inside(Removing) = {} /\ Inside({"absent"}) = {}
    BY <1>1 DEF Inside, Allocating, Removing
  <2>2. PagesInside(Allocating) = {} /\ PagesInside(Removing) = {} /\ PagesInside({"absent"}) = {}
    BY <2>1 DEF PagesInside
  <2>3. Holding["tracked"] = {}
    BY HoldingOf DEF Init, Range
  <2> QED
    BY <1>1, <2>2, <2>3, LiveParts DEF PresentRight
<1>4. TablesAgree
  <2>1. \A v \in VAs : \A p \in Pages : ~Maps(v, p)
    BY <1>1 DEF Maps, MappedAt
  <2> QED
    BY <1>1, <2>1 DEF TablesAgree
<1>5. RequestsTracked /\ ScoresTracked /\ CandidateTier /\ RequestTiers
  BY <1>1 DEF RequestsTracked, ScoresTracked, CandidateTier, RequestTiers, Outstanding
<1>6. WorkerTiers /\ LocksHeld
  BY <1>1 DEF WorkerTiers, LocksHeld, Committing
<1>7. ListTiers
  <2>1. ASSUME NEW p \in Range(dram_free_list) PROVE in_dram(p)
    <3>1. dram_free_list = [i \in 1 .. NDram |-> i]
      BY DEF Init
    <3>2. p \in 1 .. NDram
      BY <3>1 DEF Range
    <3>3. p \in Pages /\ p <= NDram
      BY <3>2, SizesAssumption DEF Pages
    <3> QED
      BY <3>3 DEF Init, in_dram
  <2>2. ASSUME NEW p \in Range(nvm_free_list) PROVE ~in_dram(p)
    <3>1. nvm_free_list = [i \in 1 .. NNvm |-> NDram + i]
      BY DEF Init
    <3>2. PICK i \in 1 .. NNvm : p = NDram + i
      BY <3>1 DEF Range
    <3>3. p \in Pages /\ ~(p <= NDram)
      BY <3>2, SizesAssumption DEF Pages
    <3> QED
      BY <3>3 DEF Init, in_dram
  <2> QED
    BY <2>1, <2>2 DEF ListTiers
<1> QED
  BY <1>2, <1>3, <1>4, <1>5, <1>6, <1>7 DEF MapInv

\* Every step keeps the invariant.
LEMMA MapStep ==
  ASSUME QuietMode, OwnInv, MapInv, [Next]_vars
  PROVE  MapInv'
<1>1. Quiet' /\ RequestsTracked' /\ ScoresTracked'
  BY QuietStep, RequestsTrackedStep, ScoresTrackedStep
<1>2. Untracked' /\ ReleasedPages' /\ PresentRight' /\ TablesAgree'
  BY UntrackedStep, ReleasedPagesStep, PresentStep, TablesAgreeStep
<1>3. CandidateTier' /\ ListTiers' /\ RequestTiers' /\ WorkerTiers' /\ LocksHeld'
  BY CandidateTierStep, ListTiersStep, RequestTiersStep, WorkerTiersStep, LocksHeldStep
<1> QED
  BY <1>1, <1>2, <1>3 DEF MapInv

\* The invariant holds when munmap runs only while the machine is quiet.
LEMMA MapHolds == ASSUME QuietMode PROVE SafeSpec => [](OwnInv /\ MapInv)
<1>1. Init => OwnInv /\ MapInv
  BY OwnInit, MapInit
<1>2. (OwnInv /\ MapInv) /\ [Next]_vars => (OwnInv /\ MapInv)'
  BY OwnStep, MapStep
<1> QED
  BY <1>1, <1>2, PTL DEF SafeSpec
------------------------------------------------------------------------------
(* What the runs check.                                                    *)

\* The address of a page that is being moved is tracked, and is its own.
LEMMA MovingTracked ==
  ASSUME OwnInv, MapInv, NEW w \in Workers, wstep[w] # "idle"
  PROVE  Moving(w) \in Pages /\ va[Moving(w)] \in VAs /\ pages[va[Moving(w)]] = Moving(w)
<1>1. TypeOK /\ TablePlaces
  BY DEF OwnInv
<1>2. Moving(w) \in Pages /\ Moving(w) \in Range(pages) \ {None}
  BY WorkerPages, HoldingOf
<1>3. PICK v \in VAs : pages[v] = Moving(w)
  BY <1>1, <1>2 DEF Range, TypeOK, TablesOK
<1>4. va[Moving(w)] = v
  BY <1>1, <1>2, <1>3 DEF TablePlaces
<1> QED
  BY <1>2, <1>3, <1>4

\* A struct that no request has for its free page stands for its own frame,
\* and so does the free page of a migration that is not committed yet.
LEMMA StandsOwn ==
  ASSUME OwnInv, MapInv
  PROVE  /\ \A p \in Pages : p \notin Holding["request"] => Stands(p) = frame[p]
         /\ \A w \in Workers : Remapped(w) => Stands(worker_req[w].free_page) = new_frame[w]
<1>0. TypeOK /\ HandOffInv /\ RequestsApart /\ FramesSaved
  BY DEF OwnInv
<1>1. ASSUME NEW p \in Pages, p \notin Holding["request"] PROVE Stands(p) = frame[p]
  BY <1>0, <1>1, StandsNow, WorkerPages DEF Resetting
<1>2. ASSUME NEW w \in Workers, Remapped(w) PROVE Stands(worker_req[w].free_page) = new_frame[w]
  <2>1. PICK p : p = worker_req[w].free_page
    OBVIOUS
  <2>2. \A u \in Workers : Resetting(u) => worker_req[u].free_page # p
    BY <1>0, <1>2, <2>1, WorkersApart DEF Resetting, Remapped
  <2>3. frame[p] = new_frame[w]
    BY <1>0, <1>2, <2>1 DEF FramesSaved, Remapped
  <2> QED
    BY <1>0, <2>1, <2>2, <2>3, StandsNow
<1> QED
  BY <1>1, <1>2

\* What an address maps is what one struct stands for: its page's, or the free
\* page of the migration that has remapped it.
LEMMA FrameSeen ==
  ASSUME OwnInv, MapInv, NEW v \in VAs, page_table[v] # None
  PROVE  \E p, x \in Pages :
            /\ Maps(v, p) /\ page_table[v] = Stands(x)
            /\ \/ x = p
               \/ \E w \in Workers : Remapped(w) /\ Moving(w) = p /\ x = worker_req[w].free_page
<1>1. TablesAgree
  BY DEF MapInv
<1>2. PICK p \in Pages : Maps(v, p)
  BY <1>1 DEF TablesAgree
<1>3. p \notin Holding["request"]
  BY <1>2, MapsOnce
<1>4. CASE page_table[v] = frame[p]
  BY <1>2, <1>3, <1>4, StandsOwn
<1>5. CASE \E w \in Workers : Remapped(w) /\ Moving(w) = p /\ page_table[v] = new_frame[w]
  <2>1. PICK w \in Workers : Remapped(w) /\ Moving(w) = p /\ page_table[v] = new_frame[w]
    BY <1>5
  <2>2. PICK x : x = worker_req[w].free_page
    OBVIOUS
  <2>3. x \in Pages /\ page_table[v] = Stands(x)
    BY <2>1, <2>2, StandsOwn, WorkerPages DEF Remapped
  <2> QED
    BY <1>2, <2>1, <2>2, <2>3
<1> QED
  BY <1>1, <1>2, <1>4, <1>5 DEF TablesAgree

\* Two addresses never share a frame: whatever is migrated, allocated and
\* released, MAP_FIXED never maps a frame that another address maps.
THEOREM NoFrameShared == ASSUME QuietMode PROVE SafeSpec => []NoAliasing
<1>1. ASSUME OwnInv, MapInv PROVE NoAliasing
  <2> SUFFICES ASSUME NEW u \in VAs, NEW v \in VAs, page_table[u] # None,
                      page_table[u] = page_table[v]
               PROVE  u = v
    BY DEF NoAliasing
  <2>0. /\ TypeOK /\ HandOffInv /\ RequestsApart
        /\ \A x, y \in Pages : Stands(x) = Stands(y) => x = y
    BY <1>1 DEF OwnInv, OneStructEach
  <2>1. PICK p, x \in Pages :
            /\ Maps(u, p) /\ page_table[u] = Stands(x)
            /\ \/ x = p
               \/ \E w \in Workers : Remapped(w) /\ Moving(w) = p /\ x = worker_req[w].free_page
    BY <1>1, FrameSeen
  <2>2. PICK q, y \in Pages :
            /\ Maps(v, q) /\ page_table[v] = Stands(y)
            /\ \/ y = q
               \/ \E w \in Workers : Remapped(w) /\ Moving(w) = q /\ y = worker_req[w].free_page
    BY <1>1, FrameSeen
  <2>3. x = y
    BY <2>0, <2>1, <2>2
  <2>4. p \notin Holding["request"] /\ q \notin Holding["request"]
    BY <1>1, <2>1, <2>2, MapsOnce
  <2>5. \A w \in Workers : Remapped(w) => worker_req[w].free_page \in Holding["request"]
    BY <1>1, WorkerPages DEF Remapped
  <2>6. p = q
    <3>1. CASE x = p
      BY <2>2, <2>3, <2>4, <2>5, <3>1
    <3>2. CASE \E w \in Workers : Remapped(w) /\ Moving(w) = p /\ x = worker_req[w].free_page
      <4>1. PICK w \in Workers : Remapped(w) /\ Moving(w) = p /\ x = worker_req[w].free_page
        BY <3>2
      <4>2. PICK i \in Workers : Remapped(i) /\ Moving(i) = q /\ x = worker_req[i].free_page
        BY <2>2, <2>3, <2>4, <2>5, <4>1
      <4>3. w = i
        BY <2>0, <4>1, <4>2, WorkersApart DEF Remapped
      <4> QED
        BY <4>1, <4>2, <4>3
    <3> QED
      BY <2>1, <3>1, <3>2
  <2> QED
    BY <1>1, <2>1, <2>2, <2>6, MapsOnce
<1> QED
  BY <1>1, MapHolds, PTL

\* A free page is in the tier of its list, is not present and no address maps
\* its frame: pebs_allocate_page and pebs_migrate_* get memory nobody uses.
LEMMA CleanLists == ASSUME OwnInv, MapInv PROVE FreeListsClean
<1>0. TypeOK /\ StructsOK /\ ListsOK /\ Accounted /\ ListTiers /\ PresentRight
      /\ \A x, y \in Pages : Stands(x) = Stands(y) => x = y
  BY DEF OwnInv, MapInv, OneStructEach, TypeOK
<1>1. ASSUME NEW p \in Range(dram_free_list) \cup Range(nvm_free_list)
      PROVE  ~present[p] /\ \A v \in VAs : page_table[v] # frame[p]
  <2>1. p \in Pages /\ (p \in Holding["dram"] \/ p \in Holding["nvm"])
    BY <1>0, HoldingOf DEF ListsOK, Range
  <2>2. p \notin Live /\ p \notin Holding["request"]
    BY <1>0, <2>1, FreeNotLive, NotWith DEF Kinds
  <2>3. ~present[p]
    BY <1>0, <2>1, <2>2 DEF PresentRight
  <2>4. ASSUME NEW v \in VAs, page_table[v] = frame[p] PROVE FALSE
    <3>1. page_table[v] # None
      BY <1>0, <2>1, <2>4, NoneAssumption DEF StructsOK
    <3>2. PICK q, x \in Pages :
            /\ Maps(v, q) /\ page_table[v] = Stands(x)
            /\ \/ x = q
               \/ \E w \in Workers : Remapped(w) /\ Moving(w) = q /\ x = worker_req[w].free_page
      BY <3>1, FrameSeen
    <3>3. x = p
      BY <1>0, <2>1, <2>2, <2>4, <3>2, StandsOwn
    <3>4. CASE x = q
      BY <2>1, <3>2, <3>3, <3>4, MapsOnce
    <3>5. ASSUME NEW w \in Workers, Remapped(w), x = worker_req[w].free_page PROVE FALSE
      BY <2>2, <3>3, <3>5, WorkerPages DEF Remapped
    <3> QED
      BY <3>2, <3>4, <3>5
  <2> QED
    BY <2>3, <2>4
<1> QED
  BY <1>0, <1>1 DEF FreeListsClean, ListTiers

\* The same as a theorem of the specification.
THEOREM FreePagesClean == ASSUME QuietMode PROVE SafeSpec => []FreeListsClean
BY CleanLists, MapHolds, PTL

\* A tracked page is present under its own address, and the address maps its
\* frame, or the frame it moves to while the worker that remapped it holds
\* page_lock.
THEOREM TableMatchesKernel == ASSUME QuietMode PROVE SafeSpec => []TranslationRight
<1>1. ASSUME OwnInv, MapInv PROVE TranslationRight
  <2> SUFFICES ASSUME NEW v \in VAs, pages[v] # None
               PROVE  /\ va[pages[v]] = v /\ present[pages[v]]
                      /\ \/ page_table[v] = frame[pages[v]]
                         \/ \E w \in Workers : /\ wstep[w] \in {"commit_down", "commit_up"}
                                               /\ page_lock[pages[v]] = w /\ Moving(w) = pages[v]
                                               /\ page_table[v] = new_frame[w]
    BY DEF TranslationRight
  <2>0. TypeOK /\ TablePlaces /\ PresentRight /\ TablesAgree /\ LocksHeld
    BY <1>1 DEF OwnInv, MapInv
  <2>1. PICK p : p = pages[v]
    OBVIOUS
  <2>2. p \in Pages /\ p \in Holding["tracked"] /\ Maps(v, p) /\ va[p] = v
    BY <2>0, <2>1 DEF TypeOK, TablesOK, Holding, Range, Maps, TablePlaces
  <2>3. present[p]
    BY <2>0, <2>2 DEF PresentRight, Live
  <2>4. \/ page_table[v] = frame[p]
        \/ \E w \in Workers : Remapped(w) /\ Moving(w) = p /\ page_table[v] = new_frame[w]
    BY <2>0, <2>2 DEF TablesAgree
  <2>5. \A w \in Workers : Remapped(w) /\ Moving(w) = p => page_lock[p] = w
    BY <2>0 DEF LocksHeld, Committing, Remapped
  <2> QED
    BY <2>1, <2>2, <2>3, <2>4, <2>5 DEF Remapped
<1> QED
  BY <1>1, MapHolds, PTL

\* The address that arms_migrate_down or arms_migrate_up is about to map over
\* maps the frame it has copied.
THEOREM OwnMappingMoved == ASSUME QuietMode PROVE SafeSpec => []MovesOwnMapping
<1>1. ASSUME OwnInv, MapInv PROVE MovesOwnMapping
  <2> SUFFICES ASSUME NEW w \in Workers, wstep[w] \in {"map_down", "map_up"}
               PROVE  page_table[va[Moving(w)]] = old_frame[w]
    BY DEF MovesOwnMapping
  <2>0. TypeOK /\ HandOffInv /\ RequestsApart /\ FramesSaved /\ TablesAgree
    BY <1>1 DEF OwnInv, MapInv
  <2>1. PICK p, v : p = Moving(w) /\ v = va[p]
    OBVIOUS
  <2>2. p \in Pages /\ v \in VAs /\ pages[v] = p /\ p # None
    BY <1>1, <2>1, MovingTracked, NoneAssumption
  <2>3. \A u \in Workers : Remapped(u) => Moving(u) # p
    BY <2>0, <2>1, WorkersApart DEF Remapped
  <2>4. page_table[v] = frame[p]
    BY <2>0, <2>2, <2>3 DEF TablesAgree, Maps
  <2>5. frame[p] = old_frame[w]
    BY <2>0, <2>1 DEF FramesSaved
  <2> QED
    BY <2>1, <2>4, <2>5
<1> QED
  BY <1>1, MapHolds, PTL

\* No assertion of pebs_allocate_page, pebs_add_page, the policy thread or the
\* migrations fails.
THEOREM AssertsHold == ASSUME QuietMode PROVE SafeSpec => []NoAssertFails
<1>1. ASSUME OwnInv, MapInv PROVE NoAssertFails
  <2>0. /\ TypeOK /\ StructsOK /\ ListsOK /\ PolicyOK /\ ThreadsOK /\ FreeListsClean /\ Untracked
        /\ EntriesAlternate /\ WorkerTiers /\ PresentRight
    BY <1>1, CleanLists DEF OwnInv, MapInv, TypeOK
  <2>1. ASSUME NEW t \in Threads PROVE ThreadAsserts(t)
    <3>1. dram_free_list # <<>> => Head(dram_free_list) \in Range(dram_free_list)
      BY <2>0, TailFacts DEF ListsOK, Range
    <3>2. nvm_free_list # <<>> => Head(nvm_free_list) \in Range(nvm_free_list)
      BY <2>0, TailFacts DEF ListsOK, Range
    <3> QED
      BY <2>0, <3>1, <3>2 DEF ThreadAsserts, FreeListsClean, Untracked
  <2>2. PolicyAsserts
    <3>1. ASSUME mod_page_dq # <<>>, ~Head(mod_page_dq).free
          PROVE  pages_map[va[Head(mod_page_dq).page]] = None
      <4>1. mod_page_dq \in Seq([page : Pages, free : BOOLEAN])
        BY <2>0 DEF TypeOK, TablesOK
      <4>2. 1 \in DOMAIN mod_page_dq /\ Head(mod_page_dq) = mod_page_dq[1]
        BY <3>1, <4>1
      <4>3. PICK v : v = va[mod_page_dq[1].page]
        OBVIOUS
      <4>4. Shows(v, 0, None)
        BY <2>0, <3>1, <4>2, <4>3 DEF EntriesAlternate
      <4>5. 1 .. 0 = {}
        OBVIOUS
      <4> QED
        BY <4>2, <4>3, <4>4, <4>5 DEF Shows
    <3>2. ASSUME step = "promote" PROVE ~present[np]
      <4>1. np \in Pages /\ np # None
        BY <2>0, <3>2, NoneAssumption DEF PolicyOK
      <4>2. np \notin Live
        BY <1>1, <4>1, FreeNotLive, HoldingOf
      <4> QED
        BY <2>0, <4>1, <4>2 DEF PresentRight
    <3> QED
      BY <3>1, <3>2 DEF PolicyAsserts
  <2>3. ASSUME NEW w \in Workers PROVE WorkerAsserts(w)
    <3>1. wstep[w] \in {"map_down", "map_up"} => va[Moving(w)] # None
      BY <1>1, MovingTracked, NoneAssumption
    <3> QED
      BY <2>0, <3>1 DEF WorkerAsserts, WorkerTiers, Moving
  <2> QED
    BY <2>1, <2>2, <2>3 DEF NoAssertFails
<1> QED
  BY <1>1, MapHolds, PTL
=============================================================================
