------------------------- MODULE PageTieringProofs -------------------------
(***************************************************************************)
(* Proofs about PageTiering, for any number of frames, addresses, threads  *)
(* and workers and in every UnmapMode: it uses the hand-off of             *)
(* MigrationQueue as that module specifies it, so what is proved there     *)
(* holds here, and every variable keeps its type.                          *)
(*                                                                         *)
(* Then the structs that own the frames: each is in one place              *)
(* (PagesAccounted), the requests share none (RequestsDisjoint), no frame  *)
(* is lost (FramesOwned), and the policy thread's table is the table of    *)
(* tracked pages once it has drained mod_page_dq (PolicyTableCurrent).     *)
(***************************************************************************)
EXTENDS PageTiering, FiniteSetTheorems, TLAPS

\* The theorems about the hand-off, over the variables of PageTiering.
MQP == INSTANCE MigrationQueueProofs WITH NoReq <- None

------------------------------------------------------------------------------
(* The hand-off inside PageTiering.                                        *)

\* MQP is the same specification as MQ.
LEMMA SameStep == [MQ!Next]_MQ!vars => [MQP!Next]_MQP!vars
BY DEF MQ!Next, MQP!Next, MQ!vars, MQP!vars, MQ!PolicyNext, MQP!PolicyNext,
       MQ!WorkerNext, MQP!WorkerNext, MQ!StartInterval, MQP!StartInterval,
       MQ!CollectCompletion, MQP!CollectCompletion, MQ!StartLoop, MQP!StartLoop,
       MQ!Enqueue, MQP!Enqueue, MQ!Post, MQP!Post, MQ!EndLoop, MQP!EndLoop,
       MQ!Wake, MQP!Wake, MQ!Dequeue, MQP!Dequeue, MQ!FindEmpty, MQP!FindEmpty,
       MQ!Complete, MQP!Complete, MQ!Queued, MQP!Queued, MQ!Held, MQP!Held,
       MQ!Busy, MQP!Busy, MQ!workerVars, MQP!workerVars, MQ!policyVars, MQP!policyVars

\* The two instances have the same type invariant.
LEMMA SameTypes == MQP!TypeOK <=> MQ!TypeOK
BY DEF MQP!TypeOK, MQ!TypeOK, MQP!Busy, MQ!Busy

\* The inductive invariant of MigrationQueueProofs says, over MQ, that types,
\* the count of jobs and the distinctness of requests hold.
LEMMA SameInvariant ==
  MQP!IInv <=> MQ!TypeOK /\ MQ!JobsConserved /\ MQ!RequestsDistinct
BY SameTypes
   DEF MQP!IInv, MQP!JobsConserved, MQ!JobsConserved, MQP!RequestsDistinct,
       MQ!RequestsDistinct, MQP!Cardinality, MQ!Cardinality, MQ!Busy, MQP!Busy,
       MQ!Queued, MQP!Queued, MQ!Held, MQP!Held

\* What MigrationQueue assumes of its constants is what PageTiering assumes.
LEMMA HandOffAssumptions ==
  MQP!WorkersAssumption /\ MQP!ReqsAssumption /\ MQP!BoundsAssumption
BY HandOffAssumption, ReqsAssumption
   DEF MQP!WorkersAssumption, MQP!ReqsAssumption, MQP!BoundsAssumption,
       MQP!IsFiniteSet, IsFiniteSet

\* A step of the hand-off keeps its types.
LEMMA HandOffTypes == MQ!TypeOK /\ [MQ!Next]_MQ!vars => MQ!TypeOK'
<1>1. MQP!TypeOK' <=> MQ!TypeOK'
  BY DEF MQP!TypeOK, MQ!TypeOK, MQP!Busy, MQ!Busy
<1> QED
  BY <1>1, HandOffAssumptions, SameStep, SameTypes, MQP!TypeStep

------------------------------------------------------------------------------
(* Helpers.                                                                *)

\* The parts of a queue that is not empty.
LEMMA HeadTail ==
  ASSUME NEW E, NEW s \in Seq(E), s # <<>>
  PROVE  Head(s) \in E /\ Tail(s) \in Seq(E)
OBVIOUS

\* A thread may go wherever it has the address and the page the place needs.
LEMMA GotoOK ==
  ASSUME ThreadsOK, NEW t \in Threads,
         NEW pc \in {"idle", "dram", "nvm", "map", "track", "report", "remove",
                    "absent", "unmap"},
         NEW v \in VAs \cup {None}, NEW p \in Pages \cup {None},
         pc # "idle" => v \in VAs,
         pc \in {"map", "track", "report", "remove", "absent"} => p \in Pages,
         Goto(t, pc, v, p)
  PROVE  ThreadsOK'
BY DEF ThreadsOK, Goto

------------------------------------------------------------------------------
(* Types: one lemma per action.  Each assumes the types of the hand-off     *)
(* after the step, which HandOffTypes gives.                               *)

\* handle_fault that starts on a missing fault has its address.
LEMMA TypeMissingFault ==
  ASSUME TypeOK, MQ!TypeOK', NEW v \in VAs, MissingFault(v)
  PROVE  TypeOK'
BY SizesAssumption, NoneAssumption
   DEF TypeOK, MissingFault, Goto, StructsOK, ListsOK, TablesOK, KernelOK, ThreadsOK, PolicyOK, WorkersOK,
       structVars, freeLists, tables, kernelVars, policyVars, workVars, mqVars

\* arms_mmap gives a populating thread its address and no page yet.
LEMMA TypeMmap ==
  ASSUME TypeOK, MQ!TypeOK', NEW a \in Apps, NEW v \in VAs, NEW populate \in BOOLEAN, Mmap(a, v, populate)
  PROVE  TypeOK'
<1>1. ThreadsOK'
  <2>1. CASE populate
    <3>1. Goto(a, "dram", v, None) /\ a \in Threads
      BY <2>1 DEF Mmap, Threads
    <3> QED
      BY <3>1, GotoOK DEF TypeOK
  <2>2. CASE ~populate
    BY <2>2 DEF TypeOK, Mmap, ThreadsOK
  <2> QED
    BY <2>1, <2>2
<1>2. KernelOK'
  BY DEF TypeOK, Mmap, KernelOK
<1> QED
  BY <1>1, <1>2
     DEF TypeOK, Mmap, StructsOK, ListsOK, TablesOK, PolicyOK, WorkersOK,
         structVars, freeLists, tables, policyVars, workVars, mqVars

\* arms_munmap goes on with the page it took out of the table, if any.
LEMMA TypeMunmap ==
  ASSUME TypeOK, MQ!TypeOK', NEW a \in Apps, NEW v \in VAs, Munmap(a, v)
  PROVE  TypeOK'
BY SizesAssumption, NoneAssumption
   DEF TypeOK, Munmap, Goto, Threads, StructsOK, ListsOK, TablesOK, KernelOK, ThreadsOK, PolicyOK, WorkersOK,
       structVars, freeLists, tables, kernelVars, policyVars, workVars, mqVars

\* pebs_allocate_page: the head of a DRAM list that is not empty is a page.
LEMMA TypeAllocateDram ==
  ASSUME TypeOK, MQ!TypeOK', NEW t \in Threads, AllocateDram(t)
  PROVE  TypeOK'
<1>0. /\ thread[t].pc = "dram" /\ thread[t].v \in VAs
      /\ ThreadsOK /\ StructsOK /\ ListsOK
  BY DEF AllocateDram, TypeOK, ThreadsOK
<1>1. ThreadsOK' /\ StructsOK' /\ ListsOK' /\ aborted' \in {"no", "oom", "assert"}
  <2>1. CASE dram_free_list # <<>>
    <3> DEFINE p == Head(dram_free_list)
    <3>1. p \in Pages /\ Tail(dram_free_list) \in Seq(Pages)
      BY <1>0, <2>1, HeadTail DEF ListsOK
    <3>2. /\ Goto(t, "map", thread[t].v, p) /\ dram_free_list' = Tail(dram_free_list)
          /\ present' = [present EXCEPT ![p] = TRUE]
      BY <2>1 DEF AllocateDram
    <3>3. ThreadsOK'
      BY <1>0, <3>1, <3>2, GotoOK
    <3> QED
      BY <1>0, <2>1, <3>1, <3>2, <3>3 DEF AllocateDram, StructsOK, ListsOK, TypeOK
  <2>2. CASE dram_free_list = <<>>
    <3>1. Goto(t, "nvm", thread[t].v, None)
      BY <2>2 DEF AllocateDram
    <3>2. ThreadsOK'
      BY <1>0, <3>1, GotoOK
    <3> QED
      BY <1>0, <2>2, <3>2 DEF AllocateDram, StructsOK, ListsOK, TypeOK
  <2> QED
    BY <2>1, <2>2
<1> QED
  BY <1>1
     DEF TypeOK, AllocateDram, TablesOK, KernelOK, PolicyOK, WorkersOK,
         tables, kernelVars, policyVars, workVars, mqVars

\* pebs_allocate_page: the same for NVM, or the process aborts.
LEMMA TypeAllocateNvm ==
  ASSUME TypeOK, MQ!TypeOK', NEW t \in Threads, AllocateNvm(t)
  PROVE  TypeOK'
<1>0. /\ thread[t].pc = "nvm" /\ thread[t].v \in VAs
      /\ ThreadsOK /\ StructsOK /\ ListsOK
  BY DEF AllocateNvm, TypeOK, ThreadsOK
<1>1. ThreadsOK' /\ StructsOK' /\ ListsOK' /\ aborted' \in {"no", "oom", "assert"}
  <2>1. CASE nvm_free_list # <<>>
    <3> DEFINE p == Head(nvm_free_list)
    <3>1. p \in Pages /\ Tail(nvm_free_list) \in Seq(Pages)
      BY <1>0, <2>1, HeadTail DEF ListsOK
    <3>2. /\ Goto(t, "map", thread[t].v, p) /\ nvm_free_list' = Tail(nvm_free_list)
          /\ present' = [present EXCEPT ![p] = TRUE]
      BY <2>1 DEF AllocateNvm
    <3>3. ThreadsOK'
      BY <1>0, <3>1, <3>2, GotoOK
    <3> QED
      BY <1>0, <2>1, <3>1, <3>2, <3>3 DEF AllocateNvm, StructsOK, ListsOK, TypeOK
  <2>2. CASE nvm_free_list = <<>>
    BY <1>0, <2>2 DEF AllocateNvm, StructsOK, ListsOK, ThreadsOK
  <2> QED
    BY <2>1, <2>2
<1> QED
  BY <1>1
     DEF TypeOK, AllocateNvm, TablesOK, KernelOK, PolicyOK, WorkersOK,
         tables, kernelVars, policyVars, workVars, mqVars

\* handle_missing_fault maps a frame of a device.
LEMMA TypeMapFrame ==
  ASSUME TypeOK, MQ!TypeOK', NEW t \in Threads, MapFrame(t)
  PROVE  TypeOK'
BY SizesAssumption, NoneAssumption
   DEF TypeOK, MapFrame, Goto, StructsOK, ListsOK, TablesOK, KernelOK, ThreadsOK, PolicyOK, WorkersOK,
       structVars, freeLists, tables, kernelVars, policyVars, workVars, mqVars

\* pebs_add_page puts a page under an address of the application.
LEMMA TypeTrackPage ==
  ASSUME TypeOK, MQ!TypeOK', NEW t \in Threads, TrackPage(t)
  PROVE  TypeOK'
BY SizesAssumption, NoneAssumption
   DEF TypeOK, TrackPage, Goto, StructsOK, ListsOK, TablesOK, KernelOK, ThreadsOK, PolicyOK, WorkersOK,
       structVars, freeLists, tables, kernelVars, policyVars, workVars, mqVars

\* The pushed addition names a page.
LEMMA TypeReportAdd ==
  ASSUME TypeOK, MQ!TypeOK', NEW t \in Threads, ReportAdd(t)
  PROVE  TypeOK'
BY SizesAssumption, NoneAssumption
   DEF TypeOK, ReportAdd, Goto, StructsOK, ListsOK, TablesOK, KernelOK, ThreadsOK, PolicyOK, WorkersOK,
       structVars, freeLists, tables, kernelVars, policyVars, workVars, mqVars

\* pebs_remove_page: the pushed removal names a page.
LEMMA TypeReportRemoval ==
  ASSUME TypeOK, MQ!TypeOK', NEW a \in Apps, ReportRemoval(a)
  PROVE  TypeOK'
BY SizesAssumption, NoneAssumption
   DEF TypeOK, ReportRemoval, Goto, Threads, StructsOK, ListsOK, TablesOK, KernelOK, ThreadsOK, PolicyOK, WorkersOK,
       structVars, freeLists, tables, kernelVars, policyVars, workVars, mqVars

\* pebs_remove_page clears present of the page it removed.
LEMMA TypeClearPresent ==
  ASSUME TypeOK, MQ!TypeOK', NEW a \in Apps, ClearPresent(a)
  PROVE  TypeOK'
BY SizesAssumption, NoneAssumption
   DEF TypeOK, ClearPresent, Goto, Threads, StructsOK, ListsOK, TablesOK, KernelOK, ThreadsOK, PolicyOK, WorkersOK,
       structVars, freeLists, tables, kernelVars, policyVars, workVars, mqVars

\* libc_munmap leaves the address without a frame.
LEMMA TypeUnmap ==
  ASSUME TypeOK, MQ!TypeOK', NEW a \in Apps, Unmap(a)
  PROVE  TypeOK'
BY SizesAssumption, NoneAssumption
   DEF TypeOK, Unmap, Goto, Threads, StructsOK, ListsOK, TablesOK, KernelOK, ThreadsOK, PolicyOK, WorkersOK,
       structVars, freeLists, tables, kernelVars, policyVars, workVars, mqVars

\* The policy thread wakes up without a target page.
LEMMA TypeWakeUp ==
  ASSUME TypeOK, MQ!TypeOK', WakeUp
  PROVE  TypeOK'
BY SizesAssumption, NoneAssumption
   DEF TypeOK, WakeUp, StructsOK, ListsOK, TablesOK, KernelOK, ThreadsOK, PolicyOK, WorkersOK,
       structVars, freeLists, tables, kernelVars, policyVars, workVars, mqVars

\* The policy thread frees or adds the page of an entry of mod_page_dq.
LEMMA TypeDrain ==
  ASSUME TypeOK, MQ!TypeOK', Drain
  PROVE  TypeOK'
<1> DEFINE entry == Head(mod_page_dq)
           p == entry.page
<1>1. /\ entry \in [page : Pages, free : BOOLEAN]
      /\ Tail(mod_page_dq) \in Seq([page : Pages, free : BOOLEAN])
  BY HeadTail DEF TypeOK, TablesOK, Drain
<1>2. /\ p \in Pages
      /\ Append(dram_free_list, p) \in Seq(Pages) /\ Append(nvm_free_list, p) \in Seq(Pages)
  BY <1>1 DEF TypeOK, ListsOK
<1>3. ListsOK' /\ TablesOK'
  BY <1>1, <1>2 DEF Drain, TypeOK, ListsOK, TablesOK, freeLists
<1> QED
  BY <1>3 DEF TypeOK, Drain, StructsOK, KernelOK, ThreadsOK, PolicyOK, WorkersOK,
              structVars, kernelVars, policyVars, workVars, mqVars

\* A new request keeps the workers' part if it names a page to demote.
LEMMA EnqueueKeepsWorkersOK ==
  ASSUME WorkersOK, MQ!TypeOK, NEW r, MQ!Enqueue(r), UNCHANGED workVars,
         r.need_demotion => r.dram_page \in Pages
  PROVE  WorkersOK'
<1>1. migration_queue \in Seq(Reqs) /\ migration_queue' = Append(migration_queue, r)
      /\ UNCHANGED <<worker_pc, worker_req>>
  BY DEF MQ!TypeOK, MQ!Enqueue, MQ!workerVars
<1>2. Range(migration_queue') = Range(migration_queue) \cup {r}
  BY <1>1 DEF Range
<1> QED
  BY <1>1, <1>2 DEF WorkersOK, workVars

\* So does a worker that finishes its request.
LEMMA FinishKeepsWorkersOK ==
  ASSUME WorkersOK, MQ!TypeOK, NEW w \in Workers, FinishRequest(w)
  PROVE  WorkersOK'
BY DEF WorkersOK, FinishRequest, MQ!Complete, MQ!TypeOK

\* Sorting the scored pages gives a sequence of pages.
LEMMA TypeScore ==
  ASSUME TypeOK, MQ!TypeOK', Score
  PROVE  TypeOK'
<1>1. scores' \in Seq(Pages)
  <2>1. IsFiniteSet(Pages)
    BY SizesAssumption, FS_Interval DEF Pages
  <2>2. Scored \subseteq Pages
    BY DEF TypeOK, TablesOK, Scored, Range
  <2>3. Cardinality(Scored) \in Nat
    BY <2>1, <2>2, FS_Subset, FS_CardinalityType
  <2>4. scores' \in [1 .. Cardinality(Scored) -> Pages]
    BY <2>2 DEF Score, Orders
  <2> QED
    BY <2>3, <2>4
<1>2. PolicyOK'
  BY <1>1 DEF TypeOK, Score, PolicyOK
<1>3. WorkersOK'
  BY DEF TypeOK, Score, WorkersOK, workVars, MQ!StartInterval, MQ!workerVars, Range
<1> QED
  BY <1>2, <1>3 DEF TypeOK, Score, StructsOK, ListsOK, TablesOK, KernelOK, ThreadsOK,
                    structVars, freeLists, tables, kernelVars

\* Waiting for a completion touches only the hand-off.
LEMMA TypeCollect ==
  ASSUME TypeOK, MQ!TypeOK', Collect
  PROVE  TypeOK'
<1>1. PolicyOK'
  BY DEF TypeOK, Collect, PolicyOK, policyVars
<1>2. WorkersOK'
  BY DEF TypeOK, Collect, WorkersOK, workVars, MQ!CollectCompletion, MQ!workerVars, Range
<1> QED
  BY <1>1, <1>2
     DEF TypeOK, Collect, StructsOK, ListsOK, TablesOK, KernelOK, ThreadsOK,
         structVars, freeLists, tables, kernelVars

\* The migration loop starts with demote_idx on the last score.
LEMMA TypeBeginMigrations ==
  ASSUME TypeOK, MQ!TypeOK', BeginMigrations
  PROVE  TypeOK'
<1>1. PolicyOK'
  BY DEF TypeOK, BeginMigrations, PolicyOK, policyVars
<1>2. WorkersOK'
  BY DEF TypeOK, BeginMigrations, WorkersOK, workVars, MQ!StartLoop, MQ!workerVars, Range
<1> QED
  BY <1>1, <1>2
     DEF TypeOK, BeginMigrations, StructsOK, ListsOK, TablesOK, KernelOK, ThreadsOK,
         structVars, freeLists, tables, kernelVars

\* The end of the migration loop holds no target page.
LEMMA TypeStopMigrations ==
  ASSUME TypeOK, MQ!TypeOK', StopMigrations
  PROVE  TypeOK'
<1>1. PolicyOK'
  BY DEF TypeOK, StopMigrations, PolicyOK, policyVars, LeaveLoop
<1>2. WorkersOK'
  BY DEF TypeOK, StopMigrations, WorkersOK, workVars, MQ!EndLoop, MQ!workerVars, Range, LeaveLoop
<1> QED
  BY <1>1, <1>2
     DEF TypeOK, StopMigrations, StructsOK, ListsOK, TablesOK, KernelOK, ThreadsOK,
         structVars, freeLists, tables, kernelVars, LeaveLoop

\* A chosen candidate is above demote_idx, and its target page is a page.
LEMMA TypeChoose ==
  ASSUME TypeOK, MQ!TypeOK', Choose
  PROVE  TypeOK'
<1>1. PICK k \in promote_idx .. demote_idx - 1 :
         \/ /\ promote_idx' = k + 1
            /\ UNCHANGED <<step, np, dram_free_list>>
         \/ /\ promote_idx' = k
            /\ dram_free_list # <<>>
            /\ np' = Head(dram_free_list)
            /\ dram_free_list' = Tail(dram_free_list)
            /\ step' = "promote"
         \/ /\ promote_idx' = k
            /\ step' = "demote"
            /\ UNCHANGED <<np, dram_free_list>>
  BY DEF Choose
<1>2. /\ k \in Nat /\ k < demote_idx /\ demote_idx < Len(scores)
      /\ step = "choose" /\ np = None /\ demote_idx' = demote_idx /\ scores' = scores
  BY DEF TypeOK, PolicyOK, Choose
<1>3. dram_free_list # <<>> => /\ Head(dram_free_list) \in Pages
                              /\ Tail(dram_free_list) \in Seq(Pages)
  BY DEF TypeOK, ListsOK
<1>4. PolicyOK'
  BY <1>1, <1>2, <1>3, NoneAssumption DEF TypeOK, PolicyOK
<1>5. ListsOK'
  BY <1>1, <1>3 DEF TypeOK, ListsOK, Choose
<1> QED
  BY <1>4, <1>5
     DEF TypeOK, Choose, StructsOK, TablesOK, KernelOK, ThreadsOK, WorkersOK,
         structVars, tables, kernelVars, workVars, mqVars

\* A target page that is not used goes back to the DRAM list.
LEMMA TypeGiveBack ==
  ASSUME TypeOK, MQ!TypeOK', GiveBack
  PROVE  TypeOK'
<1>1. PolicyOK'
  BY DEF TypeOK, GiveBack, PolicyOK, LeaveLoop
<1>2. WorkersOK'
  BY DEF TypeOK, GiveBack, LeaveLoop, WorkersOK, workVars, MQ!EndLoop, MQ!workerVars, Range
<1>3. ListsOK'
  BY DEF TypeOK, GiveBack, ListsOK, PolicyOK
<1> QED
  BY <1>1, <1>2, <1>3
     DEF TypeOK, GiveBack, StructsOK, TablesOK, KernelOK, ThreadsOK,
         structVars, tables, kernelVars

\* A promotion without a demotion has no page to demote.
LEMMA TypeSubmitPromotion ==
  ASSUME TypeOK, MQ!TypeOK', SubmitPromotion
  PROVE  TypeOK'
<1> DEFINE r == [dram_page |-> None, nvm_page |-> scores[promote_idx + 1],
                   free_page |-> np, need_demotion |-> FALSE]
<1>1. r.need_demotion = FALSE
  OBVIOUS
<1>2. PolicyOK'
  BY DEF TypeOK, SubmitPromotion, PolicyOK
<1>3. WorkersOK'
  BY <1>1, EnqueueKeepsWorkersOK DEF TypeOK, SubmitPromotion
<1> QED
  BY <1>2, <1>3
     DEF TypeOK, SubmitPromotion, StructsOK, ListsOK, TablesOK, KernelOK, ThreadsOK,
         structVars, freeLists, tables, kernelVars

\* Without a victim the migration loop ends.
LEMMA TypeGiveUpDemotion ==
  ASSUME TypeOK, MQ!TypeOK', GiveUpDemotion
  PROVE  TypeOK'
<1>1. PolicyOK'
  BY DEF TypeOK, GiveUpDemotion, PolicyOK, policyVars, LeaveLoop
<1>2. WorkersOK'
  BY DEF TypeOK, GiveUpDemotion, WorkersOK, workVars, MQ!EndLoop, MQ!workerVars, Range, LeaveLoop
<1> QED
  BY <1>1, <1>2
     DEF TypeOK, GiveUpDemotion, StructsOK, ListsOK, TablesOK, KernelOK, ThreadsOK,
         structVars, freeLists, tables, kernelVars, LeaveLoop

\* An exchange names a page to demote; both indices stay in the scores.
LEMMA TypeSubmitExchange ==
  ASSUME TypeOK, MQ!TypeOK', SubmitExchange
  PROVE  TypeOK'
<1>1. PICK k \in promote_idx + 1 .. demote_idx :
         /\ MQ!Enqueue([dram_page |-> scores[k + 1],
                        nvm_page |-> scores[promote_idx + 1],
                        free_page |-> Head(nvm_free_list), need_demotion |-> TRUE])
         /\ demote_idx' = k - 1
  BY DEF SubmitExchange
<1>2. /\ k \in Nat /\ k + 1 \in 1 .. Len(scores) /\ scores \in Seq(Pages)
      /\ promote_idx \in Nat /\ demote_idx \in Int /\ demote_idx < Len(scores)
  BY DEF TypeOK, PolicyOK, SubmitExchange
<1>3. scores[k + 1] \in Pages
  BY <1>2
<1>4. PolicyOK'
  BY <1>1, <1>2 DEF TypeOK, SubmitExchange, PolicyOK
<1>5. WorkersOK'
  BY <1>1, <1>3, EnqueueKeepsWorkersOK DEF TypeOK, SubmitExchange
<1>6. ListsOK'
  BY DEF TypeOK, SubmitExchange, ListsOK
<1> QED
  BY <1>4, <1>5, <1>6
     DEF TypeOK, SubmitExchange, StructsOK, TablesOK, KernelOK, ThreadsOK,
         structVars, tables, kernelVars

\* Posting submission_sem touches only the hand-off.
LEMMA TypePostSubmission ==
  ASSUME TypeOK, MQ!TypeOK', PostSubmission
  PROVE  TypeOK'
<1>1. PolicyOK'
  BY DEF TypeOK, PostSubmission, PolicyOK, policyVars
<1>2. WorkersOK'
  BY DEF TypeOK, PostSubmission, WorkersOK, workVars, MQ!Post, MQ!workerVars, Range
<1> QED
  BY <1>1, <1>2
     DEF TypeOK, PostSubmission, StructsOK, ListsOK, TablesOK, KernelOK, ThreadsOK,
         structVars, freeLists, tables, kernelVars

\* A migration thread that wakes up has no request yet.
LEMMA TypeWakeWorker ==
  ASSUME TypeOK, MQ!TypeOK', NEW w \in Workers, WakeWorker(w)
  PROVE  TypeOK'
<1>1. WorkersOK'
  BY DEF TypeOK, WakeWorker, WorkersOK, workVars, MQ!Wake, MQ!FindEmpty, MQ!TypeOK, Range
<1> QED
  BY <1>1
     DEF TypeOK, WakeWorker, StructsOK, ListsOK, TablesOK, KernelOK, ThreadsOK, PolicyOK,
         structVars, freeLists, tables, kernelVars, policyVars

\* A dequeued request says whether its worker begins with a demotion.
LEMMA TypeTakeRequest ==
  ASSUME TypeOK, MQ!TypeOK', NEW w \in Workers, TakeRequest(w)
  PROVE  TypeOK'
<1> DEFINE r == Head(migration_queue)
<1>1. /\ migration_queue \in Seq(Reqs) /\ migration_queue # <<>> /\ worker_pc[w] = "poll"
      /\ worker_pc \in [Workers -> {"wait", "poll", "work"}]
      /\ worker_req \in [Workers -> Reqs \cup {None}]
      /\ migration_queue' = Tail(migration_queue)
      /\ worker_pc' = [worker_pc EXCEPT ![w] = "work"]
      /\ worker_req' = [worker_req EXCEPT ![w] = r]
      /\ wstep' = [wstep EXCEPT ![w] = IF r.need_demotion THEN "demote" ELSE "promote"]
      /\ UNCHANGED <<old_frame, new_frame>>
  BY DEF TypeOK, TakeRequest, MQ!Dequeue, MQ!TypeOK
<1>2. r \in Range(migration_queue) /\ Range(migration_queue') \subseteq Range(migration_queue)
  BY <1>1 DEF Range
<1>3. r.need_demotion => r.dram_page \in Pages
  BY <1>2 DEF TypeOK, WorkersOK
<1>4. WorkersOK'
  BY <1>1, <1>2, <1>3 DEF TypeOK, WorkersOK
<1> QED
  BY <1>4
     DEF TypeOK, TakeRequest, StructsOK, ListsOK, TablesOK, KernelOK, ThreadsOK, PolicyOK,
         structVars, freeLists, tables, kernelVars, policyVars

\* demote_to_free_nvm_page saves the two frames it is about to exchange.
LEMMA TypeDemoteStart ==
  ASSUME TypeOK, MQ!TypeOK', NEW w \in Workers, DemoteStart(w)
  PROVE  TypeOK'
<1>1. /\ wstep[w] = "demote" /\ worker_pc[w] = "work"
      /\ worker_req[w] \in Reqs /\ worker_req[w].dram_page \in Pages
      /\ worker_req[w].free_page \in Pages
  BY DEF TypeOK, DemoteStart, WorkersOK, MQ!TypeOK, MQ!Busy, Reqs
<1>2. StructsOK'
  BY <1>1 DEF TypeOK, StructsOK, DemoteStart, LockForMigration
<1>3. frame[worker_req[w].dram_page] \in Frames /\ frame[worker_req[w].free_page] \in Frames
  BY <1>1 DEF TypeOK, StructsOK
<1>4. WorkersOK'
  BY <1>1, <1>3 DEF TypeOK, WorkersOK, DemoteStart, LockForMigration, mqVars
<1> QED
  BY <1>2, <1>4
     DEF TypeOK, DemoteStart, LockForMigration, ListsOK, TablesOK, KernelOK, ThreadsOK, PolicyOK,
         freeLists, tables, kernelVars, policyVars, mqVars

\* promote_to_free_dram_page does the same.
LEMMA TypePromoteStart ==
  ASSUME TypeOK, MQ!TypeOK', NEW w \in Workers, PromoteStart(w)
  PROVE  TypeOK'
<1>1. /\ wstep[w] = "promote" /\ worker_pc[w] = "work"
      /\ worker_req[w] \in Reqs /\ worker_req[w].nvm_page \in Pages
      /\ worker_req[w].free_page \in Pages
  BY DEF TypeOK, PromoteStart, WorkersOK, MQ!TypeOK, MQ!Busy, Reqs
<1>2. StructsOK'
  BY <1>1 DEF TypeOK, StructsOK, PromoteStart, LockForMigration
<1>3. frame[worker_req[w].nvm_page] \in Frames /\ frame[worker_req[w].free_page] \in Frames
  BY <1>1 DEF TypeOK, StructsOK
<1>4. WorkersOK'
  BY <1>1, <1>3 DEF TypeOK, WorkersOK, PromoteStart, LockForMigration, mqVars
<1> QED
  BY <1>2, <1>4
     DEF TypeOK, PromoteStart, LockForMigration, ListsOK, TablesOK, KernelOK, ThreadsOK, PolicyOK,
         freeLists, tables, kernelVars, policyVars, mqVars

\* A demotion of a removed page puts the free NVM page back.
LEMMA TypeSkipDemotion ==
  ASSUME TypeOK, MQ!TypeOK', NEW w \in Workers, SkipDemotion(w)
  PROVE  TypeOK'
<1>1. worker_req[w].free_page \in Pages
  BY DEF TypeOK, SkipDemotion, WorkersOK, MQ!TypeOK, MQ!Busy, Reqs
<1>2. ListsOK'
  BY <1>1 DEF TypeOK, ListsOK, SkipDemotion
<1>3. WorkersOK'
  BY FinishKeepsWorkersOK DEF TypeOK, SkipDemotion
<1> QED
  BY <1>2, <1>3
     DEF TypeOK, SkipDemotion, StructsOK, TablesOK, KernelOK, ThreadsOK, PolicyOK,
         structVars, tables, kernelVars, policyVars

\* A promotion of a removed page puts the free DRAM page back.
LEMMA TypeSkipPromotion ==
  ASSUME TypeOK, MQ!TypeOK', NEW w \in Workers, SkipPromotion(w)
  PROVE  TypeOK'
<1>1. worker_req[w].free_page \in Pages
  BY DEF TypeOK, SkipPromotion, WorkersOK, MQ!TypeOK, MQ!Busy, Reqs
<1>2. ListsOK'
  BY <1>1 DEF TypeOK, ListsOK, SkipPromotion
<1>3. WorkersOK'
  BY FinishKeepsWorkersOK DEF TypeOK, SkipPromotion
<1> QED
  BY <1>2, <1>3
     DEF TypeOK, SkipPromotion, StructsOK, TablesOK, KernelOK, ThreadsOK, PolicyOK,
         structVars, tables, kernelVars, policyVars

\* arms_migrate_up and arms_migrate_down map the saved frame of the free page.
LEMMA TypeRemap ==
  ASSUME TypeOK, MQ!TypeOK', NEW w \in Workers, Remap(w)
  PROVE  TypeOK'
<1>1. new_frame[w] \in Frames
  BY DEF TypeOK, WorkersOK, Remap
<1>2. KernelOK'
  BY <1>1 DEF TypeOK, KernelOK, Remap
<1>3. WorkersOK'
  BY DEF TypeOK, WorkersOK, Remap, mqVars
<1> QED
  BY <1>2, <1>3
     DEF TypeOK, Remap, StructsOK, ListsOK, TablesOK, ThreadsOK, PolicyOK,
         structVars, freeLists, tables, policyVars, mqVars

\* The struct of the migrated page gets a frame of a device.
LEMMA TypeCommit ==
  ASSUME TypeOK, MQ!TypeOK', NEW w \in Workers, Commit(w)
  PROVE  TypeOK'
<1>1. new_frame[w] \in Frames
  BY DEF TypeOK, WorkersOK, Commit
<1>2. StructsOK'
  BY <1>1 DEF TypeOK, StructsOK, Commit
<1>3. WorkersOK'
  BY DEF TypeOK, WorkersOK, Commit, mqVars
<1> QED
  BY <1>2, <1>3
     DEF TypeOK, Commit, ListsOK, TablesOK, KernelOK, ThreadsOK, PolicyOK,
         freeLists, tables, kernelVars, policyVars, mqVars

\* The free page takes over the saved frame after a demotion.
LEMMA TypeResetAfterDemotion ==
  ASSUME TypeOK, MQ!TypeOK', NEW w \in Workers, ResetAfterDemotion(w)
  PROVE  TypeOK'
<1>1. old_frame[w] \in Frames
  BY DEF TypeOK, WorkersOK, ResetAfterDemotion
<1>2. StructsOK'
  BY <1>1 DEF TypeOK, StructsOK, ResetAfterDemotion, ResetFree
<1>3. WorkersOK'
  BY DEF TypeOK, WorkersOK, ResetAfterDemotion, mqVars
<1> QED
  BY <1>2, <1>3
     DEF TypeOK, ResetAfterDemotion, ListsOK, TablesOK, KernelOK, ThreadsOK, PolicyOK,
         freeLists, tables, kernelVars, policyVars, mqVars

\* The same after a promotion; the page then goes to the NVM list.
LEMMA TypeResetAfterPromotion ==
  ASSUME TypeOK, MQ!TypeOK', NEW w \in Workers, ResetAfterPromotion(w)
  PROVE  TypeOK'
<1>1. old_frame[w] \in Frames /\ worker_req[w].free_page \in Pages
  BY DEF TypeOK, WorkersOK, ResetAfterPromotion, MQ!TypeOK, MQ!Busy, Reqs
<1>2. StructsOK'
  BY <1>1 DEF TypeOK, StructsOK, ResetAfterPromotion, ResetFree
<1>3. ListsOK'
  BY <1>1 DEF TypeOK, ListsOK, ResetAfterPromotion
<1>4. WorkersOK'
  BY FinishKeepsWorkersOK DEF TypeOK, ResetAfterPromotion
<1> QED
  BY <1>2, <1>3, <1>4
     DEF TypeOK, ResetAfterPromotion, TablesOK, KernelOK, ThreadsOK, PolicyOK,
         tables, kernelVars, policyVars

\* An assertion that fails ends the process and changes nothing else.
LEMMA TypeAssertFails ==
  ASSUME TypeOK, MQ!TypeOK', AssertFails
  PROVE  TypeOK'
BY SizesAssumption, NoneAssumption
   DEF TypeOK, AssertFails, StructsOK, ListsOK, TablesOK, KernelOK, ThreadsOK, PolicyOK, WorkersOK,
       structVars, freeLists, tables, kernelVars, policyVars, workVars, mqVars

------------------------------------------------------------------------------
(* Every step of PageTiering is a step of the hand-off or leaves it alone.  *)

\* The requests the policy thread submits are requests: the indices of the
\* migration loop are inside the scores.
LEMMA SubmittedRequests ==
  ASSUME TypeOK, SubmitPromotion \/ SubmitExchange
  PROVE  \E r \in Reqs : MQ!Enqueue(r)
<1>1. CASE SubmitPromotion
  <2>1. scores[promote_idx + 1] \in Pages /\ np \in Pages
    <3>1. /\ scores \in Seq(Pages) /\ promote_idx \in Nat /\ demote_idx \in Int
          /\ promote_idx < demote_idx /\ demote_idx < Len(scores)
      BY <1>1 DEF TypeOK, PolicyOK, SubmitPromotion
    <3>2. promote_idx + 1 \in 1 .. Len(scores)
      BY <3>1
    <3> QED
      BY <1>1, <3>1, <3>2 DEF TypeOK, PolicyOK, SubmitPromotion
  <2> QED
    BY <1>1, <2>1 DEF SubmitPromotion, Reqs
<1>2. CASE SubmitExchange
  <2>1. PICK k \in promote_idx + 1 .. demote_idx :
           MQ!Enqueue([dram_page |-> scores[k + 1],
                       nvm_page |-> scores[promote_idx + 1],
                       free_page |-> Head(nvm_free_list), need_demotion |-> TRUE])
    BY <1>2 DEF SubmitExchange
  <2>2. /\ scores \in Seq(Pages) /\ promote_idx \in Nat /\ demote_idx \in Int
        /\ promote_idx < demote_idx /\ demote_idx < Len(scores)
    BY <1>2 DEF TypeOK, PolicyOK, SubmitExchange
  <2>3. k + 1 \in 1 .. Len(scores) /\ promote_idx + 1 \in 1 .. Len(scores)
    BY <2>2
  <2>4. scores[k + 1] \in Pages /\ scores[promote_idx + 1] \in Pages
    BY <2>2, <2>3
  <2>5. Head(nvm_free_list) \in Pages
    BY <1>2, HeadTail DEF TypeOK, ListsOK, SubmitExchange
  <2> QED
    BY <2>1, <2>4, <2>5 DEF Reqs
<1> QED
  BY <1>1, <1>2

\* Every step of a thread of arms.c or pebs.c uses migration_queue and the two
\* semaphores as MigrationQueue allows.
LEMMA HandOffStep == TypeOK /\ [Next]_vars => [MQ!Next]_MQ!vars
<1> SUFFICES ASSUME TypeOK, [Next]_vars PROVE [MQ!Next]_MQ!vars
  OBVIOUS
<1>1. CASE UNCHANGED mqVars
  BY <1>1 DEF mqVars, MQ!vars
<1>2. CASE AppNext
  BY <1>1, <1>2 DEF AppNext, MissingFault, Mmap, Munmap
<1>3. ASSUME NEW t \in Threads, AllocateNext(t) PROVE UNCHANGED mqVars
  BY <1>3 DEF AllocateNext, AllocateDram, AllocateNvm, MapFrame, TrackPage, ReportAdd
<1>4. ASSUME NEW a \in Apps, ReleaseNext(a) PROVE UNCHANGED mqVars
  BY <1>4 DEF ReleaseNext, ReportRemoval, ClearPresent, Unmap
<1>5. CASE PolicyNext
  <2>1. CASE WakeUp \/ Drain \/ Choose
    BY <1>1, <2>1 DEF WakeUp, Drain, Choose
  <2>2. CASE Score \/ Collect \/ BeginMigrations \/ PostSubmission
    BY <2>2 DEF Score, Collect, BeginMigrations, PostSubmission, MQ!Next, MQ!PolicyNext
  <2>3. CASE StopMigrations \/ GiveBack \/ GiveUpDemotion
    BY <2>3 DEF StopMigrations, GiveBack, GiveUpDemotion, LeaveLoop, MQ!Next, MQ!PolicyNext
  <2>4. CASE SubmitPromotion \/ SubmitExchange
    BY <2>4, SubmittedRequests DEF MQ!Next, MQ!PolicyNext
  <2> QED
    BY <1>5, <2>1, <2>2, <2>3, <2>4 DEF PolicyNext
<1>6. ASSUME NEW w \in Workers, WorkerNext(w) PROVE [MQ!Next]_MQ!vars
  <2>1. CASE DemoteStart(w) \/ PromoteStart(w) \/ Remap(w) \/ Commit(w) \/ ResetAfterDemotion(w)
    BY <1>1, <2>1
       DEF DemoteStart, PromoteStart, LockForMigration, Remap, Commit, ResetAfterDemotion
  <2>2. CASE WakeWorker(w) \/ TakeRequest(w)
    BY <2>2 DEF WakeWorker, TakeRequest, MQ!Next, MQ!WorkerNext
  <2>3. CASE SkipDemotion(w) \/ SkipPromotion(w) \/ ResetAfterPromotion(w)
    BY <2>3
       DEF SkipDemotion, SkipPromotion, ResetAfterPromotion, FinishRequest, MQ!Next,
           MQ!WorkerNext
  <2> QED
    BY <1>6, <2>1, <2>2, <2>3 DEF WorkerNext
<1>7. CASE AssertFails
  BY <1>1, <1>7 DEF AssertFails
<1>8. CASE UNCHANGED vars
  BY <1>1, <1>8 DEF vars, mqVars
<1> QED
  BY <1>1, <1>2, <1>3, <1>4, <1>5, <1>6, <1>7, <1>8 DEF Next

------------------------------------------------------------------------------
(* The theorems.                                                           *)

\* pebs_init: the structs stand for the frames of the two devices.
LEMMA TypeInit == Init => TypeOK
<1> SUFFICES ASSUME Init PROVE TypeOK
  OBVIOUS
<1> USE SizesAssumption, NoneAssumption
<1>1. StructsOK
  <2>1. ASSUME NEW p \in Pages PROVE frame[p] \in Frames
    <3>1. CASE p <= NDram
      <4>1. p - 1 \in 0 .. NDram - 1
        BY <3>1 DEF Pages
      <4> QED
        BY <3>1, <4>1 DEF Init, Frames
    <3>2. CASE ~(p <= NDram)
      <4>1. p - NDram - 1 \in 0 .. NNvm - 1
        BY <3>2 DEF Pages
      <4> QED
        BY <3>2, <4>1 DEF Init, Frames
    <3> QED
      BY <3>1, <3>2
  <2>2. frame \in [Pages -> Frames]
    BY <2>1 DEF Init
  <2> QED
    BY <2>2 DEF Init, StructsOK
<1>2. ListsOK
  BY DEF Init, ListsOK, Pages
<1>3. TablesOK /\ KernelOK
  BY DEF Init, TablesOK, KernelOK
<1>4. ThreadsOK
  BY DEF Init, ThreadsOK, IdleThread
<1>5. PolicyOK
  BY DEF Init, PolicyOK
<1>6. MQ!TypeOK
  BY DEF Init, MQ!Init, MQ!TypeOK, MQ!Busy
<1>7. WorkersOK
  BY DEF Init, WorkersOK, MQ!Init, Range
<1> QED
  BY <1>1, <1>2, <1>3, <1>4, <1>5, <1>6, <1>7 DEF Init, TypeOK

\* Every step keeps the types.
LEMMA TypeStep == TypeOK /\ [Next]_vars => TypeOK'
<1> SUFFICES ASSUME TypeOK, [Next]_vars PROVE TypeOK'
  OBVIOUS
<1>0. MQ!TypeOK'
  BY HandOffStep, HandOffTypes DEF TypeOK
<1>1. CASE AppNext
  BY <1>0, <1>1, TypeMissingFault, TypeMmap, TypeMunmap DEF AppNext
<1>2. ASSUME NEW t \in Threads, AllocateNext(t) PROVE TypeOK'
  BY <1>0, <1>2, TypeAllocateDram, TypeAllocateNvm, TypeMapFrame, TypeTrackPage,
     TypeReportAdd DEF AllocateNext
<1>3. ASSUME NEW a \in Apps, ReleaseNext(a) PROVE TypeOK'
  BY <1>0, <1>3, TypeReportRemoval, TypeClearPresent, TypeUnmap DEF ReleaseNext
<1>4. CASE PolicyNext
  BY <1>0, <1>4, TypeWakeUp, TypeDrain, TypeScore, TypeCollect, TypeBeginMigrations,
     TypeStopMigrations, TypeChoose, TypeGiveBack, TypeSubmitPromotion,
     TypeGiveUpDemotion, TypeSubmitExchange, TypePostSubmission DEF PolicyNext
<1>5. ASSUME NEW w \in Workers, WorkerNext(w) PROVE TypeOK'
  BY <1>0, <1>5, TypeWakeWorker, TypeTakeRequest, TypeDemoteStart, TypePromoteStart,
     TypeSkipDemotion, TypeSkipPromotion, TypeRemap, TypeCommit,
     TypeResetAfterDemotion, TypeResetAfterPromotion DEF WorkerNext
<1>6. CASE AssertFails
  BY <1>0, <1>6, TypeAssertFails
<1>7. CASE UNCHANGED vars
  BY <1>0, <1>7 DEF TypeOK, StructsOK, ListsOK, TablesOK, KernelOK, ThreadsOK, PolicyOK,
     WorkersOK, vars, structVars, freeLists, tables, kernelVars, policyVars, workVars, mqVars
<1> QED
  BY <1>1, <1>2, <1>3, <1>4, <1>5, <1>6, <1>7 DEF Next

\* Whatever is mapped, unmapped and migrated in whatever order, no thread
\* works with a NULL page, a frame outside the devices or an index outside
\* the scores (arms.c, pebs.c: what the assert(page != NULL) and the offset
\* checks of arms_migrate_up and arms_migrate_down are about).
THEOREM TypeCorrect == SafeSpec => []TypeOK
BY TypeInit, TypeStep, PTL DEF SafeSpec

\* The policy thread and the migration threads use the list and the
\* semaphores exactly as MigrationQueue specifies.
THEOREM UsesMigrationQueue == SafeSpec => MQ!SafeSpec
<1>1. Init => MQ!Init
  BY DEF Init
<1> QED
  BY <1>1, HandOffStep, TypeCorrect, PTL DEF SafeSpec, MQ!SafeSpec

\* The invariant of the hand-off, from the theorems of MigrationQueueProofs.
HandOffInv == MQ!TypeOK /\ MQ!JobsConserved /\ MQ!RequestsDistinct

\* The hand-off starts with nothing outstanding.
LEMMA HandOffInvInit == Init => HandOffInv
<1>1. MQ!Init => MQP!Init
  BY DEF MQ!Init, MQP!Init
<1> QED
  BY <1>1, HandOffAssumptions, MQP!IInvInit, SameInvariant DEF Init, HandOffInv

\* Every step of the hand-off keeps its invariant.
LEMMA HandOffInvStep == HandOffInv /\ [MQ!Next]_MQ!vars => HandOffInv'
<1>1. MQP!IInv' <=> HandOffInv'
  BY DEF HandOffInv, MQP!IInv, MQP!TypeOK, MQ!TypeOK, MQP!JobsConserved, MQ!JobsConserved,
         MQP!RequestsDistinct, MQ!RequestsDistinct, MQP!Cardinality, MQ!Cardinality,
         MQ!Busy, MQP!Busy, MQ!Queued, MQP!Queued, MQ!Held, MQP!Held
<1> QED
  BY <1>1, HandOffAssumptions, MQP!IInvStep, SameStep, SameInvariant DEF HandOffInv

\* Also with pages that come and go: a request is with one worker or on the
\* list once, and the policy thread's count of outstanding jobs is right.
THEOREM HandOffHolds == SafeSpec => [](MQ!JobsConserved /\ MQ!RequestsDistinct)
<1>1. HandOffInv => MQ!JobsConserved /\ MQ!RequestsDistinct
  BY DEF HandOffInv
<1> QED
  BY <1>1, HandOffInvInit, HandOffInvStep, HandOffStep, TypeCorrect, PTL DEF SafeSpec

------------------------------------------------------------------------------
(* The inductive invariant, part by part.                                  *)

\* The requests not yet executed, the threads at some places of their code and
\* the pages they have there, the removals that wait for the policy thread.
Outstanding == MQ!Queued \cup MQ!Held
Inside(S) == {t \in Threads : thread[t].pc \in S}
PagesInside(S) == {thread[t].page : t \in Inside(S)}
Allocating == {"map", "track"}
Removing == {"remove"}
RemovedAt == {i \in DOMAIN mod_page_dq : mod_page_dq[i].free}

Kinds == {"dram", "nvm", "policy", "request", "allocating", "tracked", "removing",
          "removed"}
Holding ==
    [dram |-> Range(dram_free_list), nvm |-> Range(nvm_free_list),
     policy |-> {np} \ {None}, request |-> {r.free_page : r \in Outstanding},
     allocating |-> PagesInside(Allocating),
     tracked |-> Range(pages) \ {None},
     removing |-> PagesInside(Removing),
     removed |-> {mod_page_dq[i].page : i \in RemovedAt}]

\* Every struct has one kind of owner ...
Accounted == \A p \in Pages : \E k \in Kinds : \A j \in Kinds : p \in Holding[j] <=> j = k

\* ... and that owner has it once.
NoRepeats(s) == \A i, j \in DOMAIN s : s[i] = s[j] => i = j
OneInside(S) == \A t, u \in Inside(S) : thread[t].page = thread[u].page => t = u
RequestsOnce == \A r, q \in Outstanding : r.free_page = q.free_page => r = q
RemovedOnce == \A i, j \in RemovedAt : mod_page_dq[i].page = mod_page_dq[j].page => i = j
Once == /\ NoRepeats(dram_free_list) /\ NoRepeats(nvm_free_list)
        /\ OneInside(Allocating) /\ OneInside(Removing)
        /\ RequestsOnce /\ RemovedOnce

\* One thread works on an address, and the region says which kind it is.
Leaving == {"remove", "absent", "unmap"}
ThreadPlaces ==
    /\ \A t \in Threads : thread[t].pc = "idle" => thread[t].v = None
    /\ thread[FaultThread].pc \notin Leaving
    /\ thread[FaultThread].v # None => region[thread[FaultThread].v] = "ready"
    /\ \A a \in Apps : thread[a].v # None =>
          region[thread[a].v] = IF thread[a].pc \in Leaving THEN "unmapping" ELSE "mapping"
    /\ \A t, u \in Threads : thread[t].v # None /\ thread[t].v = thread[u].v => t = u

\* A struct has the address it is tracked under, also while its addition is
\* about to be reported and until its removal has been.
TablePlaces ==
    /\ \A v \in VAs : pages[v] # None => va[pages[v]] = v
    /\ \A t \in Threads : thread[t].pc = "report" => pages[thread[t].v] = thread[t].page
    /\ \A t \in Threads : thread[t].pc = "remove" =>
          pages[thread[t].v] = None /\ va[thread[t].page] = thread[t].v

\* What pages_map[v] will be after the first n entries of mod_page_dq: what
\* the last of them about v makes it, or what it is now.
About(i, v) == va[mod_page_dq[i].page] = v
Result(i) == IF mod_page_dq[i].free THEN None ELSE mod_page_dq[i].page
Shows(v, n, p) ==
    \/ (\A i \in 1 .. n : ~About(i, v)) /\ pages_map[v] = p
    \/ \E i \in 1 .. n : /\ About(i, v) /\ \A j \in i + 1 .. n : ~About(j, v)
                         /\ p = Result(i)

\* The entries about an address alternate: an addition finds no page in
\* pages_map and a removal the page it removes; and after all of them
\* pages_map is the table, but for what a thread is about to report.
EntriesAlternate ==
    \A n \in DOMAIN mod_page_dq : LET e == mod_page_dq[n] IN
        va[e.page] \in VAs /\ Shows(va[e.page], n - 1, IF e.free THEN e.page ELSE None)
Reporting(v) == \E t \in Threads : thread[t].v = v /\ thread[t].pc \in {"report", "remove"}
EntriesComplete ==
    /\ \A v \in VAs : ~Reporting(v) => Shows(v, Len(mod_page_dq), pages[v])
    /\ \A t \in Threads : thread[t].pc = "report" => Shows(thread[t].v, Len(mod_page_dq), None)
    /\ \A t \in Threads : thread[t].pc = "remove" =>
          Shows(thread[t].v, Len(mod_page_dq), thread[t].page)

\* A struct whose addition waits in mod_page_dq has not been given back: it is
\* tracked, or its removal comes later in the queue.
AdditionsFirst ==
    \A i \in DOMAIN mod_page_dq : LET p == mod_page_dq[i].page IN
        ~mod_page_dq[i].free =>
            \/ p \in Holding.tracked \cup Holding.removing
            \/ \E j \in RemovedAt : i < j /\ mod_page_dq[j].page = p

\* The pages the policy thread has scored cannot get to a free list before it
\* drains again; what it has submitted lies outside promote_idx .. demote_idx.
Known == Holding.tracked \cup Holding.removing \cup Holding.removed
ScoresKnown ==
    step \in {"collect", "choose", "promote", "demote", "post"} =>
        NoRepeats(scores) /\ Range(scores) \subseteq Known
SubmittedOutside ==
    step \in {"choose", "promote", "demote", "post"} => \A r \in Outstanding :
        /\ \E i \in 1 .. promote_idx : i \in DOMAIN scores /\ r.nvm_page = scores[i]
        /\ r.dram_page # None => \E i \in DOMAIN scores : demote_idx + 2 <= i /\ r.dram_page = scores[i]

\* Requests and the pages they name.
RequestsApart ==
    /\ \A r \in Outstanding : /\ r.need_demotion <=> r.dram_page # None
                              /\ r.nvm_page # r.free_page
                              /\ r.dram_page # r.nvm_page /\ r.dram_page # r.free_page
    /\ \A r, q \in Outstanding : r # q => Involved(r) \cap Involved(q) = {}

\* The frames a worker has saved are those of the page it moves and of the
\* free page, until the move is committed.
FramesSaved ==
    \A w \in Workers : wstep[w] \in {"map_down", "commit_down", "map_up", "commit_up"} =>
        frame[Moving(w)] = old_frame[w] /\ frame[worker_req[w].free_page] = new_frame[w]

\* The structs stand for different frames, and for all of them.
OneStructEach ==
    /\ \A p, q \in Pages : Stands(p) = Stands(q) => p = q
    /\ \A f \in Frames : \E p \in Pages : Stands(p) = f

OwnInv == /\ TypeOK /\ HandOffInv
          /\ Accounted /\ Once
          /\ ThreadPlaces /\ TablePlaces
          /\ EntriesAlternate /\ EntriesComplete /\ AdditionsFirst
          /\ ScoresKnown /\ SubmittedOutside /\ RequestsApart
          /\ FramesSaved /\ OneStructEach

------------------------------------------------------------------------------
(* Facts about lists and about Holding.                                    *)

\* The entries of a queue.
LEMMA ElementOf ==
  ASSUME NEW E, NEW s \in Seq(E)
  PROVE  \A i \in DOMAIN s : s[i] \in E
OBVIOUS

\* A queue without its oldest entry.
LEMMA TailFacts ==
  ASSUME NEW E, NEW s \in Seq(E), s # <<>>
  PROVE  /\ Len(s) \in Nat \ {0} /\ Len(Tail(s)) = Len(s) - 1
         /\ DOMAIN s = 1 .. Len(s) /\ DOMAIN Tail(s) = 1 .. Len(s) - 1
         /\ \A i \in 1 .. Len(s) - 1 : Tail(s)[i] = s[i + 1]
         /\ Head(s) = s[1] /\ s[1] \in E
OBVIOUS

\* Taking the oldest entry of a list without repetitions takes that struct.
LEMMA TailRange ==
  ASSUME NEW E, NEW s \in Seq(E), s # <<>>, NoRepeats(s)
  PROVE  /\ NoRepeats(Tail(s)) /\ Head(s) \in Range(s)
         /\ Range(Tail(s)) = Range(s) \ {Head(s)}
<1>1. /\ DOMAIN s = 1 .. Len(s) /\ Len(s) \in Nat /\ 1 \in DOMAIN s /\ Head(s) = s[1]
      /\ DOMAIN Tail(s) = 1 .. Len(s) - 1
      /\ \A i \in 1 .. Len(s) - 1 : Tail(s)[i] = s[i + 1]
  OBVIOUS
<1>2. NoRepeats(Tail(s))
  <2> SUFFICES ASSUME NEW i \in 1 .. Len(s) - 1, NEW j \in 1 .. Len(s) - 1,
                      Tail(s)[i] = Tail(s)[j]
               PROVE  i = j
    BY <1>1 DEF NoRepeats
  <2>1. s[i + 1] = s[j + 1] /\ i + 1 \in DOMAIN s /\ j + 1 \in DOMAIN s
    BY <1>1
  <2>2. i + 1 = j + 1
    BY <2>1 DEF NoRepeats
  <2> QED
    BY <2>2
<1>3. ASSUME NEW x \in Range(Tail(s)) PROVE x \in Range(s) \ {Head(s)}
  <2>1. PICK i \in 1 .. Len(s) - 1 : x = s[i + 1]
    BY <1>1 DEF Range
  <2>2. i + 1 \in DOMAIN s /\ i + 1 # 1
    BY <1>1
  <2> QED
    BY <1>1, <2>1, <2>2 DEF Range, NoRepeats
<1>4. ASSUME NEW x \in Range(s) \ {Head(s)} PROVE x \in Range(Tail(s))
  <2>1. PICK i \in DOMAIN s : x = s[i]
    BY DEF Range
  <2>2. i # 1
    BY <1>1, <2>1
  <2>3. i - 1 \in 1 .. Len(s) - 1 /\ (i - 1) + 1 = i
    BY <1>1, <2>2
  <2>4. Tail(s)[i - 1] = x /\ i - 1 \in DOMAIN Tail(s)
    BY <1>1, <2>1, <2>3
  <2> QED
    BY <2>4 DEF Range
<1> QED
  BY <1>1, <1>2, <1>3, <1>4 DEF Range

\* A struct put on a list is on it; once, if it was not.
LEMMA AppendRange ==
  ASSUME NEW E, NEW s \in Seq(E), NEW e
  PROVE  /\ Range(Append(s, e)) = Range(s) \cup {e}
         /\ NoRepeats(s) /\ e \notin Range(s) => NoRepeats(Append(s, e))
<1>1. /\ DOMAIN s = 1 .. Len(s) /\ Len(s) \in Nat
      /\ DOMAIN Append(s, e) = DOMAIN s \cup {Len(s) + 1}
      /\ \A i \in DOMAIN s : Append(s, e)[i] = s[i]
      /\ Append(s, e)[Len(s) + 1] = e
  OBVIOUS
<1>2. Range(Append(s, e)) = Range(s) \cup {e}
  BY <1>1 DEF Range
<1>3. NoRepeats(s) /\ e \notin Range(s) => NoRepeats(Append(s, e))
  BY <1>1 DEF NoRepeats, Range
<1> QED
  BY <1>2, <1>3

\* A struct with one kind of owner has no other.
LEMMA OneOwner ==
  ASSUME Accounted, NEW p \in Pages, NEW j \in Kinds, NEW k \in Kinds,
         p \in Holding[j], p \in Holding[k]
  PROVE  j = k
BY DEF Accounted

\* What Holding says of each kind of owner.
LEMMA HoldingOf ==
  /\ Holding["dram"] = Range(dram_free_list) /\ Holding["nvm"] = Range(nvm_free_list)
  /\ Holding["policy"] = {np} \ {None}
  /\ Holding["request"] = {r.free_page : r \in Outstanding}
  /\ Holding["allocating"] = PagesInside(Allocating)
  /\ Holding["tracked"] = Range(pages) \ {None}
  /\ Holding["removing"] = PagesInside(Removing)
  /\ Holding["removed"] = {mod_page_dq[i].page : i \in RemovedAt}
BY DEF Holding

\* A kind of owner keeps what it has if its list, table or threads do.
LEMMA HoldingSame ==
  /\ UNCHANGED dram_free_list => Holding'["dram"] = Holding["dram"]
  /\ UNCHANGED nvm_free_list => Holding'["nvm"] = Holding["nvm"]
  /\ UNCHANGED np => Holding'["policy"] = Holding["policy"]
  /\ UNCHANGED Outstanding => Holding'["request"] = Holding["request"]
  /\ UNCHANGED PagesInside(Allocating) => Holding'["allocating"] = Holding["allocating"]
  /\ UNCHANGED pages => Holding'["tracked"] = Holding["tracked"]
  /\ UNCHANGED PagesInside(Removing) => Holding'["removing"] = Holding["removing"]
  /\ UNCHANGED mod_page_dq => Holding'["removed"] = Holding["removed"]
<1>1. UNCHANGED mod_page_dq => UNCHANGED RemovedAt
  BY DEF RemovedAt
<1> QED
  BY <1>1 DEF Holding

\* One struct changes its owner, and had no place with the new one.
LEMMA OwnerChanges ==
  ASSUME Accounted, NEW p \in Pages, NEW a \in Kinds, NEW b \in Kinds, a # b,
         p \in Holding[a],
         Holding'[a] = Holding[a] \ {p}, Holding'[b] = Holding[b] \cup {p},
         \A k \in Kinds \ {a, b} : Holding'[k] = Holding[k]
  PROVE  Accounted'
<1>1. ASSUME NEW q \in Pages PROVE \E k \in Kinds : \A j \in Kinds : q \in Holding'[j] <=> j = k
  <2>1. PICK k \in Kinds : \A j \in Kinds : q \in Holding[j] <=> j = k
    BY DEF Accounted
  <2>2. CASE q = p
    BY <2>1, <2>2
  <2>3. CASE q # p
    BY <2>1, <2>3
  <2> QED
    BY <2>2, <2>3
<1> QED
  BY <1>1 DEF Accounted

\* Nobody changes hands.
LEMMA OwnersStay ==
  ASSUME Accounted, \A k \in Kinds : Holding'[k] = Holding[k]
  PROVE  Accounted'
BY DEF Accounted

\* A thread that goes on: which pages are inside some places afterwards.
LEMMA GotoInside ==
  ASSUME ThreadsOK, NEW t \in Threads, NEW pc, NEW v, NEW p, Goto(t, pc, v, p),
         NEW S, OneInside(S), pc \in S /\ thread[t].pc \notin S => p \notin PagesInside(S),
         pc \in S /\ thread[t].pc \in S => p = thread[t].page
  PROVE  /\ OneInside(S)'
         /\ PagesInside(S)' = IF pc \in S THEN PagesInside(S) \cup {p}
                              ELSE IF thread[t].pc \in S THEN PagesInside(S) \ {thread[t].page}
                              ELSE PagesInside(S)
<1>1. /\ thread'[t] = [pc |-> pc, v |-> v, page |-> p]
      /\ \A u \in Threads \ {t} : thread'[u] = thread[u]
  BY DEF Goto, ThreadsOK
<1>2. Inside(S)' = IF pc \in S THEN Inside(S) \cup {t} ELSE Inside(S) \ {t}
  BY <1>1 DEF Inside
<1>3. OneInside(S)'
  BY <1>1, <1>2 DEF OneInside, Inside, PagesInside
<1>4. CASE pc \in S
  BY <1>1, <1>2, <1>4 DEF OneInside, Inside, PagesInside
<1>5. CASE pc \notin S /\ thread[t].pc \in S
  <2>1. t \in Inside(S) /\ Inside(S)' = Inside(S) \ {t}
    BY <1>2, <1>5 DEF Inside
  <2>2. \A u \in Inside(S) \ {t} : thread[u].page # thread[t].page /\ thread'[u] = thread[u]
    BY <1>1, <2>1 DEF OneInside, Inside
  <2>3. ASSUME NEW x \in PagesInside(S)' PROVE x \in PagesInside(S) \ {thread[t].page}
    BY <2>1, <2>2 DEF PagesInside
  <2>4. ASSUME NEW x \in PagesInside(S) \ {thread[t].page} PROVE x \in PagesInside(S)'
    BY <2>1, <2>2 DEF PagesInside
  <2> QED
    BY <1>3, <1>5, <2>3, <2>4
<1>6. CASE pc \notin S /\ thread[t].pc \notin S
  <2>1. t \notin Inside(S) /\ Inside(S)' = Inside(S)
    BY <1>2, <1>6 DEF Inside
  <2>2. \A u \in Inside(S) : thread'[u] = thread[u]
    BY <1>1, <2>1 DEF Inside
  <2> QED
    BY <1>3, <1>6, <2>1, <2>2 DEF PagesInside
<1> QED
  BY <1>3, <1>4, <1>5, <1>6

\* What threads hold stays when thread does.
LEMMA ThreadsStay ==
  ASSUME UNCHANGED thread, NEW S
  PROVE  PagesInside(S)' = PagesInside(S) /\ (OneInside(S) => OneInside(S)')
BY DEF PagesInside, OneInside, Inside

\* A removal pushed to mod_page_dq is one more, an addition none.
LEMMA RemovedAppend ==
  ASSUME TablesOK, NEW p \in Pages, NEW f \in BOOLEAN,
         mod_page_dq' = Append(mod_page_dq, [page |-> p, free |-> f])
  PROVE  LET n == Len(mod_page_dq) + 1 IN
         /\ n \notin DOMAIN mod_page_dq /\ mod_page_dq'[n] = [page |-> p, free |-> f]
         /\ \A i \in DOMAIN mod_page_dq : mod_page_dq'[i] = mod_page_dq[i]
         /\ DOMAIN mod_page_dq' = DOMAIN mod_page_dq \cup {n}
         /\ RemovedAt' = IF f THEN RemovedAt \cup {n} ELSE RemovedAt
<1>1. mod_page_dq \in Seq([page : Pages, free : BOOLEAN])
  BY DEF TablesOK
<1>2. LET n == Len(mod_page_dq) + 1 IN
         /\ n \notin DOMAIN mod_page_dq /\ mod_page_dq'[n] = [page |-> p, free |-> f]
         /\ \A i \in DOMAIN mod_page_dq : mod_page_dq'[i] = mod_page_dq[i]
         /\ DOMAIN mod_page_dq' = DOMAIN mod_page_dq \cup {n}
  BY <1>1
<1> QED
  BY <1>2 DEF RemovedAt

\* The queue after its head has been taken.
LEMMA RemovedTail ==
  ASSUME TablesOK, mod_page_dq # <<>>, mod_page_dq' = Tail(mod_page_dq)
  PROVE  /\ Len(mod_page_dq) \in Nat \ {0} /\ Len(mod_page_dq') = Len(mod_page_dq) - 1
         /\ DOMAIN mod_page_dq = 1 .. Len(mod_page_dq)
         /\ DOMAIN mod_page_dq' = 1 .. Len(mod_page_dq) - 1
         /\ \A i \in 1 .. Len(mod_page_dq) - 1 : mod_page_dq'[i] = mod_page_dq[i + 1]
         /\ Head(mod_page_dq) = mod_page_dq[1]
         /\ mod_page_dq[1].page \in Pages /\ mod_page_dq[1].free \in BOOLEAN
         /\ \A i \in RemovedAt' : i + 1 \in RemovedAt
         /\ \A i \in RemovedAt \ {1} : i - 1 \in RemovedAt'
<1>1. mod_page_dq \in Seq([page : Pages, free : BOOLEAN])
  BY DEF TablesOK
<1>2. /\ Len(mod_page_dq) \in Nat \ {0} /\ Len(mod_page_dq') = Len(mod_page_dq) - 1
      /\ DOMAIN mod_page_dq = 1 .. Len(mod_page_dq)
      /\ DOMAIN mod_page_dq' = 1 .. Len(mod_page_dq) - 1
      /\ \A i \in 1 .. Len(mod_page_dq) - 1 : mod_page_dq'[i] = mod_page_dq[i + 1]
      /\ Head(mod_page_dq) = mod_page_dq[1] /\ mod_page_dq[1] \in [page : Pages, free : BOOLEAN]
  BY <1>1, TailFacts
<1>3. ASSUME NEW i \in RemovedAt' PROVE i + 1 \in RemovedAt
  <2>1. i \in 1 .. Len(mod_page_dq) - 1 /\ mod_page_dq[i + 1].free
    BY <1>2 DEF RemovedAt
  <2> QED
    BY <1>2, <2>1 DEF RemovedAt
<1>4. ASSUME NEW i \in RemovedAt \ {1} PROVE i - 1 \in RemovedAt'
  <2>1. i \in 1 .. Len(mod_page_dq) /\ i # 1 /\ mod_page_dq[i].free
    BY <1>2 DEF RemovedAt
  <2>2. i - 1 \in 1 .. Len(mod_page_dq) - 1 /\ (i - 1) + 1 = i
    BY <1>2, <2>1
  <2> QED
    BY <1>2, <2>1, <2>2 DEF RemovedAt
<1> QED
  BY <1>2, <1>3, <1>4

------------------------------------------------------------------------------
(* What a step does to the outstanding requests and to the table.          *)

\* The instances of the hand-off name the same sets.
LEMMA SameSets == /\ MQP!Queued = MQ!Queued /\ MQP!Held = MQ!Held /\ MQP!Busy = MQ!Busy
                  /\ MQP!Queued' = MQ!Queued' /\ MQP!Held' = MQ!Held' /\ MQP!Busy' = MQ!Busy'
BY DEF MQP!Queued, MQ!Queued, MQP!Held, MQ!Held, MQP!Busy, MQ!Busy

\* An outstanding request is a request, and each worker that executes one has
\* its own.
LEMMA OutstandingReqs ==
  ASSUME HandOffInv
  PROVE  /\ Outstanding \subseteq Reqs
         /\ \A w \in Workers : worker_pc[w] = "work" => worker_req[w] \in Outstanding
         /\ \A w, u \in Workers :
               worker_pc[w] = "work" /\ worker_pc[u] = "work" /\ worker_req[w] = worker_req[u]
                  => w = u
<1>1. /\ migration_queue \in Seq(Reqs)
      /\ \A w \in MQ!Busy : worker_req[w] \in Reqs
      /\ \A w, u \in MQ!Busy : worker_req[w] = worker_req[u] => w = u
  BY DEF HandOffInv, MQ!TypeOK, MQ!RequestsDistinct, MQ!Busy
<1>2. \A i \in DOMAIN migration_queue : migration_queue[i] \in Reqs
  BY <1>1
<1>3. Outstanding \subseteq Reqs
  BY <1>1, <1>2 DEF Outstanding, MQ!Queued, MQ!Held
<1>4. \A w \in Workers : worker_pc[w] = "work" <=> w \in MQ!Busy
  BY DEF MQ!Busy
<1>5. \A w \in MQ!Busy : worker_req[w] \in Outstanding
  BY DEF Outstanding, MQ!Held
<1> QED
  BY <1>1, <1>3, <1>4, <1>5

\* A step that touches neither the list nor the requests of workers.
LEMMA OutstandingSame ==
  ASSUME UNCHANGED <<migration_queue, worker_pc, worker_req>>
  PROVE  Outstanding' = Outstanding
BY DEF Outstanding, MQ!Queued, MQ!Held, MQ!Busy

\* A worker that wakes up or goes back to sleep has no request.
LEMMA OutstandingWake ==
  ASSUME MQ!TypeOK, NEW w \in Workers, MQ!Wake(w) \/ MQ!FindEmpty(w)
  PROVE  Outstanding' = Outstanding
<1>1. MQ!Busy' = MQ!Busy /\ UNCHANGED <<migration_queue, worker_req>>
  BY DEF MQ!Wake, MQ!FindEmpty, MQ!TypeOK, MQ!Busy
<1> QED
  BY <1>1 DEF Outstanding, MQ!Queued, MQ!Held

\* A worker that takes a request from the list: it stays outstanding.
LEMMA OutstandingDequeue ==
  ASSUME HandOffInv, NEW w \in Workers, MQ!Dequeue(w)
  PROVE  /\ Outstanding' = Outstanding /\ worker_pc[w] # "work" /\ worker_pc'[w] = "work"
         /\ worker_req'[w] = Head(migration_queue)
         /\ Head(migration_queue) \in Outstanding
         /\ \A u \in Workers \ {w} : worker_req'[u] = worker_req[u] /\ worker_pc'[u] = worker_pc[u]
<1>1. MQP!Dequeue(w) /\ MQP!IInv
  BY SameInvariant DEF MQ!Dequeue, MQP!Dequeue, MQ!policyVars, MQP!policyVars, HandOffInv
<1>2. LET r == Head(migration_queue) IN
      /\ r \in MQ!Queued /\ MQ!Queued' = MQ!Queued \ {r} /\ MQ!Held' = MQ!Held \cup {r}
  BY <1>1, HandOffAssumptions, MQP!DequeueSets, SameSets
<1> QED
  BY <1>2 DEF Outstanding, MQ!Dequeue, HandOffInv, MQ!TypeOK

\* A new request is one more.
LEMMA OutstandingEnqueue ==
  ASSUME HandOffInv, NEW r \in Reqs, MQ!Enqueue(r)
  PROVE  /\ Outstanding' = Outstanding \cup {r} /\ r \notin Outstanding
         /\ UNCHANGED <<worker_pc, worker_req>>
<1>1. MQP!Enqueue(r) /\ MQP!TypeOK
  BY SameTypes DEF MQ!Enqueue, MQP!Enqueue, MQ!workerVars, MQP!workerVars, HandOffInv,
                   MQ!Queued, MQP!Queued, MQ!Held, MQP!Held, MQ!Busy, MQP!Busy
<1>2. MQ!Queued' = MQ!Queued \cup {r} /\ MQ!Held' = MQ!Held
  BY <1>1, HandOffAssumptions, MQP!EnqueueSets, SameSets
<1> QED
  BY <1>2 DEF Outstanding, MQ!Enqueue, MQ!workerVars

\* A finished request is one less.
LEMMA OutstandingComplete ==
  ASSUME HandOffInv, NEW w \in Workers, MQ!Complete(w)
  PROVE  /\ Outstanding' = Outstanding \ {worker_req[w]} /\ worker_req[w] \in Outstanding
         /\ worker_pc[w] = "work" /\ worker_pc'[w] = "poll"
         /\ \A u \in Workers \ {w} : worker_req'[u] = worker_req[u] /\ worker_pc'[u] = worker_pc[u]
<1>1. MQP!Complete(w) /\ MQP!IInv
  BY SameInvariant DEF MQ!Complete, MQP!Complete, MQ!policyVars, MQP!policyVars, HandOffInv
<1>2. /\ worker_req[w] \in MQ!Held /\ MQ!Queued' = MQ!Queued
      /\ MQ!Held' = MQ!Held \ {worker_req[w]}
  BY <1>1, HandOffAssumptions, MQP!CompleteSets, SameSets
<1>3. worker_req[w] \notin MQ!Queued
  BY <1>2 DEF HandOffInv, MQ!RequestsDistinct
<1> QED
  BY <1>2, <1>3 DEF Outstanding, MQ!Complete, HandOffInv, MQ!TypeOK

\* The free pages of the outstanding requests, one request each.
LEMMA RequestAdded ==
  ASSUME Once, NEW r, Outstanding' = Outstanding \cup {r}, r.free_page \notin Holding["request"]
  PROVE  /\ Holding'["request"] = Holding["request"] \cup {r.free_page}
         /\ RequestsOnce'
<1>1. \A q \in Outstanding : q.free_page # r.free_page
  BY HoldingOf
<1> QED
  BY <1>1 DEF Holding, Once, RequestsOnce

\* ... and gives it up when it is done.
LEMMA RequestDone ==
  ASSUME Once, NEW r \in Outstanding, Outstanding' = Outstanding \ {r}
  PROVE  /\ Holding'["request"] = Holding["request"] \ {r.free_page}
         /\ RequestsOnce'
<1>1. \A q \in Outstanding \ {r} : q.free_page # r.free_page
  BY DEF Once, RequestsOnce
<1>2. {q.free_page : q \in Outstanding \ {r}} = {q.free_page : q \in Outstanding} \ {r.free_page}
  BY <1>1
<1> QED
  BY <1>2 DEF Holding, Once, RequestsOnce

\* The table of tracked pages.
LEMMA TrackedAdded ==
  ASSUME TablesOK, NEW v \in VAs, NEW p \in Pages, pages[v] = None,
         pages' = [pages EXCEPT ![v] = p]
  PROVE  Range(pages') \ {None} = (Range(pages) \ {None}) \cup {p}
<1>1. None \notin Pages
  BY NoneAssumption
<1>2. /\ DOMAIN pages = VAs /\ DOMAIN pages' = VAs /\ pages'[v] = p
      /\ \A u \in VAs \ {v} : pages'[u] = pages[u]
  BY DEF TablesOK
<1> QED
  BY <1>1, <1>2 DEF Range

\* ... and leaves it when munmap takes it out.
LEMMA TrackedRemoved ==
  ASSUME TablesOK, TablePlaces, NEW v \in VAs, pages' = [pages EXCEPT ![v] = None]
  PROVE  Range(pages') \ {None} = (Range(pages) \ {None}) \ {pages[v]}
<1>1. \A u \in VAs \ {v} : pages[u] # None => pages[u] # pages[v]
  BY DEF TablePlaces
<1>2. /\ DOMAIN pages = VAs /\ DOMAIN pages' = VAs /\ pages'[v] = None
      /\ \A u \in VAs \ {v} : pages'[u] = pages[u]
  BY DEF TablesOK
<1> QED
  BY <1>1, <1>2 DEF Range

------------------------------------------------------------------------------
(* Owners: Accounted and Once, action by action.                           *)

Owners == Accounted /\ Once

\* A struct with one owner is not with another.
LEMMA NotWith ==
  ASSUME Accounted, NEW p \in Pages, NEW a \in Kinds, p \in Holding[a]
  PROVE  \A k \in Kinds \ {a} : p \notin Holding[k]
BY OneOwner

\* A step that touches none of the lists and tables.
LEMMA OwnersSame ==
  ASSUME Owners, Outstanding' = Outstanding,
         UNCHANGED <<dram_free_list, nvm_free_list, np, thread, pages, mod_page_dq>>
  PROVE  Owners' /\ UNCHANGED Holding
<1>1. PagesInside(Allocating)' = PagesInside(Allocating) /\ OneInside(Allocating)'
      /\ PagesInside(Removing)' = PagesInside(Removing) /\ OneInside(Removing)'
  BY ThreadsStay DEF Owners, Once
<1>2. RemovedAt' = RemovedAt
  BY DEF RemovedAt
<1>3. UNCHANGED Holding
  BY <1>1, <1>2 DEF Holding
<1>4. Accounted'
  BY <1>3, OwnersStay DEF Owners
<1> QED
  BY <1>1, <1>2, <1>3, <1>4 DEF Owners, Once, NoRepeats, RequestsOnce, RemovedOnce

\* A step of a thread that neither gets nor gives up a struct.
LEMMA OwnersGoto ==
  ASSUME TypeOK, Owners, Outstanding' = Outstanding,
         UNCHANGED <<dram_free_list, nvm_free_list, np, pages, mod_page_dq>>,
         NEW t \in Threads, NEW pc, NEW v, NEW p, Goto(t, pc, v, p),
         \/ pc \notin Allocating \cup Removing /\ thread[t].pc \notin Allocating \cup Removing
         \/ pc \in Allocating /\ thread[t].pc \in Allocating /\ p = thread[t].page
  PROVE  Owners' /\ UNCHANGED Holding
<1>1. ThreadsOK /\ OneInside(Allocating) /\ OneInside(Removing)
  BY DEF TypeOK, Owners, Once
<1>2. thread[t].pc \in Allocating => thread[t].page \in PagesInside(Allocating)
  BY DEF PagesInside, Inside
<1>3. PagesInside(Allocating)' = PagesInside(Allocating) /\ OneInside(Allocating)'
  BY <1>1, <1>2, GotoInside
<1>4. PagesInside(Removing)' = PagesInside(Removing) /\ OneInside(Removing)'
  BY <1>1, GotoInside DEF Allocating, Removing
<1>5. RemovedAt' = RemovedAt
  BY DEF RemovedAt
<1>6. UNCHANGED Holding
  BY <1>3, <1>4, <1>5 DEF Holding
<1>7. Accounted'
  BY <1>6, OwnersStay DEF Owners
<1> QED
  BY <1>3, <1>4, <1>5, <1>6, <1>7 DEF Owners, Once, NoRepeats, RequestsOnce, RemovedOnce

\* The faulting thread, and mmap, have no struct yet.
LEMMA OwnersMissingFault ==
  ASSUME TypeOK, Owners, NEW v \in VAs, MissingFault(v)
  PROVE  Owners'
<1>1. /\ thread[FaultThread].pc = "idle" /\ Goto(FaultThread, "dram", v, None)
      /\ FaultThread \in Threads
      /\ UNCHANGED <<dram_free_list, nvm_free_list, np, pages, mod_page_dq>>
      /\ UNCHANGED <<migration_queue, worker_pc, worker_req>>
  BY DEF MissingFault, Threads, freeLists, tables, policyVars, mqVars
<1> QED
  BY <1>1, OwnersGoto, OutstandingSame DEF Allocating, Removing

\* mmap reserves an address; nothing changes hands.
LEMMA OwnersMmap ==
  ASSUME TypeOK, Owners, NEW a \in Apps, NEW v \in VAs, NEW populate \in BOOLEAN,
         Mmap(a, v, populate)
  PROVE  Owners'
<1>1. /\ thread[a].pc = "idle" /\ a \in Threads
      /\ IF populate THEN Goto(a, "dram", v, None) ELSE UNCHANGED thread
      /\ UNCHANGED <<dram_free_list, nvm_free_list, np, pages, mod_page_dq>>
      /\ UNCHANGED <<migration_queue, worker_pc, worker_req>>
  BY DEF Mmap, Threads, freeLists, tables, policyVars, mqVars
<1>2. Outstanding' = Outstanding
  BY <1>1, OutstandingSame
<1>3. CASE populate
  BY <1>1, <1>2, <1>3, OwnersGoto DEF Allocating, Removing
<1>4. CASE ~populate
  BY <1>1, <1>2, <1>4, OwnersSame
<1> QED
  BY <1>3, <1>4

\* pebs_allocate_page: a struct goes from the free list of DRAM to a thread.
LEMMA OwnersAllocateDram ==
  ASSUME TypeOK, Owners, NEW t \in Threads, AllocateDram(t)
  PROVE  Owners'
<1>1. /\ thread[t].pc = "dram"
      /\ UNCHANGED <<nvm_free_list, np, pages, mod_page_dq>>
      /\ UNCHANGED <<migration_queue, worker_pc, worker_req>>
  BY DEF AllocateDram, tables, policyVars, mqVars
<1>2. Outstanding' = Outstanding
  BY <1>1, OutstandingSame
<1>3. CASE dram_free_list # <<>>
  <2> DEFINE p == Head(dram_free_list)
  <2>1. dram_free_list' = Tail(dram_free_list) /\ Goto(t, "map", thread[t].v, p)
    BY <1>3 DEF AllocateDram
  <2>2. /\ p \in Holding["dram"] /\ p \in Pages /\ NoRepeats(dram_free_list')
        /\ Holding'["dram"] = Holding["dram"] \ {p}
    BY <1>3, <2>1, TailRange, HeadTail DEF TypeOK, ListsOK, Owners, Once, Holding
  <2>3. p \notin Holding["allocating"]
    BY <2>2, NotWith DEF Owners, Kinds
  <2>4. ThreadsOK /\ OneInside(Allocating) /\ OneInside(Removing) /\ p \notin PagesInside(Allocating)
    BY <2>3, HoldingOf DEF TypeOK, Owners, Once
  <2>5. PagesInside(Allocating)' = PagesInside(Allocating) \cup {p} /\ OneInside(Allocating)'
    BY <1>1, <2>1, <2>4, GotoInside DEF Allocating
  <2>6. PagesInside(Removing)' = PagesInside(Removing) /\ OneInside(Removing)'
    BY <1>1, <2>1, <2>4, GotoInside DEF Removing
  <2>7. RemovedAt' = RemovedAt
    BY <1>1 DEF RemovedAt
  <2>8. /\ Holding'["allocating"] = Holding["allocating"] \cup {p}
        /\ \A k \in Kinds \ {"dram", "allocating"} : Holding'[k] = Holding[k]
    <3>1. Holding'["allocating"] = Holding["allocating"] \cup {p}
      BY <2>5 DEF Holding
    <3> QED
      BY <1>1, <1>2, <2>6, <3>1, HoldingSame DEF Kinds
  <2>9. Accounted'
    BY <2>2, <2>8, OwnerChanges DEF Owners, Kinds
  <2> QED
    BY <1>1, <1>2, <2>2, <2>5, <2>6, <2>7, <2>9 DEF Owners, Once, NoRepeats, RequestsOnce, RemovedOnce
<1>4. CASE dram_free_list = <<>>
  <2>1. Goto(t, "nvm", thread[t].v, None) /\ UNCHANGED dram_free_list
    BY <1>4 DEF AllocateDram
  <2> QED
    BY <1>1, <1>2, <2>1, OwnersGoto DEF Allocating, Removing
<1> QED
  BY <1>3, <1>4

\* The same for NVM, or the process aborts.
LEMMA OwnersAllocateNvm ==
  ASSUME TypeOK, Owners, NEW t \in Threads, AllocateNvm(t)
  PROVE  Owners'
<1>1. /\ thread[t].pc = "nvm"
      /\ UNCHANGED <<dram_free_list, np, pages, mod_page_dq>>
      /\ UNCHANGED <<migration_queue, worker_pc, worker_req>>
  BY DEF AllocateNvm, tables, policyVars, mqVars
<1>2. Outstanding' = Outstanding
  BY <1>1, OutstandingSame
<1>3. CASE nvm_free_list # <<>>
  <2> DEFINE p == Head(nvm_free_list)
  <2>1. nvm_free_list' = Tail(nvm_free_list) /\ Goto(t, "map", thread[t].v, p)
    BY <1>3 DEF AllocateNvm
  <2>2. /\ p \in Holding["nvm"] /\ p \in Pages /\ NoRepeats(nvm_free_list')
        /\ Holding'["nvm"] = Holding["nvm"] \ {p}
    BY <1>3, <2>1, TailRange, HeadTail DEF TypeOK, ListsOK, Owners, Once, Holding
  <2>3. p \notin Holding["allocating"]
    BY <2>2, NotWith DEF Owners, Kinds
  <2>4. ThreadsOK /\ OneInside(Allocating) /\ OneInside(Removing) /\ p \notin PagesInside(Allocating)
    BY <2>3, HoldingOf DEF TypeOK, Owners, Once
  <2>5. PagesInside(Allocating)' = PagesInside(Allocating) \cup {p} /\ OneInside(Allocating)'
    BY <1>1, <2>1, <2>4, GotoInside DEF Allocating
  <2>6. PagesInside(Removing)' = PagesInside(Removing) /\ OneInside(Removing)'
    BY <1>1, <2>1, <2>4, GotoInside DEF Removing
  <2>7. RemovedAt' = RemovedAt
    BY <1>1 DEF RemovedAt
  <2>8. /\ Holding'["allocating"] = Holding["allocating"] \cup {p}
        /\ \A k \in Kinds \ {"nvm", "allocating"} : Holding'[k] = Holding[k]
    <3>1. Holding'["allocating"] = Holding["allocating"] \cup {p}
      BY <2>5 DEF Holding
    <3> QED
      BY <1>1, <1>2, <2>6, <3>1, HoldingSame DEF Kinds
  <2>9. Accounted'
    BY <2>2, <2>8, OwnerChanges DEF Owners, Kinds
  <2> QED
    BY <1>1, <1>2, <2>2, <2>5, <2>6, <2>7, <2>9
       DEF Owners, Once, NoRepeats, RequestsOnce, RemovedOnce
<1>4. CASE nvm_free_list = <<>>
  <2>1. UNCHANGED <<nvm_free_list, thread>>
    BY <1>4 DEF AllocateNvm
  <2> QED
    BY <1>1, <1>2, <2>1, OwnersSame
<1> QED
  BY <1>3, <1>4

\* The thread that maps its frame keeps its struct.
LEMMA OwnersMapFrame ==
  ASSUME TypeOK, Owners, NEW t \in Threads, MapFrame(t)
  PROVE  Owners'
<1>1. /\ thread[t].pc = "map" /\ Goto(t, "track", thread[t].v, thread[t].page)
      /\ UNCHANGED <<dram_free_list, nvm_free_list, np, pages, mod_page_dq>>
      /\ UNCHANGED <<migration_queue, worker_pc, worker_req>>
  BY DEF MapFrame, freeLists, tables, policyVars, mqVars
<1> QED
  BY <1>1, OwnersGoto, OutstandingSame DEF Allocating

\* pebs_add_page: a struct goes from its thread to the table.
LEMMA OwnersTrackPage ==
  ASSUME TypeOK, Owners, NEW t \in Threads, ThreadAsserts(t), TrackPage(t)
  PROVE  Owners'
<1> DEFINE p == thread[t].page
           v == thread[t].v
<1>1. /\ thread[t].pc = "track" /\ Goto(t, "report", v, p)
      /\ pages' = [pages EXCEPT ![v] = p] /\ pages[v] = None
      /\ UNCHANGED <<dram_free_list, nvm_free_list, np, mod_page_dq>>
      /\ UNCHANGED <<migration_queue, worker_pc, worker_req>>
  BY DEF TrackPage, ThreadAsserts, freeLists, policyVars, mqVars
<1>2. Outstanding' = Outstanding
  BY <1>1, OutstandingSame
<1>3. p \in Pages /\ v \in VAs /\ ThreadsOK /\ TablesOK /\ OneInside(Allocating) /\ OneInside(Removing)
  BY <1>1 DEF TypeOK, ThreadsOK, Owners, Once
<1>4. p \in PagesInside(Allocating) /\ p \in Holding["allocating"]
  BY <1>1 DEF PagesInside, Inside, Allocating, Holding
<1>5. PagesInside(Allocating)' = PagesInside(Allocating) \ {p} /\ OneInside(Allocating)'
  BY <1>1, <1>3, GotoInside DEF Allocating
<1>6. PagesInside(Removing)' = PagesInside(Removing) /\ OneInside(Removing)'
  BY <1>1, <1>3, GotoInside DEF Removing
<1>7. Holding'["tracked"] = Holding["tracked"] \cup {p}
  BY <1>1, <1>3, TrackedAdded DEF Holding
<1>8. Holding'["allocating"] = Holding["allocating"] \ {p}
  BY <1>5 DEF Holding
<1>9. \A k \in Kinds \ {"allocating", "tracked"} : Holding'[k] = Holding[k]
  BY <1>1, <1>2, <1>6, HoldingSame DEF Kinds
<1>10. Accounted'
  BY <1>3, <1>4, <1>7, <1>8, <1>9, OwnerChanges DEF Owners, Kinds
<1>11. RemovedAt' = RemovedAt
  BY <1>1 DEF RemovedAt
<1> QED
  BY <1>1, <1>2, <1>5, <1>6, <1>10, <1>11
     DEF Owners, Once, NoRepeats, RequestsOnce, RemovedOnce

\* The removals that wait in mod_page_dq, when an entry is pushed ...
LEMMA RemovalsAppend ==
  ASSUME TablesOK, RemovedOnce, NEW p \in Pages, NEW f \in BOOLEAN,
         mod_page_dq' = Append(mod_page_dq, [page |-> p, free |-> f]),
         f => p \notin Holding["removed"]
  PROVE  /\ Holding'["removed"] = IF f THEN Holding["removed"] \cup {p} ELSE Holding["removed"]
         /\ RemovedOnce'
<1> DEFINE n == Len(mod_page_dq) + 1
<1>1. /\ n \notin DOMAIN mod_page_dq /\ mod_page_dq'[n] = [page |-> p, free |-> f]
      /\ \A i \in DOMAIN mod_page_dq : mod_page_dq'[i] = mod_page_dq[i]
      /\ RemovedAt' = IF f THEN RemovedAt \cup {n} ELSE RemovedAt
  BY RemovedAppend
<1>2. \A i \in RemovedAt : i \in DOMAIN mod_page_dq /\ i # n /\ mod_page_dq'[i] = mod_page_dq[i]
  BY <1>1 DEF RemovedAt
<1>3. f => \A i \in RemovedAt : mod_page_dq[i].page # p
  BY DEF Holding
<1>4. mod_page_dq'[n].page = p
  BY <1>1
<1> QED
  BY <1>1, <1>2, <1>3, <1>4 DEF Holding, RemovedOnce

\* ... and when its head is taken.
LEMMA RemovalsTail ==
  ASSUME TablesOK, RemovedOnce, mod_page_dq # <<>>, mod_page_dq' = Tail(mod_page_dq)
  PROVE  /\ Holding'["removed"] = IF mod_page_dq[1].free
                                  THEN Holding["removed"] \ {mod_page_dq[1].page}
                                  ELSE Holding["removed"]
         /\ mod_page_dq[1].free => mod_page_dq[1].page \in Holding["removed"]
         /\ RemovedOnce'
<1>1. /\ \A i \in RemovedAt' : /\ i + 1 \in RemovedAt /\ i \in Int /\ i + 1 # 1
                               /\ mod_page_dq'[i] = mod_page_dq[i + 1]
      /\ \A i \in RemovedAt \ {1} : i - 1 \in RemovedAt' /\ mod_page_dq'[i - 1] = mod_page_dq[i]
      /\ mod_page_dq[1].free <=> 1 \in RemovedAt
  <2>1. \A i \in RemovedAt' : i + 1 \in RemovedAt /\ i \in 1 .. Len(mod_page_dq) - 1
    BY RemovedTail DEF RemovedAt
  <2>2. \A i \in RemovedAt \ {1} : i - 1 \in RemovedAt' /\ i \in 1 .. Len(mod_page_dq)
    BY RemovedTail DEF RemovedAt
  <2>3. \A i \in RemovedAt \ {1} : i - 1 \in 1 .. Len(mod_page_dq) - 1 /\ (i - 1) + 1 = i
    BY <2>2, RemovedTail
  <2> QED
    BY <2>1, <2>2, <2>3, RemovedTail DEF RemovedAt
<1>2. \A i, j \in RemovedAt : mod_page_dq[i].page = mod_page_dq[j].page => i = j
  BY DEF RemovedOnce
<1>3. RemovedOnce'
  <2> SUFFICES ASSUME NEW i \in RemovedAt', NEW j \in RemovedAt',
                      mod_page_dq'[i].page = mod_page_dq'[j].page
               PROVE  i = j
    BY DEF RemovedOnce
  <2>1. /\ i + 1 \in RemovedAt /\ j + 1 \in RemovedAt /\ i \in Int /\ j \in Int
        /\ mod_page_dq[i + 1].page = mod_page_dq[j + 1].page
    BY <1>1
  <2>2. i + 1 = j + 1
    BY <1>2, <2>1
  <2> QED
    BY <2>1, <2>2
<1>4. ASSUME NEW x \in Holding'["removed"]
      PROVE  x \in Holding["removed"] /\ (mod_page_dq[1].free => x # mod_page_dq[1].page)
  <2>1. PICK i \in RemovedAt' : x = mod_page_dq'[i].page
    BY DEF Holding
  <2>2. i + 1 \in RemovedAt /\ x = mod_page_dq[i + 1].page /\ i + 1 # 1
    BY <1>1, <2>1
  <2>3. mod_page_dq[1].free => x # mod_page_dq[1].page
    BY <1>1, <1>2, <2>2
  <2> QED
    BY <2>2, <2>3 DEF Holding
<1>5. ASSUME NEW x \in Holding["removed"], mod_page_dq[1].free => x # mod_page_dq[1].page
      PROVE  x \in Holding'["removed"]
  <2>1. PICK i \in RemovedAt : x = mod_page_dq[i].page
    BY DEF Holding
  <2>2. i # 1
    BY <1>1, <1>5, <2>1
  <2>3. i - 1 \in RemovedAt' /\ mod_page_dq'[i - 1] = mod_page_dq[i]
    BY <1>1, <2>2
  <2> QED
    BY <2>1, <2>3 DEF Holding
<1>6. mod_page_dq[1].free => mod_page_dq[1].page \in Holding["removed"]
  BY <1>1 DEF Holding
<1> QED
  BY <1>3, <1>4, <1>5, <1>6

\* The addition is reported: the struct is tracked already.
LEMMA OwnersReportAdd ==
  ASSUME TypeOK, Owners, NEW t \in Threads, ReportAdd(t)
  PROVE  Owners'
<1>1. /\ thread[t].pc = "report" /\ Goto(t, "idle", None, None)
      /\ mod_page_dq' = Append(mod_page_dq, [page |-> thread[t].page, free |-> FALSE])
      /\ UNCHANGED <<dram_free_list, nvm_free_list, np, pages>>
      /\ UNCHANGED <<migration_queue, worker_pc, worker_req>>
  BY DEF ReportAdd, freeLists, policyVars, mqVars
<1>2. Outstanding' = Outstanding
  BY <1>1, OutstandingSame
<1>3. /\ ThreadsOK /\ TablesOK /\ OneInside(Allocating) /\ OneInside(Removing) /\ RemovedOnce
      /\ thread[t].page \in Pages
  BY <1>1 DEF TypeOK, ThreadsOK, Owners, Once
<1>4. PagesInside(Allocating)' = PagesInside(Allocating) /\ OneInside(Allocating)'
  BY <1>1, <1>3, GotoInside DEF Allocating
<1>5. PagesInside(Removing)' = PagesInside(Removing) /\ OneInside(Removing)'
  BY <1>1, <1>3, GotoInside DEF Removing
<1>6. Holding'["removed"] = Holding["removed"] /\ RemovedOnce'
  BY <1>1, <1>3, RemovalsAppend
<1>7. \A k \in Kinds : Holding'[k] = Holding[k]
  BY <1>1, <1>2, <1>4, <1>5, <1>6, HoldingSame DEF Kinds
<1>8. Accounted'
  BY <1>7, OwnersStay DEF Owners
<1> QED
  BY <1>1, <1>2, <1>4, <1>5, <1>6, <1>8 DEF Owners, Once, NoRepeats, RequestsOnce

\* munmap takes a struct out of the table, if the address has one.
LEMMA OwnersMunmap ==
  ASSUME TypeOK, TablePlaces, Owners, NEW a \in Apps, NEW v \in VAs, Munmap(a, v)
  PROVE  Owners'
<1> DEFINE p == pages[v]
<1>1. /\ thread[a].pc = "idle" /\ a \in Threads
      /\ Goto(a, IF p = None THEN "unmap" ELSE "remove", v, p)
      /\ pages' = [pages EXCEPT ![v] = None]
      /\ UNCHANGED <<dram_free_list, nvm_free_list, np, mod_page_dq>>
      /\ UNCHANGED <<migration_queue, worker_pc, worker_req>>
  BY DEF Munmap, Threads, freeLists, policyVars, mqVars
<1>2. Outstanding' = Outstanding
  BY <1>1, OutstandingSame
<1>3. ThreadsOK /\ TablesOK /\ p \in Pages \cup {None} /\ DOMAIN pages = VAs
  BY DEF TypeOK, TablesOK
<1>4. CASE p = None
  <2>1. pages' = pages
    BY <1>1, <1>3, <1>4 DEF TablesOK
  <2> QED
    BY <1>1, <1>2, <1>4, <2>1, OwnersGoto DEF Allocating, Removing
<1>5. CASE p # None
  <2>1. p \in Pages /\ p \in Holding["tracked"] /\ OneInside(Allocating) /\ OneInside(Removing)
    BY <1>3, <1>5 DEF Holding, Range, Owners, Once
  <2>2. p \notin PagesInside(Removing)
    BY <2>1, NotWith, HoldingOf DEF Owners, Kinds
  <2>3. PagesInside(Allocating)' = PagesInside(Allocating) /\ OneInside(Allocating)'
    BY <1>1, <1>3, <1>5, <2>1, GotoInside DEF Allocating
  <2>4. PagesInside(Removing)' = PagesInside(Removing) \cup {p} /\ OneInside(Removing)'
    BY <1>1, <1>3, <1>5, <2>1, <2>2, GotoInside DEF Removing
  <2>5. Holding'["tracked"] = Holding["tracked"] \ {p}
    BY <1>1, <1>3, TrackedRemoved DEF Holding
  <2>6. Holding'["removing"] = Holding["removing"] \cup {p}
    BY <2>4 DEF Holding
  <2>7. \A k \in Kinds \ {"tracked", "removing"} : Holding'[k] = Holding[k]
    BY <1>1, <1>2, <2>3, HoldingSame DEF Kinds
  <2>8. Accounted'
    BY <2>1, <2>5, <2>6, <2>7, OwnerChanges DEF Owners, Kinds
  <2>9. RemovedAt' = RemovedAt
    BY <1>1 DEF RemovedAt
  <2> QED
    BY <1>1, <1>2, <2>3, <2>4, <2>8, <2>9
       DEF Owners, Once, NoRepeats, RequestsOnce, RemovedOnce
<1> QED
  BY <1>4, <1>5

\* pebs_remove_page: the struct goes from the thread to mod_page_dq.
LEMMA OwnersReportRemoval ==
  ASSUME TypeOK, Owners, NEW a \in Apps, ReportRemoval(a)
  PROVE  Owners'
<1> DEFINE p == thread[a].page
<1>1. /\ thread[a].pc = "remove" /\ a \in Threads /\ Goto(a, "absent", thread[a].v, p)
      /\ mod_page_dq' = Append(mod_page_dq, [page |-> p, free |-> TRUE])
      /\ UNCHANGED <<dram_free_list, nvm_free_list, np, pages>>
      /\ UNCHANGED <<migration_queue, worker_pc, worker_req>>
  BY DEF ReportRemoval, Threads, freeLists, policyVars, mqVars
<1>2. Outstanding' = Outstanding
  BY <1>1, OutstandingSame
<1>3. /\ ThreadsOK /\ TablesOK /\ OneInside(Allocating) /\ OneInside(Removing) /\ RemovedOnce
      /\ p \in Pages
  BY <1>1 DEF TypeOK, ThreadsOK, Owners, Once
<1>4. p \in Holding["removing"]
  BY <1>1 DEF PagesInside, Inside, Removing, Holding
<1>5. p \notin Holding["removed"]
  BY <1>3, <1>4, NotWith DEF Owners, Kinds
<1>6. PagesInside(Allocating)' = PagesInside(Allocating) /\ OneInside(Allocating)'
  BY <1>1, <1>3, GotoInside DEF Allocating
<1>7. PagesInside(Removing)' = PagesInside(Removing) \ {p} /\ OneInside(Removing)'
  BY <1>1, <1>3, GotoInside DEF Removing
<1>8. Holding'["removed"] = Holding["removed"] \cup {p} /\ RemovedOnce'
  BY <1>1, <1>3, <1>5, RemovalsAppend
<1>9. Holding'["removing"] = Holding["removing"] \ {p}
  BY <1>7 DEF Holding
<1>10. \A k \in Kinds \ {"removing", "removed"} : Holding'[k] = Holding[k]
  BY <1>1, <1>2, <1>6, HoldingSame DEF Kinds
<1>11. Accounted'
  BY <1>3, <1>4, <1>8, <1>9, <1>10, OwnerChanges DEF Owners, Kinds
<1> QED
  BY <1>1, <1>2, <1>6, <1>7, <1>8, <1>11 DEF Owners, Once, NoRepeats, RequestsOnce

\* The rest of munmap has no struct any more.
LEMMA OwnersClearPresent ==
  ASSUME TypeOK, Owners, NEW a \in Apps, ClearPresent(a) \/ Unmap(a)
  PROVE  Owners'
<1>1. /\ thread[a].pc \in {"absent", "unmap"} /\ a \in Threads
      /\ \E v : \E p : Goto(a, "unmap", v, p) \/ Goto(a, "idle", v, p)
      /\ UNCHANGED <<dram_free_list, nvm_free_list, np, pages, mod_page_dq>>
      /\ UNCHANGED <<migration_queue, worker_pc, worker_req>>
  BY DEF ClearPresent, Unmap, Threads, freeLists, tables, policyVars, mqVars
<1>2. PICK v, p : Goto(a, "unmap", v, p) \/ Goto(a, "idle", v, p)
  BY <1>1
<1>3. Outstanding' = Outstanding
  BY <1>1, OutstandingSame
<1> QED
  BY <1>1, <1>2, <1>3, OwnersGoto DEF Allocating, Removing

\* The oldest entry of mod_page_dq finds what it needs in pages_map.
LEMMA HeadKnown ==
  ASSUME TypeOK, EntriesAlternate, mod_page_dq # <<>>
  PROVE  LET p == mod_page_dq[1].page IN
         /\ Head(mod_page_dq) = mod_page_dq[1] /\ p \in Pages /\ mod_page_dq[1].free \in BOOLEAN
         /\ va[p] \in VAs
         /\ pages_map[va[p]] = IF mod_page_dq[1].free THEN p ELSE None
<1> DEFINE p == mod_page_dq[1].page
<1>1. /\ Head(mod_page_dq) = mod_page_dq[1] /\ 1 \in DOMAIN mod_page_dq
      /\ mod_page_dq[1] \in [page : Pages, free : BOOLEAN]
  <2>1. mod_page_dq \in Seq([page : Pages, free : BOOLEAN])
    BY DEF TypeOK, TablesOK
  <2>2. /\ Head(mod_page_dq) = mod_page_dq[1] /\ mod_page_dq[1] \in [page : Pages, free : BOOLEAN]
        /\ DOMAIN mod_page_dq = 1 .. Len(mod_page_dq) /\ Len(mod_page_dq) \in Nat \ {0}
    BY <2>1, TailFacts
  <2> QED
    BY <2>2
<1>2. va[p] \in VAs /\ Shows(va[p], 1 - 1, IF mod_page_dq[1].free THEN p ELSE None)
  BY <1>1 DEF EntriesAlternate
<1>3. pages_map[va[p]] = IF mod_page_dq[1].free THEN p ELSE None
  BY <1>2 DEF Shows
<1> QED
  BY <1>1, <1>2, <1>3

\* The policy thread frees the struct of a removal: it goes to a free list.
LEMMA OwnersDrain ==
  ASSUME TypeOK, Owners, EntriesAlternate, Drain
  PROVE  Owners'
<1> DEFINE p == mod_page_dq[1].page
<1>1. /\ mod_page_dq # <<>> /\ mod_page_dq' = Tail(mod_page_dq)
      /\ UNCHANGED <<np, pages, thread>> /\ UNCHANGED <<migration_queue, worker_pc, worker_req>>
  BY DEF Drain, policyVars, mqVars
<1>2. Outstanding' = Outstanding
  BY <1>1, OutstandingSame
<1>3. /\ TablesOK /\ ListsOK /\ StructsOK /\ RemovedOnce
      /\ NoRepeats(dram_free_list) /\ NoRepeats(nvm_free_list)
      /\ OneInside(Allocating) /\ OneInside(Removing) /\ RequestsOnce /\ Accounted
  BY DEF TypeOK, Owners, Once
<1>4. /\ Head(mod_page_dq) = mod_page_dq[1] /\ p \in Pages /\ mod_page_dq[1].free \in BOOLEAN
      /\ va[p] # None
      /\ mod_page_dq[1].free => pages_map[va[p]] # None
  BY <1>1, HeadKnown, NoneAssumption
<1>5. UNCHANGED PagesInside(Allocating) /\ UNCHANGED PagesInside(Removing)
      /\ OneInside(Allocating)' /\ OneInside(Removing)' /\ RequestsOnce'
  BY <1>1, <1>2, <1>3, ThreadsStay DEF RequestsOnce
<1>6. CASE ~mod_page_dq[1].free
  <2>1. UNCHANGED <<dram_free_list, nvm_free_list>>
    BY <1>4, <1>6 DEF Drain, freeLists
  <2>2. Holding'["removed"] = Holding["removed"] /\ RemovedOnce'
    BY <1>1, <1>3, <1>6, RemovalsTail
  <2>3. \A k \in Kinds : Holding'[k] = Holding[k]
    BY <1>1, <1>2, <1>5, <2>1, <2>2, HoldingSame DEF Kinds
  <2>4. Accounted'
    BY <1>3, <2>3, OwnersStay
  <2> QED
    BY <1>3, <1>5, <2>1, <2>2, <2>4 DEF Owners, Once, NoRepeats
<1>7. CASE mod_page_dq[1].free
  <2>1. /\ Holding'["removed"] = Holding["removed"] \ {p} /\ RemovedOnce'
        /\ p \in Holding["removed"]
    BY <1>1, <1>3, <1>7, RemovalsTail
  <2>2. p \notin Holding["dram"] /\ p \notin Holding["nvm"]
    BY <1>3, <1>4, <2>1, NotWith DEF Kinds
  <2>3. /\ dram_free_list' = IF in_dram(p) THEN Append(dram_free_list, p) ELSE dram_free_list
        /\ nvm_free_list' = IF ~in_dram(p) THEN Append(nvm_free_list, p) ELSE nvm_free_list
    BY <1>4, <1>7 DEF Drain
  <2>4. CASE in_dram(p)
    <3>1. /\ Holding'["dram"] = Holding["dram"] \cup {p}
          /\ NoRepeats(dram_free_list') /\ UNCHANGED nvm_free_list
      BY <1>3, <2>2, <2>3, <2>4, AppendRange DEF ListsOK, Holding
    <3>2. \A k \in Kinds \ {"removed", "dram"} : Holding'[k] = Holding[k]
      BY <1>1, <1>2, <1>5, <3>1, HoldingSame DEF Kinds
    <3>3. Accounted'
      BY <1>3, <1>4, <2>1, <3>1, <3>2, OwnerChanges DEF Kinds
    <3> QED
      BY <1>3, <1>5, <2>1, <3>1, <3>3 DEF Owners, Once, NoRepeats
  <2>5. CASE ~in_dram(p)
    <3>1. /\ Holding'["nvm"] = Holding["nvm"] \cup {p}
          /\ NoRepeats(nvm_free_list') /\ UNCHANGED dram_free_list
      BY <1>3, <2>2, <2>3, <2>5, AppendRange DEF ListsOK, Holding
    <3>2. \A k \in Kinds \ {"removed", "nvm"} : Holding'[k] = Holding[k]
      BY <1>1, <1>2, <1>5, <3>1, HoldingSame DEF Kinds
    <3>3. Accounted'
      BY <1>3, <1>4, <2>1, <3>1, <3>2, OwnerChanges DEF Kinds
    <3> QED
      BY <1>3, <1>5, <2>1, <3>1, <3>3 DEF Owners, Once, NoRepeats
  <2> QED
    BY <2>4, <2>5
<1> QED
  BY <1>4, <1>6, <1>7

\* The steps of the policy thread that take or give back a DRAM page.
LEMMA OwnersChoose ==
  ASSUME TypeOK, Owners, Choose
  PROVE  Owners'
<1> DEFINE p == Head(dram_free_list)
<1>1. /\ step = "choose" /\ UNCHANGED <<nvm_free_list, pages, mod_page_dq, thread>>
      /\ UNCHANGED <<migration_queue, worker_pc, worker_req>>
      /\ \/ UNCHANGED <<np, dram_free_list>>
         \/ dram_free_list # <<>> /\ np' = p /\ dram_free_list' = Tail(dram_free_list)
  BY DEF Choose, tables, mqVars
<1>2. Outstanding' = Outstanding
  BY <1>1, OutstandingSame
<1>3. /\ ListsOK /\ np = None /\ RemovedOnce
      /\ NoRepeats(dram_free_list) /\ NoRepeats(nvm_free_list)
      /\ OneInside(Allocating) /\ OneInside(Removing) /\ RequestsOnce /\ Accounted
  BY <1>1 DEF TypeOK, PolicyOK, Owners, Once
<1>4. CASE UNCHANGED <<np, dram_free_list>>
  BY <1>1, <1>2, <1>4, OwnersSame
<1>5. CASE dram_free_list # <<>> /\ np' = p /\ dram_free_list' = Tail(dram_free_list)
  <2>1. /\ p \in Holding["dram"] /\ p \in Pages /\ NoRepeats(dram_free_list')
        /\ Holding'["dram"] = Holding["dram"] \ {p}
    BY <1>3, <1>5, TailRange, HeadTail DEF ListsOK, Holding
  <2>2. Holding'["policy"] = Holding["policy"] \cup {p}
    BY <1>3, <1>5, <2>1, NoneAssumption DEF Holding
  <2>3. UNCHANGED PagesInside(Allocating) /\ UNCHANGED PagesInside(Removing)
        /\ OneInside(Allocating)' /\ OneInside(Removing)' /\ RequestsOnce' /\ RemovedOnce'
    BY <1>1, <1>2, <1>3, ThreadsStay DEF RequestsOnce, RemovedOnce, RemovedAt
  <2>4. \A k \in Kinds \ {"dram", "policy"} : Holding'[k] = Holding[k]
    BY <1>1, <1>2, <2>3, HoldingSame DEF Kinds
  <2>5. Accounted'
    BY <1>3, <2>1, <2>2, <2>4, OwnerChanges DEF Kinds
  <2> QED
    BY <1>1, <1>3, <2>1, <2>3, <2>5 DEF Owners, Once, NoRepeats
<1> QED
  BY <1>1, <1>4, <1>5

\* The policy thread puts the DRAM page it took back on its list.
LEMMA OwnersGiveBack ==
  ASSUME TypeOK, Owners, GiveBack
  PROVE  Owners'
<1>1. /\ step = "promote" /\ UNCHANGED <<nvm_free_list, pages, mod_page_dq, thread>>
      /\ UNCHANGED <<migration_queue, worker_pc, worker_req>>
      /\ dram_free_list' = Append(dram_free_list, np) /\ np' = None
  BY DEF GiveBack, LeaveLoop, tables, MQ!EndLoop, MQ!workerVars
<1>2. Outstanding' = Outstanding
  BY <1>1, OutstandingSame
<1>3. /\ ListsOK /\ np \in Pages /\ np # None /\ RemovedOnce
      /\ NoRepeats(dram_free_list) /\ NoRepeats(nvm_free_list)
      /\ OneInside(Allocating) /\ OneInside(Removing) /\ RequestsOnce /\ Accounted
  BY <1>1 DEF TypeOK, PolicyOK, Owners, Once
<1>4. np \in Holding["policy"] /\ Holding'["policy"] = Holding["policy"] \ {np}
  BY <1>1, <1>3 DEF Holding
<1>5. np \notin Range(dram_free_list)
  BY <1>3, <1>4, NotWith, HoldingOf DEF Kinds
<1>6. Holding'["dram"] = Holding["dram"] \cup {np} /\ NoRepeats(dram_free_list')
  BY <1>1, <1>3, <1>5, AppendRange DEF ListsOK, Holding
<1>7. UNCHANGED PagesInside(Allocating) /\ UNCHANGED PagesInside(Removing)
      /\ OneInside(Allocating)' /\ OneInside(Removing)' /\ RequestsOnce' /\ RemovedOnce'
  BY <1>1, <1>2, <1>3, ThreadsStay DEF RequestsOnce, RemovedOnce, RemovedAt
<1>8. \A k \in Kinds \ {"policy", "dram"} : Holding'[k] = Holding[k]
  BY <1>1, <1>2, <1>7, HoldingSame DEF Kinds
<1>9. Accounted'
  BY <1>3, <1>4, <1>6, <1>8, OwnerChanges DEF Kinds
<1> QED
  BY <1>1, <1>3, <1>6, <1>7, <1>9 DEF Owners, Once, NoRepeats

\* The requests the policy thread makes are of pages inside the scores.
LEMMA ScoresIndex ==
  ASSUME TypeOK, step = "promote"
  PROVE  /\ promote_idx + 1 \in DOMAIN scores /\ scores[promote_idx + 1] \in Pages
         /\ [dram_page |-> None, nvm_page |-> scores[promote_idx + 1],
             free_page |-> np, need_demotion |-> FALSE] \in Reqs
<1>1. /\ scores \in Seq(Pages) /\ promote_idx \in Nat /\ demote_idx \in Int /\ np \in Pages
      /\ demote_idx < Len(scores) /\ promote_idx < demote_idx
  BY DEF TypeOK, PolicyOK
<1>2. promote_idx + 1 \in DOMAIN scores /\ scores[promote_idx + 1] \in Pages
  BY <1>1
<1> QED
  BY <1>1, <1>2 DEF Reqs

\* An exchange: what is submitted, and that it is a request.
LEMMA ExchangeRequest ==
  ASSUME TypeOK, SubmitExchange
  PROVE  \E k \in promote_idx + 1 .. demote_idx : \E r \in Reqs :
            /\ r = [dram_page |-> scores[k + 1], nvm_page |-> scores[promote_idx + 1],
                    free_page |-> Head(nvm_free_list), need_demotion |-> TRUE]
            /\ k + 1 \in DOMAIN scores /\ promote_idx + 1 \in DOMAIN scores /\ k \in Int
            /\ in_dram(scores[k + 1]) /\ MQ!Enqueue(r) /\ demote_idx' = k - 1
<1>1. PICK k \in promote_idx + 1 .. demote_idx :
         /\ in_dram(scores[k + 1])
         /\ MQ!Enqueue([dram_page |-> scores[k + 1], nvm_page |-> scores[promote_idx + 1],
                        free_page |-> Head(nvm_free_list), need_demotion |-> TRUE])
         /\ demote_idx' = k - 1
  BY DEF SubmitExchange
<1>2. /\ scores \in Seq(Pages) /\ promote_idx \in Nat /\ demote_idx \in Int
      /\ demote_idx < Len(scores) /\ promote_idx < demote_idx
      /\ Head(nvm_free_list) \in Pages
  BY HeadTail DEF TypeOK, PolicyOK, SubmitExchange, ListsOK
<1>3. /\ promote_idx + 1 \in DOMAIN scores /\ scores[promote_idx + 1] \in Pages
      /\ k + 1 \in DOMAIN scores /\ scores[k + 1] \in Pages /\ k \in Int
  BY <1>2
<1> QED
  BY <1>1, <1>2, <1>3 DEF Reqs

\* A request takes the struct the policy thread got for it ...
LEMMA OwnersSubmitPromotion ==
  ASSUME TypeOK, HandOffInv, Owners, SubmitPromotion
  PROVE  Owners'
<1> DEFINE r == [dram_page |-> None, nvm_page |-> scores[promote_idx + 1],
                 free_page |-> np, need_demotion |-> FALSE]
<1>1. /\ step = "promote" /\ UNCHANGED <<dram_free_list, nvm_free_list, pages, mod_page_dq, thread>>
      /\ MQ!Enqueue(r) /\ np' = None
  BY DEF SubmitPromotion, freeLists, tables
<1>2. /\ np \in Pages /\ np # None /\ RemovedOnce
      /\ NoRepeats(dram_free_list) /\ NoRepeats(nvm_free_list) /\ Once
      /\ OneInside(Allocating) /\ OneInside(Removing) /\ RequestsOnce /\ Accounted
  BY <1>1 DEF TypeOK, PolicyOK, Owners, Once
<1>3. r \in Reqs
  BY <1>1, <1>2, ScoresIndex
<1>4. Outstanding' = Outstanding \cup {r}
  BY <1>1, <1>3, OutstandingEnqueue
<1>5. np \in Holding["policy"] /\ Holding'["policy"] = Holding["policy"] \ {np}
  BY <1>1, <1>2 DEF Holding
<1>6. np \notin Holding["request"]
  BY <1>2, <1>5, NotWith DEF Kinds
<1>7. Holding'["request"] = Holding["request"] \cup {r.free_page} /\ RequestsOnce'
  BY <1>2, <1>4, <1>6, RequestAdded
<1>8. UNCHANGED PagesInside(Allocating) /\ UNCHANGED PagesInside(Removing)
      /\ OneInside(Allocating)' /\ OneInside(Removing)' /\ RemovedOnce'
  BY <1>1, <1>2, ThreadsStay DEF RemovedOnce, RemovedAt
<1>9. \A k \in Kinds \ {"policy", "request"} : Holding'[k] = Holding[k]
  BY <1>1, <1>8, HoldingSame DEF Kinds
<1>10. Accounted'
  BY <1>2, <1>5, <1>7, <1>9, OwnerChanges DEF Kinds
<1> QED
  BY <1>1, <1>2, <1>7, <1>8, <1>10 DEF Owners, Once, NoRepeats

\* ... or one from the free list of NVM.
LEMMA OwnersSubmitExchange ==
  ASSUME TypeOK, HandOffInv, Owners, SubmitExchange
  PROVE  Owners'
<1> DEFINE p == Head(nvm_free_list)
<1>1. /\ nvm_free_list # <<>> /\ nvm_free_list' = Tail(nvm_free_list)
      /\ UNCHANGED <<dram_free_list, np, pages, mod_page_dq, thread>>
  BY DEF SubmitExchange, tables
<1>2. /\ RemovedOnce /\ ListsOK
      /\ NoRepeats(dram_free_list) /\ NoRepeats(nvm_free_list) /\ Once
      /\ OneInside(Allocating) /\ OneInside(Removing) /\ RequestsOnce /\ Accounted
  BY DEF TypeOK, Owners, Once
<1>3. PICK r \in Reqs : r.free_page = p /\ MQ!Enqueue(r)
  BY ExchangeRequest
<1>4. Outstanding' = Outstanding \cup {r}
  BY <1>3, OutstandingEnqueue
<1>5. /\ p \in Holding["nvm"] /\ p \in Pages /\ NoRepeats(nvm_free_list')
      /\ Holding'["nvm"] = Holding["nvm"] \ {p}
  BY <1>1, <1>2, TailRange, HeadTail DEF ListsOK, Holding
<1>6. p \notin Holding["request"]
  BY <1>2, <1>5, NotWith DEF Kinds
<1>7. Holding'["request"] = Holding["request"] \cup {p} /\ RequestsOnce'
  BY <1>2, <1>3, <1>4, <1>6, RequestAdded
<1>8. UNCHANGED PagesInside(Allocating) /\ UNCHANGED PagesInside(Removing)
      /\ OneInside(Allocating)' /\ OneInside(Removing)' /\ RemovedOnce'
  BY <1>1, <1>2, ThreadsStay DEF RemovedOnce, RemovedAt
<1>9. \A k \in Kinds \ {"nvm", "request"} : Holding'[k] = Holding[k]
  BY <1>1, <1>8, HoldingSame DEF Kinds
<1>10. Accounted'
  BY <1>2, <1>5, <1>7, <1>9, OwnerChanges DEF Kinds
<1> QED
  BY <1>1, <1>2, <1>5, <1>7, <1>8, <1>10 DEF Owners, Once, NoRepeats

\* A request that is over gives its struct to a free list.
LEMMA OwnersFinish ==
  ASSUME TypeOK, HandOffInv, Owners, NEW w \in Workers, FinishRequest(w),
         \/ /\ dram_free_list' = Append(dram_free_list, worker_req[w].free_page)
            /\ UNCHANGED nvm_free_list
         \/ /\ nvm_free_list' = Append(nvm_free_list, worker_req[w].free_page)
            /\ UNCHANGED dram_free_list,
         UNCHANGED <<np, pages, mod_page_dq, thread>>
  PROVE  Owners'
<1> DEFINE p == worker_req[w].free_page
<1>1. Outstanding' = Outstanding \ {worker_req[w]} /\ worker_req[w] \in Outstanding
  BY OutstandingComplete DEF FinishRequest
<1>2. /\ RemovedOnce /\ ListsOK
      /\ NoRepeats(dram_free_list) /\ NoRepeats(nvm_free_list) /\ Once
      /\ OneInside(Allocating) /\ OneInside(Removing) /\ RequestsOnce /\ Accounted
  BY DEF TypeOK, Owners, Once
<1>3. p \in Pages /\ p \in Holding["request"]
  BY <1>1, OutstandingReqs DEF Reqs, Holding
<1>4. Holding'["request"] = Holding["request"] \ {p} /\ RequestsOnce'
  BY <1>1, <1>2, RequestDone
<1>5. p \notin Range(dram_free_list) /\ p \notin Range(nvm_free_list)
  BY <1>2, <1>3, NotWith, HoldingOf DEF Kinds
<1>6. UNCHANGED PagesInside(Allocating) /\ UNCHANGED PagesInside(Removing)
      /\ OneInside(Allocating)' /\ OneInside(Removing)' /\ RemovedOnce'
  BY <1>2, ThreadsStay DEF RemovedOnce, RemovedAt
<1>7. CASE dram_free_list' = Append(dram_free_list, p) /\ UNCHANGED nvm_free_list
  <2>1. Holding'["dram"] = Holding["dram"] \cup {p} /\ NoRepeats(dram_free_list')
    BY <1>2, <1>5, <1>7, AppendRange DEF ListsOK, Holding
  <2>2. \A k \in Kinds \ {"request", "dram"} : Holding'[k] = Holding[k]
    BY <1>6, <1>7, HoldingSame DEF Kinds
  <2>3. Accounted'
    BY <1>2, <1>3, <1>4, <2>1, <2>2, OwnerChanges DEF Kinds
  <2> QED
    BY <1>2, <1>4, <1>6, <1>7, <2>1, <2>3 DEF Owners, Once, NoRepeats
<1>8. CASE nvm_free_list' = Append(nvm_free_list, p) /\ UNCHANGED dram_free_list
  <2>1. Holding'["nvm"] = Holding["nvm"] \cup {p} /\ NoRepeats(nvm_free_list')
    BY <1>2, <1>5, <1>8, AppendRange DEF ListsOK, Holding
  <2>2. \A k \in Kinds \ {"request", "nvm"} : Holding'[k] = Holding[k]
    BY <1>6, <1>8, HoldingSame DEF Kinds
  <2>3. Accounted'
    BY <1>2, <1>3, <1>4, <2>1, <2>2, OwnerChanges DEF Kinds
  <2> QED
    BY <1>2, <1>4, <1>6, <1>8, <2>1, <2>3 DEF Owners, Once, NoRepeats
<1> QED
  BY <1>7, <1>8

\* Every step of the system keeps the structs accounted for.
LEMMA OwnersStep ==
  ASSUME OwnInv, [Next]_vars
  PROVE  Owners'
<1>0. TypeOK /\ HandOffInv /\ Owners /\ TablePlaces /\ EntriesAlternate /\ MQ!TypeOK /\ PolicyOK
  BY DEF OwnInv, Owners, TypeOK
<1>1. CASE AppNext
  BY <1>0, <1>1, OwnersMissingFault, OwnersMmap, OwnersMunmap DEF AppNext
<1>2. ASSUME NEW t \in Threads, AllocateNext(t) PROVE Owners'
  BY <1>0, <1>2, OwnersAllocateDram, OwnersAllocateNvm, OwnersMapFrame, OwnersTrackPage,
     OwnersReportAdd DEF AllocateNext
<1>3. ASSUME NEW a \in Apps, ReleaseNext(a) PROVE Owners'
  BY <1>0, <1>3, OwnersReportRemoval, OwnersClearPresent DEF ReleaseNext
<1>4. CASE PolicyNext
  <2>1. CASE WakeUp \/ Score \/ Collect \/ BeginMigrations \/ StopMigrations
             \/ GiveUpDemotion \/ PostSubmission
    <3>1. UNCHANGED <<dram_free_list, nvm_free_list, thread, pages, mod_page_dq,
                      migration_queue, worker_pc, worker_req>>
      BY <2>1 DEF WakeUp, Score, Collect, BeginMigrations, StopMigrations, GiveUpDemotion,
         PostSubmission, LeaveLoop, freeLists, tables, mqVars, MQ!StartInterval,
         MQ!CollectCompletion, MQ!StartLoop, MQ!EndLoop, MQ!Post, MQ!workerVars
    <3>2. UNCHANGED np
      BY <1>0, <2>1 DEF WakeUp, Score, Collect, BeginMigrations, StopMigrations,
         GiveUpDemotion, PostSubmission, LeaveLoop, policyVars, PolicyOK
    <3> QED
      BY <1>0, <3>1, <3>2, OutstandingSame, OwnersSame
  <2> QED
    BY <1>0, <1>4, <2>1, OwnersDrain, OwnersChoose, OwnersGiveBack, OwnersSubmitPromotion,
       OwnersSubmitExchange DEF PolicyNext
<1>5. ASSUME NEW w \in Workers, WorkerNext(w) PROVE Owners'
  <2>1. CASE SkipDemotion(w) \/ SkipPromotion(w) \/ ResetAfterPromotion(w)
    BY <1>0, <2>1, OwnersFinish DEF SkipDemotion, SkipPromotion, ResetAfterPromotion, tables,
       policyVars
  <2>2. CASE WakeWorker(w) \/ TakeRequest(w)
    <3>1. UNCHANGED <<dram_free_list, nvm_free_list, np, thread, pages, mod_page_dq>>
      BY <2>2 DEF WakeWorker, TakeRequest, freeLists, tables, policyVars
    <3>2. Outstanding' = Outstanding
      BY <1>0, <2>2, OutstandingWake, OutstandingDequeue DEF WakeWorker, TakeRequest
    <3> QED
      BY <1>0, <3>1, <3>2, OwnersSame
  <2>3. CASE \/ DemoteStart(w) \/ PromoteStart(w) \/ Remap(w) \/ Commit(w)
             \/ ResetAfterDemotion(w)
    <3>1. UNCHANGED <<dram_free_list, nvm_free_list, np, thread, pages, mod_page_dq,
                      migration_queue, worker_pc, worker_req>>
      BY <2>3 DEF DemoteStart, PromoteStart, LockForMigration, Remap, Commit,
         ResetAfterDemotion, freeLists, tables, policyVars, mqVars
    <3> QED
      BY <1>0, <3>1, OutstandingSame, OwnersSame
  <2> QED
    BY <1>5, <2>1, <2>2, <2>3 DEF WorkerNext
<1>6. CASE AssertFails \/ UNCHANGED vars
  <2>1. UNCHANGED <<dram_free_list, nvm_free_list, np, thread, pages, mod_page_dq,
                    migration_queue, worker_pc, worker_req>>
    BY <1>6 DEF AssertFails, vars, freeLists, tables, policyVars, mqVars
  <2> QED
    BY <1>0, <2>1, OutstandingSame, OwnersSame
<1> QED
  BY <1>1, <1>2, <1>3, <1>4, <1>5, <1>6 DEF Next

------------------------------------------------------------------------------
(* One thread per address.                                                 *)

\* A thread that goes on at its address, in the same half of the code.
LEMMA PlacesGoto ==
  ASSUME ThreadsOK, ThreadPlaces, UNCHANGED region, NEW t \in Threads, NEW pc, NEW p,
         thread[t].pc # "idle", pc # "idle", pc \in Leaving <=> thread[t].pc \in Leaving,
         Goto(t, pc, thread[t].v, p)
  PROVE  ThreadPlaces'
<1>1. /\ thread'[t] = [pc |-> pc, v |-> thread[t].v, page |-> p]
      /\ \A u \in Threads \ {t} : thread'[u] = thread[u]
      /\ \A u \in Threads : thread'[u].v = thread[u].v
  BY DEF Goto, ThreadsOK
<1>2. \A u \in Threads : thread'[u].pc \in Leaving <=> thread[u].pc \in Leaving
  BY <1>1
<1>3. FaultThread \in Threads /\ Apps \subseteq Threads
  BY DEF Threads
<1>4. \A u \in Threads : thread'[u].pc = "idle" => thread'[u].v = None
  BY <1>1 DEF ThreadPlaces
<1> QED
  BY <1>1, <1>2, <1>3, <1>4 DEF ThreadPlaces

\* A thread that leaves its address.
LEMMA PlacesLeave ==
  ASSUME ThreadsOK, KernelOK, ThreadPlaces, NEW t \in Threads, NEW s,
         thread[t].pc # "idle", region' = [region EXCEPT ![thread[t].v] = s],
         Goto(t, "idle", None, None)
  PROVE  ThreadPlaces'
<1>1. /\ thread'[t] = [pc |-> "idle", v |-> None, page |-> None]
      /\ \A u \in Threads \ {t} : thread'[u] = thread[u] /\ thread[u].v # thread[t].v
      /\ thread[t].v \in VAs /\ thread[t].v # None
  <2>1. thread[t].v \in VAs /\ thread[t].v # None
    BY NoneAssumption DEF ThreadsOK
  <2> QED
    BY <2>1 DEF Goto, ThreadsOK, ThreadPlaces
<1>2. \A v \in VAs \ {thread[t].v} : region'[v] = region[v]
  BY DEF KernelOK
<1>3. \A u \in Threads \ {t} : thread[u].v # None => region'[thread[u].v] = region[thread[u].v]
  BY <1>1, <1>2 DEF ThreadsOK
<1>4. FaultThread \in Threads /\ Apps \subseteq Threads /\ "idle" \notin Leaving
  BY DEF Threads, Leaving
<1> QED
  BY <1>1, <1>3, <1>4 DEF ThreadPlaces

\* A thread that gets to an address nobody works on.
LEMMA PlacesEnter ==
  ASSUME ThreadsOK, KernelOK, ThreadPlaces, NEW t \in Threads, NEW v \in VAs, NEW pc, NEW p, NEW s,
         \A u \in Threads : thread[u].v # v, pc # "idle",
         region' = [region EXCEPT ![v] = s],
         IF t = FaultThread THEN s = "ready" /\ pc \notin Leaving
         ELSE s = IF pc \in Leaving THEN "unmapping" ELSE "mapping",
         Goto(t, pc, v, p)
  PROVE  ThreadPlaces'
<1>1. /\ thread'[t] = [pc |-> pc, v |-> v, page |-> p] /\ v # None
      /\ \A u \in Threads \ {t} : thread'[u] = thread[u] /\ thread[u].v # v
  BY NoneAssumption DEF Goto, ThreadsOK
<1>2. region'[v] = s /\ \A u \in VAs \ {v} : region'[u] = region[u]
  BY DEF KernelOK
<1>3. \A u \in Threads \ {t} : thread[u].v # None => region'[thread[u].v] = region[thread[u].v]
  BY <1>1, <1>2 DEF ThreadsOK
<1>4. FaultThread \in Threads /\ Apps \subseteq Threads /\ FaultThread \notin Apps
  BY ThreadsAssumption DEF Threads
<1> QED
  BY <1>1, <1>2, <1>3, <1>4 DEF ThreadPlaces

\* Nobody works on an address that is reserved and has no thread inside mmap
\* or munmap, or is not even reserved.
LEMMA NobodyAt ==
  ASSUME ThreadPlaces, NEW v \in VAs,
         \/ region[v] = "none"
         \/ region[v] = "ready" /\ thread[FaultThread].v # v
  PROVE  \A u \in Threads : thread[u].v # v
BY NoneAssumption DEF ThreadPlaces, Threads

\* Every step leaves one thread at an address.
LEMMA ThreadPlacesStep ==
  ASSUME OwnInv, [Next]_vars
  PROVE  ThreadPlaces'
<1>0. TypeOK /\ ThreadsOK /\ KernelOK /\ ThreadPlaces /\ FaultThread \in Threads /\ Apps \subseteq Threads
  BY DEF OwnInv, TypeOK, Threads
<1>1. CASE UNCHANGED <<thread, region>>
  BY <1>0, <1>1 DEF ThreadPlaces
<1>2. ASSUME NEW v \in VAs, MissingFault(v) PROVE ThreadPlaces'
  <2>1. /\ thread[FaultThread].pc = "idle" /\ region[v] = "ready" /\ UNCHANGED region
        /\ Goto(FaultThread, "dram", v, None)
    BY <1>2 DEF MissingFault, kernelVars
  <2>2. thread[FaultThread].v = None /\ v # None
    BY <1>0, <2>1, NoneAssumption DEF ThreadPlaces
  <2>3. \A u \in Threads : thread[u].v # v
    BY <1>0, <2>1, <2>2, NobodyAt
  <2>4. region' = [region EXCEPT ![v] = "ready"]
    BY <1>0, <2>1 DEF KernelOK
  <2> QED
    BY <1>0, <2>1, <2>3, <2>4, PlacesEnter DEF Leaving
<1>3. ASSUME NEW a \in Apps, NEW v \in VAs, NEW populate \in BOOLEAN, Mmap(a, v, populate)
      PROVE  ThreadPlaces'
  <2>1. \A u \in Threads : thread[u].v # v
    BY <1>0, <1>3, NobodyAt DEF Mmap
  <2>2. CASE populate
    <3>1. region' = [region EXCEPT ![v] = "mapping"] /\ Goto(a, "dram", v, None) /\ a # FaultThread
      BY <1>3, <2>2, ThreadsAssumption DEF Mmap
    <3> QED
      BY <1>0, <2>1, <3>1, PlacesEnter DEF Leaving
  <2>3. CASE ~populate
    <3>1. UNCHANGED thread /\ \A u \in VAs \ {v} : region'[u] = region[u]
      BY <1>0, <1>3, <2>3 DEF Mmap, KernelOK
    <3>2. \A u \in Threads : thread[u].v # None => region'[thread[u].v] = region[thread[u].v]
      BY <1>0, <2>1, <3>1 DEF ThreadsOK
    <3> QED
      BY <1>0, <3>1, <3>2 DEF ThreadPlaces
  <2> QED
    BY <2>2, <2>3
<1>4. ASSUME NEW a \in Apps, NEW v \in VAs, Munmap(a, v) PROVE ThreadPlaces'
  <2>1. /\ region' = [region EXCEPT ![v] = "unmapping"] /\ a # FaultThread
        /\ \A u \in Threads : thread[u].v # v
        /\ Goto(a, IF pages[v] = None THEN "unmap" ELSE "remove", v, pages[v])
    BY <1>4, ThreadsAssumption DEF Munmap
  <2> QED
    BY <1>0, <2>1, PlacesEnter DEF Leaving
<1>5. ASSUME NEW t \in Threads, AllocateNext(t) PROVE ThreadPlaces'
  <2>1. CASE AllocateDram(t)
    <3>1. /\ thread[t].pc = "dram" /\ UNCHANGED region
          /\ \E pc \in {"map", "nvm"} : \E p : Goto(t, pc, thread[t].v, p)
      BY <2>1 DEF AllocateDram, kernelVars
    <3> QED
      BY <1>0, <3>1, PlacesGoto DEF Leaving
  <2>2. CASE AllocateNvm(t)
    <3>1. /\ thread[t].pc = "nvm" /\ UNCHANGED region
          /\ UNCHANGED thread \/ \E p : Goto(t, "map", thread[t].v, p)
      BY <2>2 DEF AllocateNvm, kernelVars
    <3> QED
      BY <1>0, <1>1, <3>1, PlacesGoto DEF Leaving
  <2>3. CASE MapFrame(t)
    BY <1>0, <2>3, PlacesGoto DEF MapFrame, Leaving
  <2>4. CASE TrackPage(t)
    BY <1>0, <2>4, PlacesGoto DEF TrackPage, kernelVars, Leaving
  <2>5. CASE ReportAdd(t)
    BY <1>0, <2>5, PlacesLeave DEF ReportAdd
  <2> QED
    BY <1>5, <2>1, <2>2, <2>3, <2>4, <2>5 DEF AllocateNext
<1>6. ASSUME NEW a \in Apps, ReleaseNext(a) PROVE ThreadPlaces'
  <2>1. CASE ReportRemoval(a)
    BY <1>0, <2>1, PlacesGoto DEF ReportRemoval, kernelVars, Leaving
  <2>2. CASE ClearPresent(a)
    BY <1>0, <2>2, PlacesGoto DEF ClearPresent, kernelVars, Leaving
  <2>3. CASE Unmap(a)
    BY <1>0, <2>3, PlacesLeave DEF Unmap
  <2> QED
    BY <1>6, <2>1, <2>2, <2>3 DEF ReleaseNext
<1>7. CASE PolicyNext
  BY <1>1, <1>7 DEF PolicyNext, WakeUp, Drain, Score, Collect, BeginMigrations, StopMigrations,
     Choose, GiveBack, SubmitPromotion, GiveUpDemotion, SubmitExchange, PostSubmission, kernelVars
<1>8. ASSUME NEW w \in Workers, WorkerNext(w) PROVE ThreadPlaces'
  BY <1>1, <1>8 DEF WorkerNext, WakeWorker, TakeRequest, DemoteStart, PromoteStart,
     LockForMigration, SkipDemotion, SkipPromotion, Remap, Commit, ResetAfterDemotion,
     ResetAfterPromotion, kernelVars
<1>9. CASE AssertFails \/ UNCHANGED vars
  BY <1>1, <1>9 DEF AssertFails, vars, kernelVars
<1> QED
  BY <1>2, <1>3, <1>4, <1>5, <1>6, <1>7, <1>8, <1>9 DEF Next, AppNext

------------------------------------------------------------------------------
(* The tables and the queue between them.                                  *)

\* Which variables the policy thread and the migration threads leave alone.
LEMMA PolicyLeaves ==
  ASSUME PolicyNext
  PROVE  /\ UNCHANGED <<va, frame, present, migrating, page_lock, pages, page_table, region,
                        thread, wstep, old_frame, new_frame, unmaps, aborted>>
         /\ Drain \/ UNCHANGED <<pages_map, mod_page_dq>>
BY DEF PolicyNext, WakeUp, Drain, Score, Collect, BeginMigrations, StopMigrations, Choose,
       GiveBack, SubmitPromotion, GiveUpDemotion, SubmitExchange, PostSubmission, structVars,
       tables, kernelVars, workVars

\* Which variables a migration thread leaves alone.
LEMMA WorkerLeaves ==
  ASSUME NEW w \in Workers, WorkerNext(w)
  PROVE  UNCHANGED <<va, pages, pages_map, mod_page_dq, region, thread, step, scores,
                     promote_idx, demote_idx, np, unmaps, aborted>>
BY DEF WorkerNext, WakeWorker, TakeRequest, DemoteStart, PromoteStart, LockForMigration,
       SkipDemotion, SkipPromotion, Remap, Commit, ResetAfterDemotion, ResetAfterPromotion,
       structVars, tables, kernelVars, policyVars

\* A thread that neither gets to nor leaves a place where it has to report.
LEMMA TablesGoto ==
  ASSUME ThreadsOK, TablePlaces, UNCHANGED <<va, pages>>, NEW t \in Threads, NEW pc, NEW v, NEW p,
         Goto(t, pc, v, p), pc \notin {"report", "remove"}
  PROVE  TablePlaces'
<1>1. /\ thread'[t].pc = pc /\ \A u \in Threads \ {t} : thread'[u] = thread[u]
  BY DEF Goto, ThreadsOK
<1> QED
  BY <1>1 DEF TablePlaces

\* Every step keeps va, the table and what threads report in line.
LEMMA TablePlacesStep ==
  ASSUME OwnInv, [Next]_vars
  PROVE  TablePlaces'
<1>0. /\ TypeOK /\ ThreadsOK /\ TablesOK /\ StructsOK /\ ThreadPlaces /\ TablePlaces /\ Accounted
      /\ FaultThread \in Threads /\ Apps \subseteq Threads
  BY DEF OwnInv, TypeOK, Threads
<1>1. CASE UNCHANGED <<thread, va, pages>>
  BY <1>0, <1>1 DEF TablePlaces
<1>2. ASSUME NEW v \in VAs, MissingFault(v) PROVE TablePlaces'
  BY <1>0, <1>2, TablesGoto DEF MissingFault, structVars, tables
<1>3. ASSUME NEW a \in Apps, NEW v \in VAs, NEW populate \in BOOLEAN, Mmap(a, v, populate)
      PROVE  TablePlaces'
  BY <1>0, <1>1, <1>3, TablesGoto DEF Mmap, structVars, tables
<1>4. ASSUME NEW a \in Apps, NEW v \in VAs, Munmap(a, v) PROVE TablePlaces'
  <2>1. /\ \A u \in Threads : thread[u].v # v
        /\ Goto(a, IF pages[v] = None THEN "unmap" ELSE "remove", v, pages[v])
        /\ pages' = [pages EXCEPT ![v] = None] /\ UNCHANGED va
    BY <1>4 DEF Munmap, structVars
  <2>2. /\ thread'[a] = [pc |-> IF pages[v] = None THEN "unmap" ELSE "remove", v |-> v,
                         page |-> pages[v]]
        /\ \A u \in Threads \ {a} : thread'[u] = thread[u]
    BY <1>0, <2>1 DEF Goto, ThreadsOK
  <2>3. pages'[v] = None /\ \A u \in VAs \ {v} : pages'[u] = pages[u]
    BY <1>0, <2>1 DEF TablesOK
  <2>4. \A u \in Threads \ {a} : thread[u].pc # "idle" => pages'[thread[u].v] = pages[thread[u].v]
    BY <1>0, <2>1, <2>3 DEF ThreadsOK
  <2> QED
    BY <1>0, <2>1, <2>2, <2>3, <2>4 DEF TablePlaces
<1>5. ASSUME NEW t \in Threads, ThreadAsserts(t), TrackPage(t) PROVE TablePlaces'
  <2> DEFINE p == thread[t].page
             v == thread[t].v
  <2>1. /\ thread[t].pc = "track" /\ Goto(t, "report", v, p) /\ p \in Pages /\ v \in VAs
        /\ pages' = [pages EXCEPT ![v] = p] /\ va' = [va EXCEPT ![p] = v]
    BY <1>0, <1>5 DEF TrackPage, ThreadsOK
  <2>2. /\ thread'[t] = [pc |-> "report", v |-> v, page |-> p]
        /\ \A u \in Threads \ {t} : thread'[u] = thread[u]
    BY <1>0, <2>1 DEF Goto, ThreadsOK
  <2>3. p \in Holding["allocating"]
    BY <2>1 DEF Holding, PagesInside, Inside, Allocating
  <2>4. p \notin Holding["tracked"] /\ p \notin Holding["removing"]
    BY <1>0, <2>1, <2>3, NotWith DEF Kinds
  <2>5. /\ \A u \in VAs : pages[u] # p
        /\ \A u \in Threads : thread[u].pc = "remove" => thread[u].page # p
    BY <1>0, <2>1, <2>4, NoneAssumption DEF Holding, Range, TablesOK, PagesInside, Inside, Removing
  <2>6. pages'[v] = p /\ va'[p] = v /\ \A u \in VAs \ {v} : pages'[u] = pages[u]
    BY <1>0, <2>1 DEF TablesOK, StructsOK
  <2>7. \A q \in Pages \ {p} : va'[q] = va[q]
    BY <1>0, <2>1 DEF StructsOK
  <2>8. \A u \in VAs : pages'[u] # None => va'[pages'[u]] = u
    BY <1>0, <2>5, <2>6, <2>7 DEF TablePlaces, TablesOK
  <2>9. \A u \in Threads \ {t} : thread[u].pc # "idle" => thread[u].v \in VAs \ {v}
    BY <1>0, <2>1, NoneAssumption DEF ThreadPlaces, ThreadsOK
  <2>10. \A u \in Threads : thread'[u].pc = "report" => pages'[thread'[u].v] = thread'[u].page
    BY <1>0, <2>1, <2>2, <2>6, <2>9 DEF TablePlaces
  <2>11. \A u \in Threads : thread'[u].pc = "remove" =>
            pages'[thread'[u].v] = None /\ va'[thread'[u].page] = thread'[u].v
    BY <1>0, <2>1, <2>2, <2>5, <2>6, <2>7, <2>9 DEF TablePlaces, ThreadsOK
  <2> QED
    BY <2>8, <2>10, <2>11 DEF TablePlaces
<1>6. ASSUME NEW t \in Threads, AllocateNext(t) PROVE TablePlaces'
  <2>1. CASE AllocateDram(t)
    BY <1>0, <2>1, TablesGoto DEF AllocateDram, tables
  <2>2. CASE AllocateNvm(t)
    BY <1>0, <1>1, <2>2, TablesGoto DEF AllocateNvm, tables
  <2>3. CASE MapFrame(t)
    BY <1>0, <2>3, TablesGoto DEF MapFrame, structVars, tables
  <2>4. CASE ReportAdd(t)
    BY <1>0, <2>4, TablesGoto DEF ReportAdd, structVars
  <2> QED
    BY <1>5, <1>6, <2>1, <2>2, <2>3, <2>4 DEF AllocateNext
<1>7. ASSUME NEW a \in Apps, ReleaseNext(a) PROVE TablePlaces'
  <2>1. CASE ReportRemoval(a)
    BY <1>0, <2>1, TablesGoto DEF ReportRemoval, structVars
  <2>2. CASE ClearPresent(a)
    BY <1>0, <2>2, TablesGoto DEF ClearPresent, tables
  <2>3. CASE Unmap(a)
    BY <1>0, <2>3, TablesGoto DEF Unmap, structVars, tables
  <2> QED
    BY <1>7, <2>1, <2>2, <2>3 DEF ReleaseNext
<1>8. CASE PolicyNext
  BY <1>1, <1>8, PolicyLeaves
<1>9. ASSUME NEW w \in Workers, WorkerNext(w) PROVE TablePlaces'
  BY <1>1, <1>9, WorkerLeaves
<1>10. CASE AssertFails \/ UNCHANGED vars
  BY <1>1, <1>10 DEF AssertFails, vars, structVars, tables
<1> QED
  BY <1>2, <1>3, <1>4, <1>6, <1>7, <1>8, <1>9, <1>10 DEF Next, AppNext

\* What the queue will make of pages_map, after an entry has been pushed: the
\* same for the entries before it ...
LEMMA ShowsPrefix ==
  ASSUME TablesOK, NEW e, mod_page_dq' = Append(mod_page_dq, e), UNCHANGED <<va, pages_map>>,
         NEW v, NEW q, NEW n \in 0 .. Len(mod_page_dq), Shows(v, n, q)
  PROVE  Shows(v, n, q)'
<1>1. /\ mod_page_dq \in Seq([page : Pages, free : BOOLEAN])
      /\ Len(mod_page_dq) \in Nat /\ 1 .. n \subseteq 1 .. Len(mod_page_dq)
  BY DEF TablesOK
<1>2. \A i \in 1 .. n : mod_page_dq'[i] = mod_page_dq[i]
  BY <1>1
<1>3. \A i \in 1 .. n : (About(i, v)' <=> About(i, v)) /\ Result(i)' = Result(i)
  BY <1>2 DEF About, Result
<1>4. \A i \in 1 .. n : i + 1 .. n \subseteq 1 .. n
  OBVIOUS
<1> QED
  BY <1>3, <1>4 DEF Shows

\* ... and for its own address what it says.
LEMMA ShowsAppend ==
  ASSUME TablesOK, NEW p \in Pages, NEW f \in BOOLEAN,
         mod_page_dq' = Append(mod_page_dq, [page |-> p, free |-> f]),
         UNCHANGED <<va, pages_map>>, NEW v, NEW q,
         IF va[p] = v THEN q = (IF f THEN None ELSE p) ELSE Shows(v, Len(mod_page_dq), q)
  PROVE  Shows(v, Len(mod_page_dq), q)'
<1>0. PICK n \in Nat : n = Len(mod_page_dq)
  BY DEF TablesOK
<1>1. /\ Len(mod_page_dq') = n + 1 /\ mod_page_dq'[n + 1] = [page |-> p, free |-> f]
      /\ \A i \in 1 .. n : mod_page_dq'[i] = mod_page_dq[i]
  BY <1>0 DEF TablesOK
<1>2. (About(n + 1, v)' <=> va[p] = v) /\ Result(n + 1)' = IF f THEN None ELSE p
  BY <1>1 DEF About, Result
<1>3. \A i \in 1 .. n : (About(i, v)' <=> About(i, v)) /\ Result(i)' = Result(i)
  BY <1>1 DEF About, Result
<1>4. CASE va[p] = v
  <2>1. n + 1 \in 1 .. n + 1 /\ \A j \in (n + 1) + 1 .. n + 1 : FALSE
    BY <1>1
  <2> QED
    BY <1>1, <1>2, <1>4, <2>1 DEF Shows
<1>5. CASE va[p] # v
  <2>1. Shows(v, n, q)
    BY <1>0, <1>5
  <2>2. CASE (\A i \in 1 .. n : ~About(i, v)) /\ pages_map[v] = q
    <3>1. \A i \in 1 .. n + 1 : ~About(i, v)'
      BY <1>1, <1>2, <1>3, <1>5, <2>2
    <3> QED
      BY <1>1, <2>2, <3>1 DEF Shows
  <2>3. ASSUME NEW i \in 1 .. n, About(i, v), \A j \in i + 1 .. n : ~About(j, v), q = Result(i)
        PROVE  Shows(v, Len(mod_page_dq), q)'
    <3>1. i \in 1 .. n + 1 /\ About(i, v)' /\ q = Result(i)'
      BY <1>1, <1>3, <2>3
    <3>2. \A j \in i + 1 .. n + 1 : ~About(j, v)'
      <4> SUFFICES ASSUME NEW j \in i + 1 .. n + 1 PROVE ~About(j, v)'
        OBVIOUS
      <4>1. CASE j = n + 1
        BY <1>2, <1>5, <4>1
      <4>2. CASE j # n + 1
        <5>1. j \in i + 1 .. n /\ j \in 1 .. n
          BY <1>1, <4>2
        <5> QED
          BY <1>3, <2>3, <5>1
      <4> QED
        BY <4>1, <4>2
    <3> QED
      BY <1>1, <3>1, <3>2 DEF Shows
  <2> QED
    BY <2>1, <2>2, <2>3 DEF Shows
<1> QED
  BY <1>4, <1>5

\* The policy thread applies the oldest entry.
LEMMA ShowsTail ==
  ASSUME TypeOK, EntriesAlternate, Drain, NEW v \in VAs, NEW q,
         NEW n \in 0 .. Len(mod_page_dq) - 1, Shows(v, n + 1, q)
  PROVE  Shows(v, n, q)'
<1> DEFINE p == mod_page_dq[1].page
<1>1. /\ mod_page_dq # <<>> /\ mod_page_dq' = Tail(mod_page_dq) /\ UNCHANGED va
      /\ Len(mod_page_dq) \in Nat \ {0}
      /\ \A i \in 1 .. Len(mod_page_dq) - 1 : mod_page_dq'[i] = mod_page_dq[i + 1]
  BY RemovedTail DEF Drain, structVars, TypeOK
<1>2. /\ va[p] \in VAs /\ p \in Pages /\ mod_page_dq[1].free \in BOOLEAN
      /\ pages_map' = [pages_map EXCEPT ![va[p]] = Result(1)]
  <2>1. /\ Head(mod_page_dq) = mod_page_dq[1] /\ p \in Pages /\ mod_page_dq[1].free \in BOOLEAN
        /\ va[p] \in VAs /\ va[p] # None
        /\ mod_page_dq[1].free => pages_map[va[p]] # None
    BY <1>1, HeadKnown, NoneAssumption
  <2> QED
    BY <2>1 DEF Drain, Result
<1>3. \A u \in VAs : pages_map'[u] = IF About(1, u) THEN Result(1) ELSE pages_map[u]
  BY <1>2 DEF TypeOK, TablesOK, About
<1>4. \A i \in 1 .. n : (About(i, v)' <=> About(i + 1, v)) /\ Result(i)' = Result(i + 1)
  <2>1. \A i \in 1 .. n : mod_page_dq'[i] = mod_page_dq[i + 1]
    BY <1>1
  <2> QED
    BY <1>1, <2>1 DEF About, Result
<1>5. CASE (\A i \in 1 .. n + 1 : ~About(i, v)) /\ pages_map[v] = q
  <2>1. 1 \in 1 .. n + 1 /\ \A i \in 1 .. n : i + 1 \in 1 .. n + 1
    BY <1>1
  <2>2. \A i \in 1 .. n : ~About(i, v)'
    BY <1>4, <1>5, <2>1
  <2>3. pages_map'[v] = q
    BY <1>3, <1>5, <2>1
  <2> QED
    BY <2>2, <2>3 DEF Shows
<1>6. ASSUME NEW i \in 1 .. n + 1, About(i, v), \A j \in i + 1 .. n + 1 : ~About(j, v),
             q = Result(i)
      PROVE  Shows(v, n, q)'
  <2>1. CASE i = 1
    <3>1. \A j \in 1 .. n : j + 1 \in i + 1 .. n + 1
      BY <2>1
    <3>2. \A j \in 1 .. n : ~About(j, v)'
      BY <1>4, <1>6, <3>1
    <3>3. pages_map'[v] = q
      BY <1>3, <1>6, <2>1
    <3> QED
      BY <3>2, <3>3 DEF Shows
  <2>2. CASE i # 1
    <3>1. i - 1 \in 1 .. n /\ (i - 1) + 1 = i
      BY <1>1, <2>2
    <3>2. About(i - 1, v)' /\ q = Result(i - 1)'
      BY <1>4, <1>6, <3>1
    <3>3. \A j \in (i - 1) + 1 .. n : j \in 1 .. n /\ j + 1 \in i + 1 .. n + 1
      BY <1>1, <3>1
    <3>4. \A j \in (i - 1) + 1 .. n : ~About(j, v)'
      BY <1>4, <1>6, <3>3
    <3> QED
      BY <3>1, <3>2, <3>4 DEF Shows
  <2> QED
    BY <2>1, <2>2
<1> QED
  BY <1>5, <1>6 DEF Shows

\* A struct that gets an address while no entry is about it.
LEMMA ShowsStays ==
  ASSUME UNCHANGED <<mod_page_dq, pages_map>>, NEW n \in 0 .. Len(mod_page_dq),
         \A i \in 1 .. n : va'[mod_page_dq[i].page] = va[mod_page_dq[i].page],
         NEW v, NEW q, Shows(v, n, q)
  PROVE  Shows(v, n, q)'
<1>1. \A i \in 1 .. n : (About(i, v)' <=> About(i, v)) /\ Result(i)' = Result(i)
  BY DEF About, Result
<1>2. \A i \in 1 .. n : i + 1 .. n \subseteq 1 .. n
  OBVIOUS
<1> QED
  BY <1>1, <1>2 DEF Shows

Entries == EntriesAlternate /\ EntriesComplete /\ AdditionsFirst

\* What a step leaves of Shows when it leaves the queue and the addresses.
LEMMA ShowsSame ==
  ASSUME UNCHANGED <<mod_page_dq, pages_map, va>>, NEW v, NEW n, NEW q
  PROVE  Shows(v, n, q)' <=> Shows(v, n, q)
BY DEF Shows, About, Result

\* A step that touches none of them.
LEMMA EntriesSame ==
  ASSUME Entries, UNCHANGED <<thread, va, pages, pages_map, mod_page_dq>>
  PROVE  Entries'
<1>1. UNCHANGED <<Holding["tracked"], Holding["removing"], RemovedAt>>
  BY ThreadsStay DEF Holding, RemovedAt
<1>2. AdditionsFirst'
  BY <1>1 DEF Entries, AdditionsFirst
<1>3. EntriesAlternate'
  BY ShowsSame DEF Entries, EntriesAlternate
<1>4. EntriesComplete'
  BY ShowsSame DEF Entries, EntriesComplete, Reporting
<1> QED
  BY <1>2, <1>3, <1>4 DEF Entries

\* A thread that neither gets to nor leaves a place where it has to report.
LEMMA EntriesGoto ==
  ASSUME TypeOK, Entries, OneInside(Removing), UNCHANGED <<va, pages, pages_map, mod_page_dq>>,
         NEW t \in Threads, NEW pc, NEW v, NEW p, Goto(t, pc, v, p),
         pc \notin {"report", "remove"}, thread[t].pc \notin {"report", "remove"}
  PROVE  Entries'
<1>0. ThreadsOK
  BY DEF TypeOK
<1>1. UNCHANGED PagesInside(Removing)
  BY <1>0, GotoInside DEF Removing
<1>2. UNCHANGED <<Holding["tracked"], Holding["removing"], RemovedAt>>
  BY <1>1 DEF Holding, RemovedAt
<1>3. AdditionsFirst'
  BY <1>2 DEF Entries, AdditionsFirst
<1>4. EntriesAlternate'
  BY ShowsSame DEF Entries, EntriesAlternate
<1>5. thread'[t].pc = pc /\ \A u \in Threads \ {t} : thread'[u] = thread[u]
  BY <1>0 DEF Goto, ThreadsOK
<1>6. \A u \in VAs : Reporting(u)' <=> Reporting(u)
  BY <1>5 DEF Reporting
<1>7. EntriesComplete'
  BY <1>5, <1>6, ShowsSame DEF Entries, EntriesComplete
<1> QED
  BY <1>3, <1>4, <1>7 DEF Entries

\* A struct being allocated is in no entry: its last use is over.
LEMMA AllocatingNotQueued ==
  ASSUME Accounted, AdditionsFirst, NEW p \in Pages, p \in Holding["allocating"]
  PROVE  \A i \in DOMAIN mod_page_dq : mod_page_dq[i].page # p
<1>1. \A k \in Kinds \ {"allocating"} : p \notin Holding[k]
  BY NotWith DEF Kinds
<1>2. p \notin Holding["tracked"] /\ p \notin Holding["removing"] /\ p \notin Holding["removed"]
  BY <1>1 DEF Kinds
<1>3. \A i \in RemovedAt : mod_page_dq[i].page # p
  BY <1>2 DEF Holding
<1> QED
  BY <1>2, <1>3 DEF AdditionsFirst, RemovedAt

\* pebs_add_page: the thread has the addition to report.
LEMMA EntriesTrackPage ==
  ASSUME OwnInv, NEW t \in Threads, ThreadAsserts(t), TrackPage(t)
  PROVE  Entries'
<1> DEFINE p == thread[t].page
           v == thread[t].v
<1>0. /\ TypeOK /\ ThreadsOK /\ TablesOK /\ StructsOK /\ ThreadPlaces /\ Entries /\ Accounted
      /\ OneInside(Removing)
  BY DEF OwnInv, TypeOK, Entries, Once
<1>1. /\ thread[t].pc = "track" /\ Goto(t, "report", v, p) /\ p \in Pages /\ v \in VAs
      /\ pages[v] = None /\ pages' = [pages EXCEPT ![v] = p] /\ va' = [va EXCEPT ![p] = v]
      /\ UNCHANGED <<mod_page_dq, pages_map>>
  BY <1>0 DEF TrackPage, ThreadAsserts, ThreadsOK
<1>2. /\ thread'[t] = [pc |-> "report", v |-> v, page |-> p]
      /\ \A u \in Threads \ {t} : thread'[u] = thread[u]
  BY <1>0, <1>1 DEF Goto, ThreadsOK
<1>3. \A i \in DOMAIN mod_page_dq : mod_page_dq[i].page # p /\ mod_page_dq[i].page \in Pages
  <2>1. p \in Holding["allocating"]
    BY <1>1 DEF Holding, PagesInside, Inside, Allocating
  <2>2. \A i \in DOMAIN mod_page_dq : mod_page_dq[i].page # p
    BY <1>0, <1>1, <2>1, AllocatingNotQueued DEF Entries
  <2>3. \A i \in DOMAIN mod_page_dq : mod_page_dq[i] \in [page : Pages, free : BOOLEAN]
    BY <1>0, ElementOf DEF TablesOK
  <2> QED
    BY <2>2, <2>3
<1>4. /\ DOMAIN mod_page_dq = 1 .. Len(mod_page_dq) /\ Len(mod_page_dq) \in Nat
      /\ \A i \in DOMAIN mod_page_dq : va'[mod_page_dq[i].page] = va[mod_page_dq[i].page]
  BY <1>0, <1>1, <1>3 DEF TablesOK, StructsOK
<1>5. ASSUME NEW u, NEW q, NEW n \in 0 .. Len(mod_page_dq), Shows(u, n, q) PROVE Shows(u, n, q)'
  <2>1. \A i \in 1 .. n : va'[mod_page_dq[i].page] = va[mod_page_dq[i].page]
    BY <1>4
  <2> QED
    BY <1>1, <1>5, <2>1, ShowsStays
<1>6. EntriesAlternate'
  <2> SUFFICES ASSUME NEW n \in DOMAIN mod_page_dq'
               PROVE  (LET e == mod_page_dq[n] IN
                       va[e.page] \in VAs /\ Shows(va[e.page], n - 1, IF e.free THEN e.page ELSE None))'
    BY DEF EntriesAlternate
  <2>1. PICK u, q : /\ u = va[mod_page_dq[n].page] /\ Shows(u, n - 1, q) /\ u \in VAs
                    /\ q = IF mod_page_dq[n].free THEN mod_page_dq[n].page ELSE None
    BY <1>0, <1>1 DEF Entries, EntriesAlternate
  <2>2. n - 1 \in 0 .. Len(mod_page_dq)
    BY <1>1, <1>4
  <2>3. Shows(u, n - 1, q)'
    BY <1>5, <2>1, <2>2
  <2>4. /\ u = va'[mod_page_dq'[n].page]
        /\ q = IF mod_page_dq'[n].free THEN mod_page_dq'[n].page ELSE None
    BY <1>1, <1>4, <2>1
  <2> QED
    BY <2>1, <2>3, <2>4
<1>7. \A u \in Threads \ {t} : thread[u].v # v
  BY <1>0, <1>1, NoneAssumption DEF ThreadPlaces
<1>8. \A u \in VAs : IF u = v THEN ~Reporting(u) /\ Reporting(u)'
                     ELSE Reporting(u)' <=> Reporting(u)
  BY <1>1, <1>2, <1>7 DEF Reporting
<1>9. Shows(v, Len(mod_page_dq), None)
  BY <1>0, <1>1, <1>8 DEF Entries, EntriesComplete
<1>10. EntriesComplete'
  <2>1. PICK n \in Nat : n = Len(mod_page_dq) /\ n = Len(mod_page_dq')
    BY <1>1, <1>4
  <2>2. ASSUME NEW u \in VAs, ~Reporting(u)' PROVE Shows(u, Len(mod_page_dq), pages[u])'
    <3>1. PICK q : q = pages[u] /\ q = pages'[u]
      BY <1>0, <1>1, <1>8, <2>2 DEF TablesOK
    <3>2. Shows(u, n, q)
      BY <1>0, <1>8, <2>1, <2>2, <3>1 DEF Entries, EntriesComplete
    <3>3. Shows(u, n, q)'
      BY <1>5, <2>1, <3>2
    <3> QED
      BY <2>1, <3>1, <3>3
  <2>3. ASSUME NEW u \in Threads, thread'[u].pc \in {"report", "remove"}
        PROVE  Shows(thread[u].v, Len(mod_page_dq),
                     IF thread[u].pc = "report" THEN None ELSE thread[u].page)'
    <3>1. PICK x, q : /\ x = thread'[u].v
                      /\ q = IF thread'[u].pc = "report" THEN None ELSE thread'[u].page
      OBVIOUS
    <3>2. Shows(x, n, q)
      BY <1>0, <1>2, <1>9, <2>1, <2>3, <3>1 DEF Entries, EntriesComplete
    <3>3. Shows(x, n, q)'
      BY <1>5, <2>1, <3>2
    <3> QED
      BY <2>1, <3>1, <3>3
  <2>4. \A u \in Threads : (thread[u].pc = "report" => Shows(thread[u].v, Len(mod_page_dq), None))'
    BY <2>3
  <2>5. \A u \in Threads :
           (thread[u].pc = "remove" => Shows(thread[u].v, Len(mod_page_dq), thread[u].page))'
    BY <2>3
  <2> QED
    BY <2>2, <2>4, <2>5 DEF EntriesComplete
<1>11. AdditionsFirst'
  <2>1. Holding'["tracked"] = Holding["tracked"] \cup {p}
    BY <1>0, <1>1, TrackedAdded DEF Holding
  <2>2. UNCHANGED PagesInside(Removing)
    BY <1>0, <1>1, GotoInside DEF Removing
  <2>3. UNCHANGED Holding["removing"] /\ UNCHANGED RemovedAt
    BY <1>1, <2>2 DEF Holding, RemovedAt
  <2> QED
    BY <1>0, <1>1, <2>1, <2>3 DEF Entries, AdditionsFirst
<1> QED
  BY <1>6, <1>10, <1>11 DEF Entries

\* An entry that finds what it needs may be pushed.
LEMMA AlternateAppend ==
  ASSUME TypeOK, EntriesAlternate, NEW p \in Pages, NEW f \in BOOLEAN,
         mod_page_dq' = Append(mod_page_dq, [page |-> p, free |-> f]),
         UNCHANGED <<va, pages_map>>, va[p] \in VAs,
         Shows(va[p], Len(mod_page_dq), IF f THEN p ELSE None)
  PROVE  EntriesAlternate'
<1>1. TablesOK /\ mod_page_dq \in Seq([page : Pages, free : BOOLEAN])
  BY DEF TypeOK, TablesOK
<1>2. PICK m \in Nat : m = Len(mod_page_dq)
  BY <1>1
<1>3. /\ DOMAIN mod_page_dq' = 1 .. m + 1 /\ DOMAIN mod_page_dq = 1 .. m
      /\ mod_page_dq'[m + 1] = [page |-> p, free |-> f]
      /\ \A i \in 1 .. m : mod_page_dq'[i] = mod_page_dq[i]
  BY <1>1, <1>2
<1> SUFFICES ASSUME NEW n \in 1 .. m + 1
             PROVE  (LET e == mod_page_dq[n] IN
                     va[e.page] \in VAs /\ Shows(va[e.page], n - 1, IF e.free THEN e.page ELSE None))'
  BY <1>3 DEF EntriesAlternate
<1>4. PICK u, q : /\ u = va[mod_page_dq'[n].page]
                  /\ q = IF mod_page_dq'[n].free THEN mod_page_dq'[n].page ELSE None
  OBVIOUS
<1>5. u \in VAs /\ Shows(u, n - 1, q)
  <2>1. CASE n = m + 1
    BY <1>2, <1>3, <1>4, <2>1
  <2>2. CASE n # m + 1
    <3>1. n \in DOMAIN mod_page_dq /\ mod_page_dq'[n] = mod_page_dq[n]
      BY <1>2, <1>3, <2>2
    <3> QED
      BY <1>4, <3>1 DEF EntriesAlternate
  <2> QED
    BY <2>1, <2>2
<1>6. n - 1 \in 0 .. Len(mod_page_dq)
  BY <1>2
<1>7. Shows(u, n - 1, q)'
  BY <1>1, <1>5, <1>6, ShowsPrefix
<1> QED
  BY <1>4, <1>5, <1>7

\* The thread that has pushed what it had to report.
LEMMA CompleteAppend ==
  ASSUME OwnInv, NEW t \in Threads, NEW pc, NEW w, NEW q, Goto(t, pc, w, q),
         pc \notin {"report", "remove"}, thread[t].pc \in {"report", "remove"},
         NEW p \in Pages, NEW f \in BOOLEAN, va[p] = thread[t].v,
         mod_page_dq' = Append(mod_page_dq, [page |-> p, free |-> f]),
         UNCHANGED <<va, pages_map, pages>>,
         pages[thread[t].v] = IF f THEN None ELSE p
  PROVE  EntriesComplete'
<1>0. /\ TypeOK /\ ThreadsOK /\ TablesOK /\ ThreadPlaces /\ EntriesComplete
      /\ thread[t].v \in VAs /\ thread[t].v # None
  BY NoneAssumption DEF OwnInv, TypeOK, ThreadsOK
<1>1. thread'[t].pc = pc /\ \A u \in Threads \ {t} : thread'[u] = thread[u]
  BY <1>0 DEF Goto, ThreadsOK
<1>2. \A u \in Threads \ {t} : thread[u].v # thread[t].v
  BY <1>0 DEF ThreadPlaces
<1>3. \A u \in VAs \ {thread[t].v} : Reporting(u)' <=> Reporting(u)
  BY <1>1 DEF Reporting
<1>4. ASSUME NEW u \in VAs, ~Reporting(u)' PROVE Shows(u, Len(mod_page_dq), pages[u])'
  <2>1. PICK x : x = pages[u] /\ x = pages'[u]
    OBVIOUS
  <2>2. IF va[p] = u THEN x = (IF f THEN None ELSE p) ELSE Shows(u, Len(mod_page_dq), x)
    BY <1>0, <1>3, <1>4, <2>1 DEF EntriesComplete
  <2>3. Shows(u, Len(mod_page_dq), x)'
    BY <1>0, <2>2, ShowsAppend
  <2> QED
    BY <2>1, <2>3
<1>5. ASSUME NEW u \in Threads, thread'[u].pc \in {"report", "remove"}
      PROVE  Shows(thread[u].v, Len(mod_page_dq),
                   IF thread[u].pc = "report" THEN None ELSE thread[u].page)'
  <2>1. PICK y, x : /\ y = thread'[u].v
                    /\ x = IF thread'[u].pc = "report" THEN None ELSE thread'[u].page
    OBVIOUS
  <2>2. u # t /\ thread'[u] = thread[u]
    BY <1>1, <1>5
  <2>3. va[p] # y /\ Shows(y, Len(mod_page_dq), x)
    BY <1>0, <1>2, <1>5, <2>1, <2>2 DEF EntriesComplete
  <2>4. Shows(y, Len(mod_page_dq), x)'
    BY <1>0, <2>3, ShowsAppend
  <2> QED
    BY <2>1, <2>4
<1>6. \A u \in Threads : (thread[u].pc = "report" => Shows(thread[u].v, Len(mod_page_dq), None))'
  BY <1>5
<1>7. \A u \in Threads :
         (thread[u].pc = "remove" => Shows(thread[u].v, Len(mod_page_dq), thread[u].page))'
  BY <1>5
<1> QED
  BY <1>4, <1>6, <1>7 DEF EntriesComplete

\* The addition reaches mod_page_dq.
LEMMA EntriesReportAdd ==
  ASSUME OwnInv, NEW t \in Threads, ReportAdd(t)
  PROVE  Entries'
<1> DEFINE p == thread[t].page
<1>0. /\ TypeOK /\ ThreadsOK /\ TablesOK /\ TablePlaces /\ Entries /\ OneInside(Removing)
  BY DEF OwnInv, TypeOK, Entries, Once
<1>1. /\ thread[t].pc = "report" /\ Goto(t, "idle", None, None) /\ p \in Pages
      /\ mod_page_dq' = Append(mod_page_dq, [page |-> p, free |-> FALSE])
      /\ UNCHANGED <<va, pages, pages_map>> /\ thread[t].v \in VAs
  BY <1>0 DEF ReportAdd, structVars, ThreadsOK
<1>2. pages[thread[t].v] = p /\ va[p] = thread[t].v /\ p # None
  BY <1>0, <1>1, NoneAssumption DEF TablePlaces
<1>3. Shows(va[p], Len(mod_page_dq), None)
  BY <1>0, <1>1, <1>2 DEF Entries, EntriesComplete
<1>4. EntriesAlternate'
  BY <1>0, <1>1, <1>2, <1>3, AlternateAppend DEF Entries
<1>5. EntriesComplete'
  BY <1>1, <1>2, CompleteAppend
<1>6. AdditionsFirst'
  <2>1. UNCHANGED PagesInside(Removing)
    BY <1>0, <1>1, GotoInside DEF Removing
  <2>2. UNCHANGED <<Holding["tracked"], Holding["removing"]>>
    BY <1>1, <2>1 DEF Holding
  <2>3. p \in Holding["tracked"]
    BY <1>0, <1>1, <1>2 DEF Holding, Range, TablesOK
  <2>4. LET n == Len(mod_page_dq) + 1 IN
        /\ mod_page_dq'[n] = [page |-> p, free |-> FALSE]
        /\ \A i \in DOMAIN mod_page_dq : mod_page_dq'[i] = mod_page_dq[i]
        /\ DOMAIN mod_page_dq' = DOMAIN mod_page_dq \cup {n} /\ RemovedAt' = RemovedAt
    BY <1>0, <1>1, RemovedAppend
  <2>5. \A i \in RemovedAt : i \in DOMAIN mod_page_dq
    BY DEF RemovedAt
  <2> QED
    BY <1>0, <2>2, <2>3, <2>4, <2>5 DEF Entries, AdditionsFirst
<1> QED
  BY <1>4, <1>5, <1>6 DEF Entries

\* The removal reaches mod_page_dq, after all that was there.
LEMMA EntriesReportRemoval ==
  ASSUME OwnInv, NEW a \in Apps, ReportRemoval(a)
  PROVE  Entries'
<1> DEFINE p == thread[a].page
<1>0. /\ TypeOK /\ ThreadsOK /\ TablesOK /\ TablePlaces /\ Entries /\ OneInside(Removing)
      /\ a \in Threads
  BY DEF OwnInv, TypeOK, Entries, Once, Threads
<1>1. /\ thread[a].pc = "remove" /\ Goto(a, "absent", thread[a].v, p) /\ p \in Pages
      /\ mod_page_dq' = Append(mod_page_dq, [page |-> p, free |-> TRUE])
      /\ UNCHANGED <<va, pages, pages_map>> /\ thread[a].v \in VAs
  BY <1>0 DEF ReportRemoval, structVars, ThreadsOK
<1>2. pages[thread[a].v] = None /\ va[p] = thread[a].v
  BY <1>0, <1>1 DEF TablePlaces
<1>3. Shows(va[p], Len(mod_page_dq), p)
  BY <1>0, <1>1, <1>2 DEF Entries, EntriesComplete
<1>4. EntriesAlternate'
  BY <1>0, <1>1, <1>2, <1>3, AlternateAppend DEF Entries
<1>5. EntriesComplete'
  <2>1. /\ a \in Threads /\ "absent" \notin {"report", "remove"}
        /\ thread[a].pc \in {"report", "remove"} /\ TRUE \in BOOLEAN
        /\ pages[thread[a].v] = IF TRUE THEN None ELSE p
    BY <1>0, <1>1, <1>2
  <2> QED
    BY <1>1, <1>2, <2>1, CompleteAppend
<1>6. AdditionsFirst'
  <2>1. PagesInside(Removing)' = PagesInside(Removing) \ {p}
    BY <1>0, <1>1, GotoInside DEF Removing
  <2>2. Holding'["tracked"] = Holding["tracked"] /\ Holding'["removing"] = Holding["removing"] \ {p}
    BY <1>1, <2>1 DEF Holding
  <2>3. PICK n : n = Len(mod_page_dq) + 1
    OBVIOUS
  <2>4. /\ mod_page_dq'[n] = [page |-> p, free |-> TRUE]
        /\ \A i \in DOMAIN mod_page_dq : mod_page_dq'[i] = mod_page_dq[i]
        /\ DOMAIN mod_page_dq' = DOMAIN mod_page_dq \cup {n} /\ RemovedAt' = RemovedAt \cup {n}
    BY <1>0, <1>1, <2>3, RemovedAppend
  <2>5. \A i \in DOMAIN mod_page_dq : i < n
    BY <1>0, <2>3 DEF TablesOK
  <2>6. \A i \in RemovedAt : i \in DOMAIN mod_page_dq
    BY DEF RemovedAt
  <2> SUFFICES ASSUME NEW i \in DOMAIN mod_page_dq', ~mod_page_dq'[i].free,
                      mod_page_dq'[i].page \notin Holding'["tracked"] \cup Holding'["removing"]
               PROVE  \E j \in RemovedAt' : i < j /\ mod_page_dq'[j].page = mod_page_dq'[i].page
    BY DEF AdditionsFirst
  <2>7. i \in DOMAIN mod_page_dq /\ mod_page_dq'[i] = mod_page_dq[i]
    BY <2>4
  <2>8. CASE mod_page_dq[i].page = p
    BY <2>4, <2>5, <2>7, <2>8
  <2>9. CASE mod_page_dq[i].page # p
    <3>1. PICK j \in RemovedAt : i < j /\ mod_page_dq[j].page = mod_page_dq[i].page
      BY <1>0, <2>2, <2>7, <2>9 DEF Entries, AdditionsFirst
    <3> QED
      BY <2>4, <2>6, <2>7, <3>1
  <2> QED
    BY <2>8, <2>9
<1> QED
  BY <1>4, <1>5, <1>6 DEF Entries

\* munmap takes a page out of the table: the thread has the removal to report.
LEMMA EntriesMunmap ==
  ASSUME OwnInv, NEW a \in Apps, NEW v \in VAs, Munmap(a, v)
  PROVE  Entries'
<1> DEFINE p == pages[v]
<1>0. /\ TypeOK /\ ThreadsOK /\ TablesOK /\ ThreadPlaces /\ TablePlaces /\ Entries
      /\ OneInside(Removing) /\ Accounted /\ a \in Threads
  BY DEF OwnInv, TypeOK, Entries, Once, Threads
<1>1. /\ thread[a].pc = "idle" /\ \A u \in Threads : thread[u].v # v
      /\ Goto(a, IF p = None THEN "unmap" ELSE "remove", v, p)
      /\ pages' = [pages EXCEPT ![v] = None] /\ UNCHANGED <<va, pages_map, mod_page_dq>>
  BY <1>0 DEF Munmap, structVars
<1>2. CASE p = None
  <2>1. UNCHANGED pages
    BY <1>0, <1>1, <1>2 DEF TablesOK
  <2> QED
    BY <1>0, <1>1, <1>2, <2>1, EntriesGoto
<1>3. CASE p # None
  <2>1. /\ thread'[a] = [pc |-> "remove", v |-> v, page |-> p]
        /\ \A u \in Threads \ {a} : thread'[u] = thread[u]
    BY <1>0, <1>1, <1>3 DEF Goto, ThreadsOK
  <2>2. p \in Pages /\ pages'[v] = None /\ \A u \in VAs \ {v} : pages'[u] = pages[u]
    BY <1>0, <1>1, <1>3 DEF TablesOK
  <2>3. ~Reporting(v) /\ \A u \in VAs : ~Reporting(u)' => ~Reporting(u) /\ u # v
    <3>1. ~Reporting(v)
      BY <1>1 DEF Reporting
    <3>2. ASSUME NEW u \in VAs, Reporting(u) PROVE Reporting(u)'
      <4>1. PICK t \in Threads : thread[t].v = u /\ thread[t].pc \in {"report", "remove"}
        BY <3>2 DEF Reporting
      <4>2. thread'[t] = thread[t]
        BY <1>1, <2>1, <4>1
      <4> QED
        BY <4>1, <4>2 DEF Reporting
    <3>3. ASSUME NEW u \in VAs, u = v PROVE Reporting(u)'
      BY <1>0, <2>1, <3>3 DEF Reporting
    <3> QED
      BY <3>1, <3>2, <3>3
  <2>4. Shows(v, Len(mod_page_dq), p)
    BY <1>0, <2>3 DEF Entries, EntriesComplete
  <2>5. EntriesAlternate'
    BY <1>0, <1>1, ShowsSame DEF Entries, EntriesAlternate
  <2>6. EntriesComplete'
    <3>1. ASSUME NEW u \in VAs, ~Reporting(u)' PROVE Shows(u, Len(mod_page_dq), pages[u])'
      <4>1. PICK n, q : n = Len(mod_page_dq) /\ q = pages[u]
        OBVIOUS
      <4>2. u # v /\ Shows(u, n, q) /\ pages'[u] = pages[u]
        BY <1>0, <2>2, <2>3, <3>1, <4>1 DEF Entries, EntriesComplete
      <4>3. Shows(u, n, q)'
        BY <1>1, <4>2, ShowsSame
      <4> QED
        BY <1>1, <4>1, <4>2, <4>3
    <3>2. \A u \in Threads : (thread[u].pc = "report" => Shows(thread[u].v, Len(mod_page_dq), None))'
      BY <1>0, <1>1, <2>1, ShowsSame DEF Entries, EntriesComplete
    <3>3. \A u \in Threads :
             (thread[u].pc = "remove" => Shows(thread[u].v, Len(mod_page_dq), thread[u].page))'
      BY <1>0, <1>1, <2>1, <2>4, ShowsSame DEF Entries, EntriesComplete
    <3> QED
      BY <3>1, <3>2, <3>3 DEF EntriesComplete
  <2>7. AdditionsFirst'
    <3>1. p \notin PagesInside(Removing)
      <4>1. p \in Holding["tracked"]
        BY <1>0, <1>3 DEF Holding, Range, TablesOK
      <4> QED
        BY <1>0, <2>2, <4>1, NotWith, HoldingOf DEF Kinds
    <3>2. PagesInside(Removing)' = PagesInside(Removing) \cup {p}
      BY <1>0, <1>1, <1>3, <3>1, GotoInside DEF Removing
    <3>3. /\ Holding'["tracked"] = Holding["tracked"] \ {p}
          /\ Holding'["removing"] = Holding["removing"] \cup {p}
          /\ RemovedAt' = RemovedAt
      BY <1>0, <1>1, <3>2, TrackedRemoved DEF Holding, RemovedAt
    <3> QED
      BY <1>0, <1>1, <3>3 DEF Entries, AdditionsFirst
  <2> QED
    BY <2>5, <2>6, <2>7 DEF Entries
<1> QED
  BY <1>2, <1>3

\* The policy thread applies the oldest entry.
LEMMA EntriesDrain ==
  ASSUME TypeOK, Entries, Drain
  PROVE  Entries'
<1>1. /\ TablesOK /\ mod_page_dq # <<>> /\ mod_page_dq' = Tail(mod_page_dq)
      /\ UNCHANGED <<va, thread, pages>> /\ EntriesAlternate
  BY DEF Drain, TypeOK, structVars, Entries
<1>2. PICK m \in Nat \ {0} : m = Len(mod_page_dq)
  BY <1>1, RemovedTail
<1>3. /\ Len(mod_page_dq') = m - 1 /\ DOMAIN mod_page_dq = 1 .. m /\ DOMAIN mod_page_dq' = 1 .. m - 1
      /\ \A i \in 1 .. m - 1 : mod_page_dq'[i] = mod_page_dq[i + 1]
      /\ \A i \in RemovedAt \ {1} : i - 1 \in RemovedAt'
  BY <1>1, <1>2, RemovedTail
<1>4. EntriesAlternate'
  <2> SUFFICES ASSUME NEW n \in 1 .. m - 1
               PROVE  (LET e == mod_page_dq[n] IN
                       va[e.page] \in VAs /\ Shows(va[e.page], n - 1, IF e.free THEN e.page ELSE None))'
    BY <1>3 DEF EntriesAlternate
  <2>1. PICK u, q : /\ u = va'[mod_page_dq'[n].page]
                    /\ q = IF mod_page_dq'[n].free THEN mod_page_dq'[n].page ELSE None
    OBVIOUS
  <2>2. /\ n + 1 \in DOMAIN mod_page_dq /\ mod_page_dq'[n] = mod_page_dq[n + 1]
        /\ (n + 1) - 1 = (n - 1) + 1 /\ n - 1 \in 0 .. Len(mod_page_dq) - 1
    BY <1>2, <1>3
  <2>3. u \in VAs /\ Shows(u, (n + 1) - 1, q)
    BY <1>1, <2>1, <2>2 DEF EntriesAlternate
  <2>4. Shows(u, (n - 1) + 1, q)
    BY <2>2, <2>3
  <2>5. Shows(u, n - 1, q)'
    BY <1>1, <2>2, <2>3, <2>4, ShowsTail
  <2> QED
    BY <2>1, <2>3, <2>5
<1>5. ASSUME NEW u \in VAs, NEW q, Shows(u, Len(mod_page_dq), q)
      PROVE  Shows(u, Len(mod_page_dq), q)'
  <2>1. m - 1 \in 0 .. Len(mod_page_dq) - 1 /\ (m - 1) + 1 = m
    BY <1>2
  <2>2. Shows(u, (m - 1) + 1, q)
    BY <1>2, <1>5, <2>1
  <2>3. Shows(u, m - 1, q)'
    BY <1>1, <2>1, <2>2, ShowsTail
  <2> QED
    BY <1>3, <2>3
<1>6. EntriesComplete'
  <2>1. \A t \in Threads : thread[t].pc # "idle" => thread[t].v \in VAs
    BY DEF TypeOK, ThreadsOK
  <2>2. ASSUME NEW u \in VAs, ~Reporting(u)' PROVE Shows(u, Len(mod_page_dq), pages[u])'
    <3>1. PICK q : q = pages[u] /\ q = pages'[u]
      BY <1>1
    <3>2. Shows(u, Len(mod_page_dq), q)
      BY <1>1, <2>2, <3>1 DEF Entries, EntriesComplete, Reporting
    <3>3. Shows(u, Len(mod_page_dq), q)'
      BY <1>5, <3>2
    <3> QED
      BY <3>1, <3>3
  <2>3. ASSUME NEW t \in Threads, thread[t].pc \in {"report", "remove"}
        PROVE  Shows(thread[t].v, Len(mod_page_dq),
                     IF thread[t].pc = "report" THEN None ELSE thread[t].page)'
    <3>1. PICK u, q : /\ u = thread[t].v /\ u = thread'[t].v
                      /\ q = IF thread[t].pc = "report" THEN None ELSE thread[t].page
                      /\ q = IF thread'[t].pc = "report" THEN None ELSE thread'[t].page
      BY <1>1
    <3>2. u \in VAs /\ Shows(u, Len(mod_page_dq), q)
      BY <2>1, <2>3, <3>1 DEF Entries, EntriesComplete
    <3>3. Shows(u, Len(mod_page_dq), q)'
      BY <1>5, <3>2
    <3> QED
      BY <3>1, <3>3
  <2>4. \A t \in Threads : (thread[t].pc = "report" => Shows(thread[t].v, Len(mod_page_dq), None))'
    BY <1>1, <2>3
  <2>5. \A t \in Threads :
           (thread[t].pc = "remove" => Shows(thread[t].v, Len(mod_page_dq), thread[t].page))'
    BY <1>1, <2>3
  <2> QED
    BY <2>2, <2>4, <2>5 DEF EntriesComplete
<1>7. AdditionsFirst'
  <2> SUFFICES ASSUME NEW i \in 1 .. m - 1, ~mod_page_dq'[i].free,
                      mod_page_dq'[i].page \notin Holding'["tracked"] \cup Holding'["removing"]
               PROVE  \E j \in RemovedAt' : i < j /\ mod_page_dq'[j].page = mod_page_dq'[i].page
    BY <1>3 DEF AdditionsFirst
  <2>1. Holding'["tracked"] = Holding["tracked"] /\ Holding'["removing"] = Holding["removing"]
    BY <1>1, ThreadsStay DEF Holding
  <2>2. i + 1 \in DOMAIN mod_page_dq /\ mod_page_dq'[i] = mod_page_dq[i + 1]
    BY <1>3
  <2>3. PICK j \in RemovedAt : i + 1 < j /\ mod_page_dq[j].page = mod_page_dq[i + 1].page
    BY <2>1, <2>2 DEF Entries, AdditionsFirst
  <2>4. j \in 1 .. m
    BY <1>3 DEF RemovedAt
  <2>5. j - 1 \in 1 .. m - 1 /\ (j - 1) + 1 = j /\ j # 1 /\ i < j - 1
    BY <2>3, <2>4
  <2> QED
    BY <1>3, <2>2, <2>3, <2>5
<1> QED
  BY <1>4, <1>6, <1>7 DEF Entries

\* Every step keeps the queue and the two tables in line.
LEMMA EntriesStep ==
  ASSUME OwnInv, [Next]_vars
  PROVE  Entries'
<1>0. /\ TypeOK /\ ThreadsOK /\ Entries /\ OneInside(Removing)
      /\ FaultThread \in Threads /\ Apps \subseteq Threads
  BY DEF OwnInv, TypeOK, Entries, Once, Threads
<1>1. CASE UNCHANGED <<thread, va, pages, pages_map, mod_page_dq>>
  BY <1>0, <1>1, EntriesSame
<1>2. ASSUME NEW v \in VAs, MissingFault(v) PROVE Entries'
  BY <1>0, <1>2, EntriesGoto DEF MissingFault, structVars, tables
<1>3. ASSUME NEW a \in Apps, NEW v \in VAs, NEW populate \in BOOLEAN, Mmap(a, v, populate)
      PROVE  Entries'
  BY <1>0, <1>1, <1>3, EntriesGoto DEF Mmap, structVars, tables
<1>4. ASSUME NEW t \in Threads, AllocateNext(t) PROVE Entries'
  <2>1. CASE AllocateDram(t)
    BY <1>0, <2>1, EntriesGoto DEF AllocateDram, tables
  <2>2. CASE AllocateNvm(t)
    BY <1>0, <1>1, <2>2, EntriesGoto DEF AllocateNvm, tables
  <2>3. CASE MapFrame(t)
    BY <1>0, <2>3, EntriesGoto DEF MapFrame, structVars, tables
  <2> QED
    BY <1>4, <2>1, <2>2, <2>3, EntriesTrackPage, EntriesReportAdd DEF AllocateNext
<1>5. ASSUME NEW a \in Apps, ReleaseNext(a) PROVE Entries'
  <2>1. CASE ClearPresent(a)
    BY <1>0, <2>1, EntriesGoto DEF ClearPresent, tables
  <2>2. CASE Unmap(a)
    BY <1>0, <2>2, EntriesGoto DEF Unmap, structVars, tables
  <2> QED
    BY <1>5, <2>1, <2>2, EntriesReportRemoval DEF ReleaseNext
<1>6. CASE PolicyNext
  BY <1>0, <1>1, <1>6, PolicyLeaves, EntriesDrain
<1>7. ASSUME NEW w \in Workers, WorkerNext(w) PROVE Entries'
  BY <1>1, <1>7, WorkerLeaves
<1>8. CASE AssertFails \/ UNCHANGED vars
  BY <1>1, <1>8 DEF AssertFails, vars, structVars, tables
<1> QED
  BY <1>2, <1>3, <1>4, <1>5, <1>6, <1>7, <1>8, EntriesMunmap DEF Next, AppNext

------------------------------------------------------------------------------
(* The scored pages and the requests made of them.                         *)

\* What the policy thread may still have scored is on no list and in no
\* request as the free page.
LEMMA KnownApart ==
  ASSUME Accounted, NEW p \in Pages, NEW k \in {"dram", "nvm", "policy", "request", "allocating"},
         p \in Holding[k]
  PROVE  p \notin Known
<1>1. \A j \in Kinds \ {k} : p \notin Holding[j]
  BY NotWith DEF Kinds
<1> QED
  BY <1>1 DEF Known, Kinds

\* A thread that is not about to report a removal.
LEMMA KnownGoto ==
  ASSUME TypeOK, OneInside(Removing), UNCHANGED <<pages, mod_page_dq>>,
         NEW t \in Threads, NEW pc, NEW v, NEW p, Goto(t, pc, v, p),
         pc # "remove", thread[t].pc # "remove"
  PROVE  Known' = Known
<1>1. UNCHANGED PagesInside(Removing)
  BY GotoInside DEF Removing, TypeOK
<1> QED
  BY <1>1, HoldingSame DEF Known

\* Only the policy thread itself, when it drains mod_page_dq, makes the
\* structs it knew reusable.
LEMMA KnownGrows ==
  ASSUME OwnInv, [Next]_vars, ~Drain
  PROVE  Known \subseteq Known'
<1>0. /\ TypeOK /\ ThreadsOK /\ TablesOK /\ OneInside(Removing) /\ RemovedOnce /\ TablePlaces
      /\ Accounted /\ FaultThread \in Threads /\ Apps \subseteq Threads
  BY DEF OwnInv, TypeOK, Once, Threads
<1>1. CASE UNCHANGED <<pages, thread, mod_page_dq>>
  BY <1>1, ThreadsStay, HoldingSame DEF Known
<1>2. ASSUME NEW v \in VAs, MissingFault(v) PROVE Known \subseteq Known'
  BY <1>0, <1>2, KnownGoto DEF MissingFault, tables
<1>3. ASSUME NEW a \in Apps, NEW v \in VAs, NEW populate \in BOOLEAN, Mmap(a, v, populate)
      PROVE  Known \subseteq Known'
  BY <1>0, <1>1, <1>3, KnownGoto DEF Mmap, tables
<1>4. ASSUME NEW a \in Apps, NEW v \in VAs, Munmap(a, v) PROVE Known \subseteq Known'
  <2> DEFINE p == pages[v]
  <2>1. /\ thread[a].pc = "idle" /\ UNCHANGED mod_page_dq
        /\ Goto(a, IF p = None THEN "unmap" ELSE "remove", v, p)
        /\ pages' = [pages EXCEPT ![v] = None]
    BY <1>4 DEF Munmap
  <2>2. /\ Holding'["tracked"] = Holding["tracked"] \ {p}
        /\ Holding'["removed"] = Holding["removed"]
    BY <1>0, <2>1, TrackedRemoved, HoldingSame DEF Holding
  <2>3. CASE p = None
    <3>1. UNCHANGED PagesInside(Removing) /\ p \notin Holding["tracked"]
      BY <1>0, <2>1, <2>3, GotoInside DEF Removing, Holding
    <3> QED
      BY <2>2, <3>1, HoldingSame DEF Known
  <2>4. CASE p # None
    <3>1. p \in Pages /\ p \in Holding["tracked"]
      BY <1>0, <2>4 DEF TablesOK, Holding, Range
    <3>2. p \notin PagesInside(Removing)
      BY <1>0, <3>1, NotWith, HoldingOf DEF Kinds
    <3>3. PagesInside(Removing)' = PagesInside(Removing) \cup {p}
      BY <1>0, <2>1, <2>4, <3>2, GotoInside DEF Removing
    <3>4. Holding'["removing"] = Holding["removing"] \cup {p}
      BY <3>3 DEF Holding
    <3> QED
      BY <2>2, <3>4 DEF Known
  <2> QED
    BY <2>3, <2>4
<1>5. ASSUME NEW t \in Threads, AllocateNext(t) PROVE Known \subseteq Known'
  <2>1. CASE AllocateDram(t)
    BY <1>0, <2>1, KnownGoto DEF AllocateDram, tables
  <2>2. CASE AllocateNvm(t)
    BY <1>0, <1>1, <2>2, KnownGoto DEF AllocateNvm, tables
  <2>3. CASE MapFrame(t)
    BY <1>0, <2>3, KnownGoto DEF MapFrame, tables
  <2>4. CASE TrackPage(t)
    <3>1. /\ thread[t].pc = "track" /\ Goto(t, "report", thread[t].v, thread[t].page)
          /\ pages' = [pages EXCEPT ![thread[t].v] = thread[t].page] /\ UNCHANGED mod_page_dq
          /\ pages[thread[t].v] = None /\ thread[t].v \in VAs /\ thread[t].page \in Pages
      BY <1>0, <1>5, <2>4 DEF TrackPage, AllocateNext, ThreadAsserts, ThreadsOK
    <3>2. Holding["tracked"] \subseteq Holding'["tracked"]
      <4>1. Range(pages') \ {None} = (Range(pages) \ {None}) \cup {thread[t].page}
        BY <1>0, <3>1, TrackedAdded
      <4>2. Holding["tracked"] = Range(pages) \ {None} /\ Holding'["tracked"] = Range(pages') \ {None}
        BY DEF Holding
      <4> QED
        BY <4>1, <4>2, Zenon
    <3>3. UNCHANGED PagesInside(Removing)
      BY <1>0, <3>1, GotoInside DEF Removing
    <3> QED
      BY <3>1, <3>2, <3>3, HoldingSame DEF Known
  <2>5. CASE ReportAdd(t)
    <3>1. /\ thread[t].pc = "report" /\ Goto(t, "idle", None, None) /\ thread[t].page \in Pages
          /\ mod_page_dq' = Append(mod_page_dq, [page |-> thread[t].page, free |-> FALSE])
          /\ UNCHANGED pages
      BY <1>0, <2>5 DEF ReportAdd, ThreadsOK
    <3>2. Holding'["removed"] = Holding["removed"]
      BY <1>0, <3>1, RemovalsAppend
    <3>3. UNCHANGED PagesInside(Removing)
      BY <1>0, <3>1, GotoInside DEF Removing
    <3> QED
      BY <3>1, <3>2, <3>3, HoldingSame DEF Known
  <2> QED
    BY <1>5, <2>1, <2>2, <2>3, <2>4, <2>5 DEF AllocateNext
<1>6. ASSUME NEW a \in Apps, ReleaseNext(a) PROVE Known \subseteq Known'
  <2>1. CASE ReportRemoval(a)
    <3> DEFINE p == thread[a].page
    <3>1. /\ thread[a].pc = "remove" /\ Goto(a, "absent", thread[a].v, p) /\ p \in Pages
          /\ mod_page_dq' = Append(mod_page_dq, [page |-> p, free |-> TRUE])
          /\ UNCHANGED pages
      BY <1>0, <2>1 DEF ReportRemoval, ThreadsOK
    <3>2. p \in Holding["removing"]
      BY <1>0, <3>1 DEF Holding, PagesInside, Inside, Removing
    <3>3. p \notin Holding["removed"]
      BY <1>0, <3>1, <3>2, NotWith DEF Kinds
    <3>4. Holding'["removed"] = Holding["removed"] \cup {p}
      BY <1>0, <3>1, <3>3, RemovalsAppend
    <3>5. PagesInside(Removing)' = PagesInside(Removing) \ {p}
      BY <1>0, <3>1, GotoInside DEF Removing
    <3>6. Holding'["removing"] = Holding["removing"] \ {p}
      BY <3>5 DEF Holding
    <3> QED
      BY <3>1, <3>4, <3>6, HoldingSame DEF Known
  <2>2. CASE ClearPresent(a)
    BY <1>0, <2>2, KnownGoto DEF ClearPresent, tables
  <2>3. CASE Unmap(a)
    BY <1>0, <2>3, KnownGoto DEF Unmap, tables
  <2> QED
    BY <1>6, <2>1, <2>2, <2>3 DEF ReleaseNext
<1>7. CASE PolicyNext
  BY <1>1, <1>7, PolicyLeaves
<1>8. ASSUME NEW w \in Workers, WorkerNext(w) PROVE Known \subseteq Known'
  BY <1>1, <1>8, WorkerLeaves
<1>9. CASE AssertFails \/ UNCHANGED vars
  BY <1>1, <1>9 DEF AssertFails, vars, tables
<1> QED
  BY <1>2, <1>3, <1>4, <1>5, <1>6, <1>7, <1>8, <1>9 DEF Next, AppNext

\* Once mod_page_dq is empty, pages_map has tracked pages and pages a thread
\* is just removing, and nothing else.
LEMMA DrainedKnown ==
  ASSUME TypeOK, EntriesComplete, mod_page_dq = <<>>, NEW v \in VAs, pages_map[v] # None
  PROVE  pages_map[v] \in Known
<1>1. \A u : \A p : Shows(u, Len(mod_page_dq), p) => pages_map[u] = p
  <2>1. Len(mod_page_dq) = 0 /\ 1 .. 0 = {}
    OBVIOUS
  <2> QED
    BY <2>1 DEF Shows
<1>2. CASE ~Reporting(v)
  BY <1>1, <1>2 DEF EntriesComplete, Known, Holding, Range, TypeOK, TablesOK
<1>3. CASE Reporting(v)
  <2>1. PICK t \in Threads : thread[t].v = v /\ thread[t].pc \in {"report", "remove"}
    BY <1>3 DEF Reporting
  <2>2. thread[t].pc = "remove" /\ pages_map[v] = thread[t].page
    BY <1>1, <2>1 DEF EntriesComplete
  <2> QED
    BY <2>1, <2>2 DEF Known, Holding, PagesInside, Inside, Removing
<1> QED
  BY <1>2, <1>3

\* The scores of an interval stay pages the policy thread knows.
LEMMA ScoresKnownStep ==
  ASSUME OwnInv, [Next]_vars
  PROVE  ScoresKnown'
<1>0. TypeOK /\ ScoresKnown /\ EntriesComplete /\ PolicyOK
  BY DEF OwnInv, TypeOK
<1>1. CASE Drain
  BY <1>1 DEF Drain, policyVars, ScoresKnown
<1>2. CASE UNCHANGED <<step, scores>> /\ ~Drain
  BY <1>0, <1>2, KnownGrows DEF ScoresKnown, NoRepeats
<1>3. CASE Score
  <2>1. /\ mod_page_dq = <<>> /\ scores' \in Orders(Scored) /\ UNCHANGED <<pages, thread, mod_page_dq>>
    BY <1>3 DEF Score, tables
  <2>2. NoRepeats(scores') /\ Range(scores') \subseteq Scored
    BY <2>1 DEF Orders, NoRepeats, Range
  <2>3. Scored \subseteq Known
    BY <1>0, <2>1, DrainedKnown DEF Scored, Range, TypeOK, TablesOK
  <2>4. Known' = Known
    BY <2>1, ThreadsStay, HoldingSame DEF Known
  <2> QED
    BY <2>2, <2>3, <2>4 DEF ScoresKnown, NoRepeats
<1>4. CASE BeginMigrations \/ Choose \/ SubmitPromotion \/ SubmitExchange \/ PostSubmission
  <2>1. /\ step \in {"collect", "choose", "promote", "demote", "post"} /\ UNCHANGED scores
        /\ UNCHANGED <<pages, thread, mod_page_dq>>
    BY <1>4 DEF BeginMigrations, Choose, SubmitPromotion, SubmitExchange, PostSubmission, tables
  <2>2. Known' = Known
    BY <2>1, ThreadsStay, HoldingSame DEF Known
  <2> QED
    BY <1>0, <2>1, <2>2 DEF ScoresKnown, NoRepeats
<1>5. CASE step' \in {"asleep", "drain"}
  BY <1>5 DEF ScoresKnown
<1>6. CASE PolicyNext
  BY <1>1, <1>2, <1>3, <1>4, <1>5, <1>6 DEF PolicyNext, WakeUp, Collect, StopMigrations, GiveBack,
     GiveUpDemotion, LeaveLoop, policyVars
<1>7. CASE ~PolicyNext
  <2>1. UNCHANGED <<step, scores>>
    <3>1. ASSUME NEW w \in Workers, WorkerNext(w) PROVE UNCHANGED <<step, scores>>
      BY <3>1, WorkerLeaves
    <3> QED
      BY <1>7, <3>1 DEF Next, AppNext, MissingFault, Mmap, Munmap, AllocateNext, AllocateDram,
         AllocateNvm, MapFrame, TrackPage, ReportAdd, ReleaseNext, ReportRemoval, ClearPresent,
         Unmap, AssertFails, vars, policyVars
  <2> QED
    BY <1>1, <1>2, <2>1
<1> QED
  BY <1>6, <1>7

\* A step of a thread of the application or of the fault thread.
ThreadStep == \/ AppNext
              \/ \E t \in Threads : AllocateNext(t)
              \/ \E a \in Apps : ReleaseNext(a)
              \/ AssertFails
              \/ UNCHANGED vars

\* Whose step it is.
LEMMA StepOf ==
  ASSUME [Next]_vars
  PROVE  ThreadStep \/ PolicyNext \/ \E w \in Workers : WorkerNext(w)
BY DEF Next, ThreadStep

\* Which variables those threads leave alone.
LEMMA ThreadsLeave ==
  ASSUME ThreadStep
  PROVE  UNCHANGED <<step, scores, promote_idx, demote_idx, np, frame, wstep, old_frame, new_frame,
                     migration_queue, submission_sem, completion_sem, num_migration_jobs,
                     batch_size, policy_pc, worker_pc, worker_req>>
BY DEF ThreadStep, AppNext, MissingFault, Mmap, Munmap, AllocateNext, AllocateDram,
       AllocateNvm, MapFrame, TrackPage, ReportAdd, ReleaseNext, ReportRemoval, ClearPresent,
       Unmap, AssertFails, vars, structVars, policyVars, workVars, mqVars

\* A worker only takes requests away, and the policy thread adds them when it
\* submits one.
LEMMA OutstandingShrinks ==
  ASSUME HandOffInv, NEW w \in Workers, WorkerNext(w)
  PROVE  /\ Outstanding' \subseteq Outstanding
         /\ \A u \in Workers \ {w} : worker_req'[u] = worker_req[u] /\ worker_pc'[u] = worker_pc[u]
<1>0. MQ!TypeOK
  BY DEF HandOffInv
<1>1. CASE WakeWorker(w)
  <2>1. Outstanding' = Outstanding
    BY <1>0, <1>1, OutstandingWake DEF WakeWorker
  <2>2. \A u \in Workers \ {w} : worker_req'[u] = worker_req[u] /\ worker_pc'[u] = worker_pc[u]
    BY <1>0, <1>1 DEF WakeWorker, MQ!Wake, MQ!FindEmpty, MQ!TypeOK
  <2> QED
    BY <2>1, <2>2
<1>2. CASE TakeRequest(w)
  BY <1>2, OutstandingDequeue DEF TakeRequest
<1>3. CASE SkipDemotion(w) \/ SkipPromotion(w) \/ ResetAfterPromotion(w)
  <2>1. MQ!Complete(w)
    BY <1>3 DEF SkipDemotion, SkipPromotion, ResetAfterPromotion, FinishRequest
  <2> QED
    BY <2>1, OutstandingComplete
<1>4. CASE DemoteStart(w) \/ PromoteStart(w) \/ Remap(w) \/ Commit(w) \/ ResetAfterDemotion(w)
  <2>1. UNCHANGED <<migration_queue, worker_pc, worker_req>>
    BY <1>4 DEF DemoteStart, PromoteStart, LockForMigration, Remap, Commit, ResetAfterDemotion, mqVars
  <2> QED
    BY <2>1, OutstandingSame
<1> QED
  BY <1>1, <1>2, <1>3, <1>4 DEF WorkerNext

\* The policy thread adds requests only when it submits one.
LEMMA PolicyOutstanding ==
  ASSUME PolicyNext, ~SubmitPromotion, ~SubmitExchange
  PROVE  Outstanding' = Outstanding
<1>1. UNCHANGED <<migration_queue, worker_pc, worker_req>>
  BY DEF PolicyNext, WakeUp, Drain, Score, Collect, BeginMigrations, StopMigrations, Choose,
     GiveBack, GiveUpDemotion, PostSubmission, LeaveLoop, mqVars, MQ!StartInterval,
     MQ!CollectCompletion, MQ!StartLoop, MQ!EndLoop, MQ!Post, MQ!workerVars
<1> QED
  BY <1>1, OutstandingSame

\* The migration loop starts with nothing outstanding.
LEMMA LoopStartsEmpty ==
  ASSUME HandOffInv, BeginMigrations
  PROVE  Outstanding = {} /\ Outstanding' = {}
<1>1. num_migration_jobs = 0 /\ MQP!IInv
  BY SameInvariant DEF BeginMigrations, MQ!StartLoop, HandOffInv
<1>2. MQP!Queued = {} /\ MQP!Held = {}
  BY <1>1, HandOffAssumptions, MQP!IdleMachine
<1>3. Outstanding = {}
  BY <1>2, SameSets DEF Outstanding
<1> QED
  BY <1>3, OutstandingSame DEF BeginMigrations, MQ!StartLoop, MQ!workerVars

\* What has been submitted lies outside the two indices of the loop.
LEMMA SubmittedOutsideStep ==
  ASSUME OwnInv, [Next]_vars
  PROVE  SubmittedOutside'
<1>0. TypeOK /\ HandOffInv /\ SubmittedOutside /\ PolicyOK
  BY DEF OwnInv, TypeOK
<1>1. /\ promote_idx \in Nat /\ demote_idx \in Int /\ scores \in Seq(Pages)
  BY <1>0 DEF PolicyOK
<1>2. CASE /\ step' \in {"choose", "promote", "demote", "post"}
             => step \in {"choose", "promote", "demote", "post"} /\ UNCHANGED scores
                /\ promote_idx' \in Nat /\ promote_idx <= promote_idx' /\ demote_idx' = demote_idx
           /\ Outstanding' \subseteq Outstanding
  <2> SUFFICES ASSUME step' \in {"choose", "promote", "demote", "post"}, NEW r \in Outstanding'
               PROVE  /\ \E i \in 1 .. promote_idx' : i \in DOMAIN scores' /\ r.nvm_page = scores'[i]
                      /\ r.dram_page # None =>
                            \E i \in DOMAIN scores' : demote_idx' + 2 <= i /\ r.dram_page = scores'[i]
    BY DEF SubmittedOutside
  <2>1. 1 .. promote_idx \subseteq 1 .. promote_idx'
    BY <1>1, <1>2
  <2> QED
    BY <1>0, <1>2, <2>1 DEF SubmittedOutside
<1>3. CASE BeginMigrations
  BY <1>0, <1>3, LoopStartsEmpty DEF SubmittedOutside
<1>4. CASE SubmitPromotion
  <2> DEFINE r == [dram_page |-> None, nvm_page |-> scores[promote_idx + 1],
                   free_page |-> np, need_demotion |-> FALSE]
  <2>1. /\ step = "promote" /\ promote_idx' = promote_idx + 1 /\ MQ!Enqueue(r)
        /\ UNCHANGED <<scores, demote_idx>>
    BY <1>4 DEF SubmitPromotion
  <2>2. promote_idx + 1 \in DOMAIN scores /\ r \in Reqs
    BY <1>0, <2>1, ScoresIndex
  <2>3. Outstanding' = Outstanding \cup {r}
    BY <1>0, <2>1, <2>2, OutstandingEnqueue
  <2>4. promote_idx + 1 \in 1 .. promote_idx' /\ 1 .. promote_idx \subseteq 1 .. promote_idx'
    BY <1>1, <2>1
  <2>5. \A q \in Outstanding :
           /\ \E i \in 1 .. promote_idx : i \in DOMAIN scores /\ q.nvm_page = scores[i]
           /\ q.dram_page # None =>
                 \E i \in DOMAIN scores : demote_idx + 2 <= i /\ q.dram_page = scores[i]
    BY <1>0, <2>1 DEF SubmittedOutside
  <2> QED
    BY <2>1, <2>2, <2>3, <2>4, <2>5 DEF SubmittedOutside
<1>5. CASE SubmitExchange
  <2>1. PICK k \in promote_idx + 1 .. demote_idx, r \in Reqs :
           /\ r = [dram_page |-> scores[k + 1], nvm_page |-> scores[promote_idx + 1],
                   free_page |-> Head(nvm_free_list), need_demotion |-> TRUE]
           /\ k + 1 \in DOMAIN scores /\ promote_idx + 1 \in DOMAIN scores /\ k \in Int
           /\ MQ!Enqueue(r) /\ demote_idx' = k - 1
    BY <1>0, <1>5, ExchangeRequest
  <2>2. step = "demote" /\ promote_idx' = promote_idx + 1 /\ UNCHANGED scores
    BY <1>5 DEF SubmitExchange
  <2>3. Outstanding' = Outstanding \cup {r}
    BY <1>0, <2>1, OutstandingEnqueue
  <2>4. /\ promote_idx + 1 \in 1 .. promote_idx' /\ 1 .. promote_idx \subseteq 1 .. promote_idx'
        /\ demote_idx' + 2 <= k + 1 /\ \A i \in Int : demote_idx + 2 <= i => demote_idx' + 2 <= i
    BY <1>1, <2>1, <2>2
  <2>5. \A q \in Outstanding :
           /\ \E i \in 1 .. promote_idx : i \in DOMAIN scores /\ q.nvm_page = scores[i]
           /\ q.dram_page # None =>
                 \E i \in DOMAIN scores : demote_idx + 2 <= i /\ q.dram_page = scores[i]
    BY <1>0, <2>2 DEF SubmittedOutside
  <2>6. r.nvm_page = scores[promote_idx + 1] /\ r.dram_page = scores[k + 1]
    BY <2>1
  <2>7. DOMAIN scores \subseteq Int
    BY <1>1
  <2> QED
    BY <2>1, <2>2, <2>3, <2>4, <2>5, <2>6, <2>7 DEF SubmittedOutside
<1>6. CASE PolicyNext /\ ~SubmitPromotion /\ ~SubmitExchange /\ ~BeginMigrations
  <2>1. Outstanding' = Outstanding
    BY <1>6, PolicyOutstanding
  <2>2. step' \in {"choose", "promote", "demote", "post"}
             => step \in {"choose", "promote", "demote", "post"} /\ UNCHANGED scores
                /\ promote_idx' \in Nat /\ promote_idx <= promote_idx' /\ demote_idx' = demote_idx
    <3>1. CASE Choose
      <4>1. \E k \in promote_idx .. demote_idx - 1 : promote_idx' = k + 1 \/ promote_idx' = k
        BY <3>1 DEF Choose
      <4> QED
        BY <1>1, <3>1, <4>1 DEF Choose
    <3> QED
      BY <1>1, <1>6, <3>1 DEF PolicyNext, WakeUp, Drain, Score, Collect, StopMigrations,
         GiveBack, GiveUpDemotion, PostSubmission, LeaveLoop, policyVars
  <2> QED
    BY <1>2, <2>1, <2>2
<1>7. ASSUME NEW w \in Workers, WorkerNext(w) PROVE SubmittedOutside'
  BY <1>0, <1>1, <1>2, <1>7, WorkerLeaves, OutstandingShrinks
<1>8. CASE ThreadStep
  BY <1>1, <1>2, <1>8, ThreadsLeave, OutstandingSame
<1> QED
  BY <1>3, <1>4, <1>5, <1>6, <1>7, <1>8, StepOf

\* A new request of scored pages that are in no request yet, and of a struct
\* from a list.
LEMMA RequestFits ==
  ASSUME OwnInv, NEW r \in Reqs, Outstanding' = Outstanding \cup {r},
         step \in {"promote", "demote"}, promote_idx + 1 \in DOMAIN scores,
         r.nvm_page = scores[promote_idx + 1], r.need_demotion <=> r.dram_page # None,
         r.dram_page # None => \E k \in promote_idx + 1 .. demote_idx :
                                  k + 1 \in DOMAIN scores /\ r.dram_page = scores[k + 1],
         NEW o \in {"policy", "nvm"}, r.free_page \in Holding[o]
  PROVE  RequestsApart'
<1>0. /\ HandOffInv /\ Accounted /\ ScoresKnown /\ SubmittedOutside /\ RequestsApart
      /\ promote_idx \in Nat /\ demote_idx \in Int /\ scores \in Seq(Pages)
  BY DEF OwnInv, TypeOK, PolicyOK
<1>1. NoRepeats(scores) /\ Range(scores) \subseteq Known /\ DOMAIN scores \subseteq Int
  BY <1>0 DEF ScoresKnown
<1>2. /\ \A i \in DOMAIN scores : scores[i] \in Known
      /\ \A i, j \in DOMAIN scores : scores[i] = scores[j] => i = j
  BY <1>1 DEF Range, NoRepeats
<1>3. r.free_page \in Pages /\ r.free_page \notin Known /\ r.free_page \notin Holding["request"]
  <2>1. r.free_page \in Pages
    BY DEF Reqs
  <2> QED
    BY <1>0, <2>1, KnownApart, NotWith DEF Kinds
<1>4. \A q \in Outstanding : q.free_page \in Pages /\ q.free_page \notin Known /\ q.free_page # r.free_page
  <2>1. \A q \in Outstanding : q.free_page \in Pages /\ q.free_page \in Holding["request"]
    BY <1>0, OutstandingReqs DEF Reqs, Holding
  <2> QED
    BY <1>0, <1>3, <2>1, KnownApart
<1>5. \A q \in Outstanding :
         /\ \E i \in 1 .. promote_idx : i \in DOMAIN scores /\ q.nvm_page = scores[i]
         /\ q.dram_page # None =>
               \E i \in DOMAIN scores : demote_idx + 2 <= i /\ q.dram_page = scores[i]
  BY <1>0 DEF SubmittedOutside
<1>6. r.nvm_page \in Known /\ (r.dram_page # None => r.dram_page \in Known)
  BY <1>2
<1>7. /\ r.nvm_page # r.free_page /\ r.dram_page # r.free_page
      /\ r.dram_page # r.nvm_page
  <2>1. r.nvm_page # None /\ r.free_page # None
    BY NoneAssumption DEF Reqs
  <2>2. ASSUME NEW k \in promote_idx + 1 .. demote_idx, k + 1 \in DOMAIN scores
        PROVE  scores[k + 1] # scores[promote_idx + 1]
    <3>1. k + 1 # promote_idx + 1
      BY <1>0
    <3> QED
      BY <1>2, <2>2, <3>1
  <2> QED
    BY <1>3, <1>6, <2>1, <2>2
<1>8. ASSUME NEW q \in Outstanding PROVE Involved(r) \cap Involved(q) = {}
  <2>1. PICK i \in 1 .. promote_idx : i \in DOMAIN scores /\ q.nvm_page = scores[i]
    BY <1>5
  <2>2. q.nvm_page \in Known /\ (q.dram_page # None => q.dram_page \in Known)
    BY <1>2, <1>5
  <2>3. r.nvm_page # q.nvm_page
    <3>1. i # promote_idx + 1
      BY <1>0
    <3> QED
      BY <1>2, <2>1, <3>1
  <2>4. r.dram_page # None => r.dram_page # q.nvm_page
    <3>1. ASSUME NEW k \in promote_idx + 1 .. demote_idx PROVE k + 1 # i
      BY <1>0
    <3> QED
      BY <1>2, <2>1, <3>1
  <2>5. q.dram_page # None => q.dram_page # r.nvm_page /\ q.dram_page # r.dram_page
    <3> SUFFICES ASSUME q.dram_page # None
                 PROVE  q.dram_page # r.nvm_page /\ q.dram_page # r.dram_page
      OBVIOUS
    <3>1. PICK j \in DOMAIN scores : demote_idx + 2 <= j /\ q.dram_page = scores[j]
      BY <1>5
    <3>2. promote_idx < demote_idx
      BY DEF OwnInv, TypeOK, PolicyOK
    <3>3. j # promote_idx + 1 /\ \A k \in promote_idx + 1 .. demote_idx : k + 1 # j
      BY <1>0, <1>1, <3>1, <3>2
    <3> QED
      BY <1>2, <3>1, <3>3
  <2> QED
    BY <1>3, <1>4, <1>6, <2>2, <2>3, <2>4, <2>5 DEF Involved
<1> QED
  BY <1>0, <1>7, <1>8 DEF RequestsApart

\* Every step keeps the pages of outstanding requests apart.
LEMMA RequestsApartStep ==
  ASSUME OwnInv, [Next]_vars
  PROVE  RequestsApart'
<1>0. TypeOK /\ HandOffInv /\ RequestsApart
  BY DEF OwnInv
<1>1. CASE Outstanding' \subseteq Outstanding
  BY <1>0, <1>1 DEF RequestsApart
<1>2. CASE SubmitPromotion
  <2> DEFINE r == [dram_page |-> None, nvm_page |-> scores[promote_idx + 1],
                   free_page |-> np, need_demotion |-> FALSE]
  <2>1. step = "promote" /\ MQ!Enqueue(r)
    BY <1>2 DEF SubmitPromotion
  <2>2. promote_idx + 1 \in DOMAIN scores /\ r \in Reqs
    BY <1>0, <2>1, ScoresIndex
  <2>3. Outstanding' = Outstanding \cup {r}
    BY <1>0, <2>1, <2>2, OutstandingEnqueue
  <2>4. np \in Holding["policy"]
    BY <1>0, <2>1 DEF TypeOK, PolicyOK, Holding
  <2> QED
    BY <2>1, <2>2, <2>3, <2>4, RequestFits
<1>3. CASE SubmitExchange
  <2>1. PICK k \in promote_idx + 1 .. demote_idx, r \in Reqs :
           /\ r = [dram_page |-> scores[k + 1], nvm_page |-> scores[promote_idx + 1],
                   free_page |-> Head(nvm_free_list), need_demotion |-> TRUE]
           /\ k + 1 \in DOMAIN scores /\ promote_idx + 1 \in DOMAIN scores
           /\ MQ!Enqueue(r)
    BY <1>0, <1>3, ExchangeRequest
  <2>2. Outstanding' = Outstanding \cup {r}
    BY <1>0, <2>1, OutstandingEnqueue
  <2>3. /\ r.nvm_page = scores[promote_idx + 1] /\ r.dram_page = scores[k + 1]
        /\ r.free_page = Head(nvm_free_list) /\ r.need_demotion /\ step = "demote"
    BY <1>3, <2>1 DEF SubmitExchange
  <2>4. r.free_page \in Holding["nvm"]
    BY <1>0, <1>3, <2>3, TailRange DEF TypeOK, ListsOK, SubmitExchange, OwnInv, Once, Holding
  <2>5. r.dram_page # None
    BY <1>0, <2>1, <2>3, ElementOf, NoneAssumption DEF TypeOK, PolicyOK
  <2> QED
    BY <2>1, <2>2, <2>3, <2>4, <2>5, RequestFits
<1>4. CASE PolicyNext
  BY <1>1, <1>2, <1>3, <1>4, PolicyOutstanding
<1>5. ASSUME NEW w \in Workers, WorkerNext(w) PROVE RequestsApart'
  BY <1>0, <1>1, <1>5, OutstandingShrinks
<1>6. CASE ThreadStep
  BY <1>1, <1>6, ThreadsLeave, OutstandingSame
<1> QED
  BY <1>4, <1>5, <1>6, StepOf
------------------------------------------------------------------------------
(* The frames of the structs.                                              *)

\* A worker between the commit of a migration and the reset of the free page,
\* and one that has saved the frames of the move it makes.
Resetting(w) == wstep[w] \in {"reset_down", "reset_up"}
Committing(w) == wstep[w] \in {"map_down", "commit_down", "map_up", "commit_up"}

\* The pages of a worker inside a request are pages, and not those of another
\* worker.
LEMMA WorkersApart ==
  ASSUME TypeOK, HandOffInv, RequestsApart, NEW w \in Workers, wstep[w] # "idle"
  PROVE  /\ Moving(w) \in Pages /\ worker_req[w].free_page \in Pages
         /\ Moving(w) # worker_req[w].free_page
         /\ \A u \in Workers \ {w} : wstep[u] # "idle" =>
               /\ worker_req[u].free_page \notin {Moving(w), worker_req[w].free_page}
               /\ Moving(u) \notin {Moving(w), worker_req[w].free_page}
<1>1. \A u \in Workers : wstep[u] # "idle" =>
         /\ worker_req[u] \in Outstanding /\ worker_req[u] \in Reqs
         /\ Moving(u) \in {worker_req[u].dram_page, worker_req[u].nvm_page}
         /\ Moving(u) \in Pages
         /\ worker_req[u].nvm_page \in Pages /\ worker_req[u].free_page \in Pages
  <2> SUFFICES ASSUME NEW u \in Workers, wstep[u] # "idle"
               PROVE  /\ worker_req[u] \in Outstanding /\ worker_req[u] \in Reqs
                      /\ Moving(u) \in {worker_req[u].dram_page, worker_req[u].nvm_page}
                      /\ Moving(u) \in Pages
                      /\ worker_req[u].nvm_page \in Pages /\ worker_req[u].free_page \in Pages
    OBVIOUS
  <2>1. worker_req[u] \in Outstanding /\ worker_req[u] \in Reqs
    BY OutstandingReqs DEF TypeOK, WorkersOK
  <2>2. worker_req[u].nvm_page \in Pages /\ worker_req[u].free_page \in Pages
    BY <2>1 DEF Reqs
  <2> QED
    BY <2>1, <2>2 DEF Moving, TypeOK, WorkersOK
<1>2. \A r \in Outstanding : r.nvm_page # r.free_page /\ r.dram_page # r.free_page
  BY DEF RequestsApart
<1>3. \A u \in Workers \ {w} : wstep[u] # "idle" => worker_req[u] # worker_req[w]
  BY OutstandingReqs DEF TypeOK, WorkersOK
<1>4. None \notin Pages
  BY NoneAssumption
<1>5. \A u \in Workers : wstep[u] # "idle" =>
         Moving(u) \in Involved(worker_req[u]) /\ worker_req[u].free_page \in Involved(worker_req[u])
  BY <1>1, <1>4 DEF Involved
<1>6. ASSUME NEW u \in Workers \ {w}, wstep[u] # "idle"
      PROVE  Involved(worker_req[u]) \cap Involved(worker_req[w]) = {}
  BY <1>1, <1>3, <1>6 DEF RequestsApart
<1> QED
  BY <1>1, <1>2, <1>5, <1>6

\* The free page of a worker that has committed stands for the frame the
\* migrated page left, and every other struct for its own.
LEMMA StandsNow ==
  ASSUME TypeOK, HandOffInv, RequestsApart
  PROVE  /\ \A w \in Workers : Resetting(w) => Stands(worker_req[w].free_page) = old_frame[w]
         /\ \A p : (\A w \in Workers : Resetting(w) => worker_req[w].free_page # p)
                      => Stands(p) = frame[p]
<1>1. ASSUME NEW w \in Workers, NEW u \in Workers, Resetting(w), Resetting(u),
             worker_req[w].free_page = worker_req[u].free_page
      PROVE  w = u
  BY <1>1, WorkersApart DEF Resetting
<1> QED
  BY <1>1 DEF Stands, Resetting

\* The same after a step.
LEMMA StandsThen ==
  ASSUME TypeOK', HandOffInv', RequestsApart'
  PROVE  /\ \A w \in Workers : Resetting(w)' =>
               Stands(worker_req[w].free_page)' = old_frame'[w]
         /\ \A p : (\A w \in Workers : Resetting(w)' => worker_req'[w].free_page # p)
                      => Stands(p)' = frame'[p]
<1>1. ASSUME NEW w \in Workers, NEW u \in Workers, Resetting(w)', Resetting(u)',
             worker_req'[w].free_page = worker_req'[u].free_page
      PROVE  w = u
  <2>1. wstep'[w] # "idle" /\ wstep'[u] # "idle"
    BY <1>1 DEF Resetting
  <2>2. worker_pc'[w] = "work" /\ worker_pc'[u] = "work"
    BY <2>1 DEF TypeOK, WorkersOK
  <2>3. worker_req'[w] \in Outstanding' /\ worker_req'[u] \in Outstanding'
        /\ (worker_req'[w] = worker_req'[u] => w = u)
        /\ worker_req'[w] \in Reqs
    BY <2>2 DEF Outstanding, MQ!Held, MQ!Busy, HandOffInv, MQ!TypeOK, MQ!RequestsDistinct
  <2>4. worker_req'[w].free_page # None
    BY <2>3, NoneAssumption DEF Reqs
  <2>5. worker_req'[w] = worker_req'[u]
    BY <1>1, <2>3, <2>4 DEF RequestsApart, Involved
  <2> QED
    BY <2>3, <2>5
<1> QED
  BY <1>1 DEF Stands, Resetting
\* Nobody commits or resets: every struct stands for the frame it stood for.
LEMMA StandsSame ==
  ASSUME TypeOK, HandOffInv, RequestsApart, TypeOK', HandOffInv', RequestsApart',
         UNCHANGED frame,
         \A w \in Workers : /\ Resetting(w)' <=> Resetting(w)
                            /\ Resetting(w) => UNCHANGED <<worker_req[w], old_frame[w]>>
  PROVE  \A p : Stands(p)' = Stands(p)
<1> SUFFICES ASSUME NEW p PROVE Stands(p)' = Stands(p)
  OBVIOUS
<1>1. CASE \E w \in Workers : Resetting(w) /\ worker_req[w].free_page = p
  <2>1. PICK w \in Workers : Resetting(w) /\ worker_req[w].free_page = p
    BY <1>1
  <2>2. Stands(p) = old_frame[w]
    BY <2>1, StandsNow
  <2>3. Resetting(w)' /\ worker_req'[w].free_page = p /\ old_frame'[w] = old_frame[w]
    BY <2>1
  <2>4. Stands(worker_req[w].free_page)' = old_frame'[w]
    BY <2>3, StandsThen
  <2>5. Stands(p)' = old_frame'[w]
    BY <2>3, <2>4 DEF Stands
  <2> QED
    BY <2>2, <2>3, <2>5
<1>2. CASE \A w \in Workers : Resetting(w) => worker_req[w].free_page # p
  BY <1>2, StandsNow, StandsThen
<1> QED
  BY <1>1, <1>2

\* A commit: the page and the free page change the frames they stand for.
LEMMA StandsCommit ==
  ASSUME OwnInv, TypeOK', HandOffInv', RequestsApart', NEW w \in Workers, Commit(w)
  PROVE  \E x, y \in Pages : /\ Stands(x)' = Stands(y) /\ Stands(y)' = Stands(x)
                            /\ \A p \in Pages \ {x, y} : Stands(p)' = Stands(p)
<1>a. PICK x, y : x = Moving(w) /\ y = worker_req[w].free_page
  OBVIOUS
<1>0. TypeOK /\ HandOffInv /\ RequestsApart /\ FramesSaved
  BY DEF OwnInv
<1>1. /\ wstep[w] # "idle" /\ ~Resetting(w) /\ Committing(w)
      /\ \A u \in Workers : Resetting(u)' <=> Resetting(u) \/ u = w
      /\ UNCHANGED <<worker_req, old_frame>>
      /\ frame' = [frame EXCEPT ![x] = new_frame[w]]
  BY <1>0, <1>a DEF Commit, Resetting, Committing, TypeOK, WorkersOK, mqVars
<1>2. /\ x \in Pages /\ y \in Pages /\ x # y
      /\ \A u \in Workers \ {w} : Resetting(u) => worker_req[u].free_page \notin {x, y}
  BY <1>0, <1>1, <1>a, WorkersApart DEF Resetting
<1>3. frame[x] = old_frame[w] /\ frame[y] = new_frame[w]
  BY <1>0, <1>1, <1>a DEF FramesSaved, Committing
<1>4. Stands(x) = frame[x] /\ Stands(y) = frame[y]
  BY <1>0, <1>1, <1>2, StandsNow
<1>5. frame'[x] = frame[y] /\ \A p \in Pages \ {x} : frame'[p] = frame[p]
  BY <1>0, <1>1, <1>2, <1>3 DEF TypeOK, StructsOK
<1>6. Stands(x)' = frame[y]
  <2>1. \A u \in Workers : Resetting(u)' => worker_req'[u].free_page # x
    BY <1>1, <1>2, <1>a
  <2> QED
    BY <1>5, <2>1, StandsThen
<1>7. Stands(y)' = frame[x]
  <2>1. Stands(worker_req[w].free_page)' = old_frame'[w]
    BY <1>1, StandsThen
  <2> QED
    BY <1>1, <1>3, <1>a, <2>1 DEF Stands
<1>8. ASSUME NEW p \in Pages \ {x, y} PROVE Stands(p)' = Stands(p)
  <2>1. CASE \E u \in Workers : Resetting(u) /\ worker_req[u].free_page = p
    <3>1. PICK u \in Workers : Resetting(u) /\ worker_req[u].free_page = p
      BY <2>1
    <3>2. Stands(p) = old_frame[u]
      BY <1>0, <3>1, StandsNow
    <3>3. Stands(worker_req[u].free_page)' = old_frame'[u] /\ worker_req'[u].free_page = p
      BY <1>1, <3>1, StandsThen
    <3> QED
      BY <1>1, <3>2, <3>3 DEF Stands
  <2>2. CASE \A u \in Workers : Resetting(u) => worker_req[u].free_page # p
    <3>1. \A u \in Workers : Resetting(u)' => worker_req'[u].free_page # p
      BY <1>1, <1>a, <2>2
    <3> QED
      BY <1>0, <1>5, <2>2, <3>1, StandsNow, StandsThen
  <2> QED
    BY <2>1, <2>2
<1> QED
  BY <1>2, <1>4, <1>6, <1>7, <1>8

\* A reset: the free page really gets the frame it stands for.
LEMMA StandsReset ==
  ASSUME OwnInv, TypeOK', HandOffInv', RequestsApart', NEW w \in Workers,
         ResetAfterDemotion(w) \/ ResetAfterPromotion(w)
  PROVE  \A p : Stands(p)' = Stands(p)
<1> DEFINE y == worker_req[w].free_page
<1>0. TypeOK /\ HandOffInv /\ RequestsApart
  BY DEF OwnInv
<1>1. /\ Resetting(w) /\ wstep[w] # "idle"
      /\ \A u \in Workers : Resetting(u)' <=> Resetting(u) /\ u # w
      /\ \A u \in Workers \ {w} : UNCHANGED <<worker_req[u], old_frame[u]>>
      /\ frame' = [frame EXCEPT ![y] = old_frame[w]]
  BY <1>0 DEF ResetAfterDemotion, ResetAfterPromotion, ResetFree, FinishRequest, MQ!Complete,
     Resetting, TypeOK, WorkersOK, mqVars, MQ!TypeOK
<1>2. y \in Pages /\ \A u \in Workers \ {w} : Resetting(u) => worker_req[u].free_page # y
  BY <1>0, <1>1, WorkersApart DEF Resetting
<1>3. frame'[y] = old_frame[w] /\ \A p : p # y => frame'[p] = frame[p]
  BY <1>0, <1>1, <1>2 DEF TypeOK, StructsOK
<1> SUFFICES ASSUME NEW p PROVE Stands(p)' = Stands(p)
  OBVIOUS
<1>4. CASE p = y
  <2>1. Stands(p) = old_frame[w]
    BY <1>0, <1>1, <1>4, StandsNow
  <2>2. \A u \in Workers : Resetting(u)' => worker_req'[u].free_page # p
    BY <1>1, <1>2, <1>4
  <2> QED
    BY <1>3, <1>4, <2>1, <2>2, StandsThen
<1>5. CASE p # y /\ \E u \in Workers : Resetting(u) /\ worker_req[u].free_page = p
  <2>1. PICK u \in Workers \ {w} : Resetting(u) /\ worker_req[u].free_page = p
    BY <1>5
  <2>2. Stands(p) = old_frame[u]
    BY <1>0, <2>1, StandsNow
  <2>3. Stands(worker_req[u].free_page)' = old_frame'[u] /\ worker_req'[u].free_page = p
        /\ old_frame'[u] = old_frame[u]
    BY <1>1, <2>1, StandsThen
  <2> QED
    BY <2>2, <2>3 DEF Stands
<1>6. CASE p # y /\ \A u \in Workers : Resetting(u) => worker_req[u].free_page # p
  <2>1. \A u \in Workers : Resetting(u)' => worker_req'[u].free_page # p
    BY <1>1, <1>6
  <2> QED
    BY <1>0, <1>3, <1>6, <2>1, StandsNow, StandsThen
<1> QED
  BY <1>4, <1>5, <1>6
\* The policy thread works on no frame.
LEMMA PolicyFrames ==
  ASSUME PolicyNext
  PROVE  UNCHANGED <<frame, wstep, old_frame, new_frame, worker_req>>
BY PolicyLeaves DEF PolicyNext, WakeUp, Drain, Score, Collect, BeginMigrations, StopMigrations,
   Choose, GiveBack, SubmitPromotion, GiveUpDemotion, SubmitExchange, PostSubmission, LeaveLoop,
   mqVars, MQ!StartInterval, MQ!CollectCompletion, MQ!StartLoop, MQ!Enqueue, MQ!EndLoop, MQ!Post,
   MQ!workerVars

\* A worker leaves the requests and the saved frames of the others alone.
LEMMA OtherWorkers ==
  ASSUME TypeOK, HandOffInv, NEW w \in Workers, WorkerNext(w), NEW u \in Workers \ {w}
  PROVE  UNCHANGED <<wstep[u], worker_req[u], old_frame[u], new_frame[u]>>
<1>1. CASE WakeWorker(w) \/ TakeRequest(w)
  BY <1>1 DEF WakeWorker, TakeRequest, MQ!Wake, MQ!FindEmpty, MQ!Dequeue, workVars, TypeOK,
     WorkersOK, MQ!TypeOK
<1>2. CASE DemoteStart(w) \/ PromoteStart(w) \/ Remap(w) \/ Commit(w) \/ ResetAfterDemotion(w)
  BY <1>2 DEF DemoteStart, PromoteStart, LockForMigration, Remap, Commit, ResetAfterDemotion,
     TypeOK, WorkersOK, mqVars
<1>3. CASE SkipDemotion(w) \/ SkipPromotion(w) \/ ResetAfterPromotion(w)
  BY <1>3 DEF SkipDemotion, SkipPromotion, ResetAfterPromotion, FinishRequest, MQ!Complete,
     TypeOK, WorkersOK, MQ!TypeOK
<1> QED
  BY <1>1, <1>2, <1>3 DEF WorkerNext

\* The frames of the pages of one worker stay while another one works.
LEMMA OtherFrames ==
  ASSUME OwnInv, NEW w \in Workers, WorkerNext(w), NEW u \in Workers \ {w}, Committing(u)
  PROVE  frame'[Moving(u)] = frame[Moving(u)]
         /\ frame'[worker_req[u].free_page] = frame[worker_req[u].free_page]
<1>0. TypeOK /\ HandOffInv /\ RequestsApart /\ wstep[u] # "idle"
  BY DEF OwnInv, Committing
<1>1. CASE UNCHANGED frame
  BY <1>1
<1>2. CASE Commit(w) \/ ResetAfterDemotion(w) \/ ResetAfterPromotion(w)
  <2>1. /\ wstep[w] # "idle"
        /\ \/ frame' = [frame EXCEPT ![Moving(w)] = new_frame[w]]
           \/ frame' = [frame EXCEPT ![worker_req[w].free_page] = old_frame[w]]
    BY <1>2 DEF Commit, ResetAfterDemotion, ResetAfterPromotion, ResetFree
  <2>2. /\ Moving(u) \notin {Moving(w), worker_req[w].free_page}
        /\ worker_req[u].free_page \notin {Moving(w), worker_req[w].free_page}
    BY <1>0, <2>1, WorkersApart
  <2>3. Moving(u) \in Pages /\ worker_req[u].free_page \in Pages
    BY <1>0, WorkersApart
  <2> QED
    BY <1>0, <2>1, <2>2, <2>3 DEF TypeOK, StructsOK
<1>3. UNCHANGED frame \/ Commit(w) \/ ResetAfterDemotion(w) \/ ResetAfterPromotion(w)
  BY DEF WorkerNext, WakeWorker, TakeRequest, DemoteStart, PromoteStart, LockForMigration,
     SkipDemotion, SkipPromotion, Remap, structVars
<1> QED
  BY <1>1, <1>2, <1>3

\* The frames a worker saved stay the ones of its two pages until it commits.
LEMMA FramesSavedStep ==
  ASSUME OwnInv, [Next]_vars
  PROVE  FramesSaved'
<1>0. TypeOK /\ HandOffInv /\ RequestsApart /\ FramesSaved
  BY DEF OwnInv
<1>1. CASE UNCHANGED <<frame, wstep, old_frame, new_frame, worker_req>>
  BY <1>0, <1>1 DEF FramesSaved, Moving
<1>2. ASSUME NEW w \in Workers, WorkerNext(w) PROVE FramesSaved'
  <2>1. ASSUME NEW u \in Workers \ {w}, Committing(u)'
        PROVE  (frame[Moving(u)] = old_frame[u] /\ frame[worker_req[u].free_page] = new_frame[u])'
    <3>1. UNCHANGED <<wstep[u], worker_req[u], old_frame[u], new_frame[u]>> /\ Committing(u)
      BY <1>0, <1>2, <2>1, OtherWorkers DEF Committing
    <3>2. Moving(u)' = Moving(u)
      BY <3>1 DEF Moving
    <3>3. frame'[Moving(u)] = frame[Moving(u)]
          /\ frame'[worker_req[u].free_page] = frame[worker_req[u].free_page]
      BY <1>2, <3>1, OtherFrames
    <3> QED
      BY <1>0, <3>1, <3>2, <3>3 DEF FramesSaved, Committing
  <2>2. ASSUME Committing(w)'
        PROVE  (frame[Moving(w)] = old_frame[w] /\ frame[worker_req[w].free_page] = new_frame[w])'
    <3>1. CASE DemoteStart(w) \/ PromoteStart(w)
      BY <1>0, <3>1 DEF DemoteStart, PromoteStart, LockForMigration, Moving, TypeOK, WorkersOK,
         StructsOK, mqVars
    <3>2. CASE Remap(w)
      BY <1>0, <3>2 DEF Remap, Moving, FramesSaved, TypeOK, WorkersOK, structVars, mqVars
    <3>3. CASE WakeWorker(w)
      BY <1>0, <2>2, <3>3 DEF WakeWorker, MQ!Wake, MQ!FindEmpty, MQ!workerVars, workVars,
         structVars, FramesSaved, Moving, Committing
    <3>4. CASE \/ TakeRequest(w) \/ SkipDemotion(w) \/ SkipPromotion(w) \/ Commit(w)
               \/ ResetAfterDemotion(w) \/ ResetAfterPromotion(w)
      BY <1>0, <2>2, <3>4 DEF TakeRequest, SkipDemotion, SkipPromotion, Commit,
         ResetAfterDemotion, ResetAfterPromotion, FinishRequest, Committing, TypeOK, WorkersOK
    <3> QED
      BY <1>2, <3>1, <3>2, <3>3, <3>4 DEF WorkerNext
  <2> QED
    BY <2>1, <2>2 DEF FramesSaved, Committing
<1> QED
  BY <1>1, <1>2, StepOf, ThreadsLeave, PolicyFrames

\* Whatever is migrated, the structs stand for all frames, one each.
LEMMA OneStructEachStep ==
  ASSUME OwnInv, [Next]_vars, TypeOK', HandOffInv', RequestsApart'
  PROVE  OneStructEach'
<1>0. TypeOK /\ HandOffInv /\ RequestsApart /\ OneStructEach
  BY DEF OwnInv
<1>1. CASE \A p : Stands(p)' = Stands(p)
  <2>1. ASSUME NEW p \in Pages, NEW q \in Pages, Stands(p)' = Stands(q)' PROVE p = q
    BY <1>0, <1>1, <2>1 DEF OneStructEach
  <2>2. ASSUME NEW f \in Frames PROVE \E p \in Pages : Stands(p)' = f
    BY <1>0, <1>1 DEF OneStructEach
  <2> QED
    BY <2>1, <2>2 DEF OneStructEach
<1>2. CASE UNCHANGED <<frame, wstep, old_frame, new_frame, worker_req>>
  BY <1>0, <1>1, <1>2, StandsSame DEF Resetting
<1>3. ASSUME NEW w \in Workers, WorkerNext(w) PROVE OneStructEach'
  <2>1. CASE Commit(w)
    <3>1. PICK x, y \in Pages : /\ Stands(x)' = Stands(y) /\ Stands(y)' = Stands(x)
                               /\ \A p \in Pages \ {x, y} : Stands(p)' = Stands(p)
      BY <2>1, StandsCommit
    <3>2. ASSUME NEW p \in Pages, NEW q \in Pages, Stands(p)' = Stands(q)' PROVE p = q
      BY <1>0, <3>1, <3>2 DEF OneStructEach
    <3>3. ASSUME NEW f \in Frames PROVE \E p \in Pages : Stands(p)' = f
      BY <1>0, <3>1 DEF OneStructEach
    <3> QED
      BY <3>2, <3>3 DEF OneStructEach
  <2>2. CASE ResetAfterDemotion(w) \/ ResetAfterPromotion(w)
    BY <1>1, <2>2, StandsReset
  <2>3. CASE /\ ~Commit(w) /\ ~ResetAfterDemotion(w) /\ ~ResetAfterPromotion(w)
    <3>1. UNCHANGED frame /\ ~Resetting(w) /\ ~Resetting(w)'
      <4>1. CASE WakeWorker(w)
        BY <1>0, <4>1 DEF WakeWorker, MQ!Wake, MQ!FindEmpty, TypeOK, WorkersOK, Resetting,
           workVars, structVars
      <4>2. CASE TakeRequest(w)
        BY <1>0, <4>2 DEF TakeRequest, MQ!Dequeue, TypeOK, WorkersOK, Resetting, structVars
      <4> QED
        BY <1>0, <1>3, <2>3, <4>1, <4>2 DEF WorkerNext, DemoteStart, PromoteStart, LockForMigration,
           SkipDemotion, SkipPromotion, Remap, FinishRequest, structVars, Resetting, TypeOK, WorkersOK
    <3>2. \A u \in Workers \ {w} : UNCHANGED <<wstep[u], worker_req[u], old_frame[u]>>
      BY <1>0, <1>3, OtherWorkers
    <3>3. \A u \in Workers : /\ Resetting(u)' <=> Resetting(u)
                             /\ Resetting(u) => UNCHANGED <<worker_req[u], old_frame[u]>>
      BY <3>1, <3>2 DEF Resetting
    <3> QED
      BY <1>0, <1>1, <3>1, <3>3, StandsSame
  <2> QED
    BY <2>1, <2>2, <2>3
<1> QED
  BY <1>2, <1>3, StepOf, ThreadsLeave, PolicyFrames
------------------------------------------------------------------------------
(* The invariant holds.                                                    *)

\* pebs_init: every struct is on the list of its tier, with its own frame.
LEMMA OwnInit == Init => OwnInv
<1> SUFFICES ASSUME Init PROVE OwnInv
  OBVIOUS
<1>1. TypeOK /\ HandOffInv
  BY TypeInit, HandOffInvInit
<1>2. NDram \in Nat /\ NNvm \in Nat /\ Pages = 1 .. NDram + NNvm
  BY SizesAssumption DEF Pages
<1>3. Outstanding = {}
  BY DEF Init, MQ!Init, Outstanding, MQ!Queued, MQ!Held, MQ!Busy
<1>4. Inside(Allocating) = {} /\ Inside(Removing) = {} /\ mod_page_dq = <<>> /\ RemovedAt = {}
  BY DEF Init, Inside, Allocating, Removing, RemovedAt, IdleThread
<1>5. /\ Holding["dram"] = 1 .. NDram /\ Holding["nvm"] = NDram + 1 .. NDram + NNvm
      /\ NoRepeats(dram_free_list) /\ NoRepeats(nvm_free_list)
  <2>1. /\ dram_free_list = [i \in 1 .. NDram |-> i]
        /\ nvm_free_list = [i \in 1 .. NNvm |-> NDram + i]
    BY DEF Init
  <2>2. Range(dram_free_list) = 1 .. NDram /\ NoRepeats(dram_free_list)
    BY <1>2, <2>1 DEF Range, NoRepeats
  <2>3. NoRepeats(nvm_free_list)
    BY <1>2, <2>1 DEF NoRepeats
  <2>4. Range(nvm_free_list) = NDram + 1 .. NDram + NNvm
    <3>1. Range(nvm_free_list) = {NDram + i : i \in 1 .. NNvm}
      BY <2>1 DEF Range
    <3>2. ASSUME NEW p \in NDram + 1 .. NDram + NNvm PROVE p \in {NDram + i : i \in 1 .. NNvm}
      <4>1. p - NDram \in 1 .. NNvm /\ p = NDram + (p - NDram)
        BY <1>2
      <4> QED
        BY <4>1
    <3>3. ASSUME NEW i \in 1 .. NNvm PROVE NDram + i \in NDram + 1 .. NDram + NNvm
      BY <1>2
    <3> QED
      BY <3>1, <3>2, <3>3
  <2> QED
    BY <2>2, <2>3, <2>4, HoldingOf
<1>6. \A k \in Kinds \ {"dram", "nvm"} : Holding[k] = {}
  <2>1. Range(pages) \ {None} = {} /\ np = None
    BY DEF Init, Range
  <2> QED
    BY <1>3, <1>4, <2>1, HoldingOf DEF Kinds, PagesInside
<1>7. Accounted
  <2> SUFFICES ASSUME NEW p \in Pages
               PROVE  \E k \in Kinds : \A j \in Kinds : p \in Holding[j] <=> j = k
    BY DEF Accounted
  <2>1. "dram" \in Kinds /\ "nvm" \in Kinds
    BY DEF Kinds
  <2>2. CASE p <= NDram
    <3>1. p \in Holding["dram"] /\ p \notin Holding["nvm"]
      BY <1>2, <1>5, <2>2
    <3> QED
      BY <1>6, <2>1, <3>1
  <2>3. CASE ~(p <= NDram)
    <3>1. p \notin Holding["dram"] /\ p \in Holding["nvm"]
      BY <1>2, <1>5, <2>3
    <3> QED
      BY <1>6, <2>1, <3>1
  <2> QED
    BY <2>2, <2>3
<1>8. Once
  BY <1>3, <1>4, <1>5 DEF Once, OneInside, RequestsOnce, RemovedOnce
<1>9. ThreadPlaces /\ TablePlaces
  BY DEF Init, ThreadPlaces, TablePlaces, IdleThread, Leaving, Threads
<1>10. EntriesAlternate /\ EntriesComplete /\ AdditionsFirst
  <2>1. Len(mod_page_dq) = 0 /\ DOMAIN mod_page_dq = {} /\ 1 .. 0 = {}
    BY <1>4
  <2>2. \A v \in VAs : pages_map[v] = pages[v]
    BY DEF Init
  <2>3. \A t \in Threads : thread[t].pc = "idle"
    BY DEF Init, IdleThread
  <2> QED
    BY <2>1, <2>2, <2>3 DEF EntriesAlternate, EntriesComplete, AdditionsFirst, Shows
<1>11. ScoresKnown /\ SubmittedOutside /\ RequestsApart
  BY <1>3 DEF Init, ScoresKnown, SubmittedOutside, RequestsApart
<1>12. FramesSaved
  BY DEF Init, FramesSaved
<1>13. \A p : Stands(p) = frame[p]
  BY DEF Init, Stands
<1>14. frame = [p \in Pages |-> IF p <= NDram THEN <<TRUE, p - 1>> ELSE <<FALSE, p - NDram - 1>>]
  BY DEF Init
<1>15. ASSUME NEW p \in Pages, NEW q \in Pages, frame[p] = frame[q] PROVE p = q
  <2>1. \A x \in Pages : /\ (x <= NDram => frame[x] = <<TRUE, x - 1>>)
                          /\ (~(x <= NDram) => frame[x] = <<FALSE, x - NDram - 1>>)
    BY <1>14
  <2>2. \A i, j : <<TRUE, i>> # <<FALSE, j>>
    OBVIOUS
  <2>3. CASE p <= NDram /\ q <= NDram
    <3>1. <<TRUE, p - 1>> = <<TRUE, q - 1>>
      BY <1>15, <2>1, <2>3
    <3> QED
      BY <1>2, <3>1
  <2>4. CASE ~(p <= NDram) /\ ~(q <= NDram)
    <3>1. <<FALSE, p - NDram - 1>> = <<FALSE, q - NDram - 1>>
      BY <1>15, <2>1, <2>4
    <3> QED
      BY <1>2, <3>1
  <2> QED
    BY <1>15, <2>1, <2>2, <2>3, <2>4
<1>16. ASSUME NEW f \in Frames PROVE \E p \in Pages : frame[p] = f
  <2>1. CASE f \in {TRUE} \X (0 .. NDram - 1)
    <3>1. PICK i \in 0 .. NDram - 1 : f = <<TRUE, i>>
      <4>1. f = <<f[1], f[2]>>
        BY <2>1, SMT
      <4>2. f[2] \in 0 .. NDram - 1
        BY <2>1, SMT
      <4>3. f[1] \in {TRUE}
        BY <2>1, Zenon
      <4>4. f[1] = TRUE
        BY <4>3, Zenon
      <4> QED
        BY <4>1, <4>2, <4>4, Zenon
    <3>2. i + 1 \in Pages /\ i + 1 <= NDram /\ (i + 1) - 1 = i
      BY <1>2
    <3> QED
      BY <1>14, <3>1, <3>2
  <2>2. CASE f \in {FALSE} \X (0 .. NNvm - 1)
    <3>1. PICK i \in 0 .. NNvm - 1 : f = <<FALSE, i>>
      <4>1. f = <<f[1], f[2]>>
        BY <2>2, SMT
      <4>2. f[2] \in 0 .. NNvm - 1
        BY <2>2, SMT
      <4>3. f[1] \in {FALSE}
        BY <2>2, Zenon
      <4>4. f[1] = FALSE
        BY <4>3, Zenon
      <4> QED
        BY <4>1, <4>2, <4>4, Zenon
    <3>2. PICK p : p = NDram + i + 1
      OBVIOUS
    <3>3. p \in Pages /\ ~(p <= NDram) /\ p - NDram - 1 = i
      BY <1>2, <3>2
    <3> QED
      BY <1>14, <3>1, <3>3
  <2> QED
    BY <2>1, <2>2 DEF Frames
<1>17. OneStructEach
  BY <1>13, <1>15, <1>16 DEF OneStructEach
<1> QED
  BY <1>1, <1>7, <1>8, <1>9, <1>10, <1>11, <1>12, <1>17 DEF OwnInv

\* Every step of every thread keeps the owners, the tables, the queue between
\* them, the requests and the frames right.
LEMMA OwnStep == OwnInv /\ [Next]_vars => OwnInv'
<1> SUFFICES ASSUME OwnInv, [Next]_vars PROVE OwnInv'
  OBVIOUS
<1>1. TypeOK' /\ HandOffInv'
  BY TypeStep, HandOffStep, HandOffInvStep DEF OwnInv
<1>2. RequestsApart'
  BY RequestsApartStep
<1> QED
  BY <1>1, <1>2, OwnersStep, ThreadPlacesStep, TablePlacesStep, EntriesStep, ScoresKnownStep,
     SubmittedOutsideStep, FramesSavedStep, OneStructEachStep DEF OwnInv, Owners, Entries

\* The inductive invariant holds in every reachable state.
LEMMA OwnHolds == SafeSpec => []OwnInv
BY OwnInit, OwnStep, PTL DEF SafeSpec
------------------------------------------------------------------------------
(* What the runs check.                                                    *)

\* The places of one kind: none if there is nothing, one if there is one thing.
Tag(tag, S) == {<<tag, x>> : x \in S}

\* Such places are one or none.
LEMMA Tagged ==
  ASSUME NEW tag, NEW S, \A a, b \in S : a = b
  PROVE  (S # {} => \E x : Tag(tag, S) = {x}) /\ (S = {} => Tag(tag, S) = {})
<1>1. ASSUME NEW a \in S PROVE Tag(tag, S) = {<<tag, a>>}
  BY <1>1 DEF Tag
<1>2. S = {} => Tag(tag, S) = {}
  BY DEF Tag
<1> QED
  BY <1>1, <1>2

\* One owner of one kind, and there once: one place.
LEMMA OnePlace ==
  ASSUME OwnInv, NEW p \in Pages
  PROVE  \E x : Places(p) = {x}
<1> DEFINE Dram == {j \in DOMAIN dram_free_list : dram_free_list[j] = p}
           Nvm == {j \in DOMAIN nvm_free_list : nvm_free_list[j] = p}
           Policy == {j \in {0} : np = p}
           Request == {q \in MQ!Queued \cup MQ!Held : q.free_page = p}
           Alloc == {u \in Threads : thread[u].page = p /\ thread[u].pc \in {"map", "track"}}
           Tracked == {u \in VAs : pages[u] = p}
           Remove == {u \in Threads : thread[u].page = p /\ thread[u].pc = "remove"}
           Removed == {j \in DOMAIN mod_page_dq : mod_page_dq[j] = [page |-> p, free |-> TRUE]}
           T == [dram |-> Tag("dram", Dram),
                 nvm |-> Tag("nvm", Nvm),
                 policy |-> Tag("policy", Policy),
                 request |-> Tag("request", Request),
                 allocating |-> Tag("allocating", Alloc),
                 tracked |-> Tag("tracked", Tracked),
                 removing |-> Tag("removing", Remove),
                 removed |-> Tag("removed", Removed)]
<1>0. TypeOK /\ Accounted /\ Once /\ TablePlaces /\ p # None
  BY NoneAssumption DEF OwnInv
<1>1. (Dram # {} <=> p \in Holding["dram"]) /\ \A a, b \in Dram : a = b
  BY <1>0, HoldingOf DEF Once, NoRepeats, Range
<1>2. (Nvm # {} <=> p \in Holding["nvm"]) /\ \A a, b \in Nvm : a = b
  BY <1>0, HoldingOf DEF Once, NoRepeats, Range
<1>3. (Policy # {} <=> p \in Holding["policy"]) /\ \A a, b \in Policy : a = b
  BY <1>0, HoldingOf
<1>4. (Request # {} <=> p \in Holding["request"]) /\ \A a, b \in Request : a = b
  BY <1>0, HoldingOf DEF Once, RequestsOnce, Outstanding
<1>5. (Alloc # {} <=> p \in Holding["allocating"]) /\ \A a, b \in Alloc : a = b
  BY <1>0, HoldingOf DEF Once, OneInside, PagesInside, Inside, Allocating
<1>6. (Tracked # {} <=> p \in Holding["tracked"]) /\ \A a, b \in Tracked : a = b
  BY <1>0, HoldingOf DEF TablePlaces, Range, TypeOK, TablesOK
<1>7. (Remove # {} <=> p \in Holding["removing"]) /\ \A a, b \in Remove : a = b
  BY <1>0, HoldingOf DEF Once, OneInside, PagesInside, Inside, Removing
<1>8. (Removed # {} <=> p \in Holding["removed"]) /\ \A a, b \in Removed : a = b
  <2>1. ASSUME NEW e \in [page : Pages, free : BOOLEAN]
        PROVE  e = [page |-> p, free |-> TRUE] <=> e.free /\ e.page = p
    <3>1. e = [page |-> p, free |-> TRUE] => e.free /\ e.page = p
      OBVIOUS
    <3>2. e.free /\ e.page = p => e = [page |-> p, free |-> TRUE]
      OBVIOUS
    <3> QED
      BY <3>1, <3>2
  <2>2. \A j \in DOMAIN mod_page_dq : mod_page_dq[j] \in [page : Pages, free : BOOLEAN]
    BY <1>0, ElementOf DEF TypeOK, TablesOK
  <2>3. Removed = {j \in RemovedAt : mod_page_dq[j].page = p}
    BY <2>1, <2>2 DEF RemovedAt
  <2> HIDE DEF Removed
  <2> QED
    BY <1>0, <2>3, HoldingOf DEF Once, RemovedOnce
<1>9. Places(p) = UNION {T[k] : k \in Kinds}
  <2>1. Places(p) = T.dram \cup T.nvm \cup T.policy \cup T.request \cup T.allocating
                    \cup T.tracked \cup T.removing \cup T.removed
    BY DEF Places, Tag
  <2> HIDE DEF T
  <2> QED
    BY <2>1 DEF Kinds
<1> HIDE DEF Dram, Nvm, Policy, Request, Alloc, Tracked, Remove, Removed
<1>10. \A k \in Kinds : /\ p \in Holding[k] => \E x : T[k] = {x}
                        /\ p \notin Holding[k] => T[k] = {}
  <2>0. /\ T["dram"] = Tag("dram", Dram)
        /\ T["nvm"] = Tag("nvm", Nvm)
        /\ T["policy"] = Tag("policy", Policy)
        /\ T["request"] = Tag("request", Request)
        /\ T["allocating"] = Tag("allocating", Alloc)
        /\ T["tracked"] = Tag("tracked", Tracked)
        /\ T["removing"] = Tag("removing", Remove)
        /\ T["removed"] = Tag("removed", Removed)
    OBVIOUS
  <2> HIDE DEF T
  <2>1. /\ p \in Holding["dram"] => \E x : T["dram"] = {x}
        /\ p \notin Holding["dram"] => T["dram"] = {}
    <3>1. \A a, b \in Dram : a = b
      BY <1>1
    <3>2. (Dram # {} => \E x : Tag("dram", Dram) = {x}) /\ (Dram = {} => Tag("dram", Dram) = {})
      BY <3>1, Tagged
    <3> QED
      BY <1>1, <2>0, <3>2
  <2>2. /\ p \in Holding["nvm"] => \E x : T["nvm"] = {x}
        /\ p \notin Holding["nvm"] => T["nvm"] = {}
    <3>1. \A a, b \in Nvm : a = b
      BY <1>2
    <3>2. (Nvm # {} => \E x : Tag("nvm", Nvm) = {x}) /\ (Nvm = {} => Tag("nvm", Nvm) = {})
      BY <3>1, Tagged
    <3> QED
      BY <1>2, <2>0, <3>2
  <2>3. /\ p \in Holding["policy"] => \E x : T["policy"] = {x}
        /\ p \notin Holding["policy"] => T["policy"] = {}
    <3>1. \A a, b \in Policy : a = b
      BY <1>3
    <3>2. (Policy # {} => \E x : Tag("policy", Policy) = {x}) /\ (Policy = {} => Tag("policy", Policy) = {})
      BY <3>1, Tagged
    <3> QED
      BY <1>3, <2>0, <3>2
  <2>4. /\ p \in Holding["request"] => \E x : T["request"] = {x}
        /\ p \notin Holding["request"] => T["request"] = {}
    <3>1. \A a, b \in Request : a = b
      BY <1>4
    <3>2. (Request # {} => \E x : Tag("request", Request) = {x}) /\ (Request = {} => Tag("request", Request) = {})
      BY <3>1, Tagged
    <3> QED
      BY <1>4, <2>0, <3>2
  <2>5. /\ p \in Holding["allocating"] => \E x : T["allocating"] = {x}
        /\ p \notin Holding["allocating"] => T["allocating"] = {}
    <3>1. \A a, b \in Alloc : a = b
      BY <1>5
    <3>2. (Alloc # {} => \E x : Tag("allocating", Alloc) = {x}) /\ (Alloc = {} => Tag("allocating", Alloc) = {})
      BY <3>1, Tagged
    <3> QED
      BY <1>5, <2>0, <3>2
  <2>6. /\ p \in Holding["tracked"] => \E x : T["tracked"] = {x}
        /\ p \notin Holding["tracked"] => T["tracked"] = {}
    <3>1. \A a, b \in Tracked : a = b
      BY <1>6
    <3>2. (Tracked # {} => \E x : Tag("tracked", Tracked) = {x}) /\ (Tracked = {} => Tag("tracked", Tracked) = {})
      BY <3>1, Tagged
    <3> QED
      BY <1>6, <2>0, <3>2
  <2>7. /\ p \in Holding["removing"] => \E x : T["removing"] = {x}
        /\ p \notin Holding["removing"] => T["removing"] = {}
    <3>1. \A a, b \in Remove : a = b
      BY <1>7
    <3>2. (Remove # {} => \E x : Tag("removing", Remove) = {x}) /\ (Remove = {} => Tag("removing", Remove) = {})
      BY <3>1, Tagged
    <3> QED
      BY <1>7, <2>0, <3>2
  <2>8. /\ p \in Holding["removed"] => \E x : T["removed"] = {x}
        /\ p \notin Holding["removed"] => T["removed"] = {}
    <3>1. \A a, b \in Removed : a = b
      BY <1>8
    <3>2. (Removed # {} => \E x : Tag("removed", Removed) = {x}) /\ (Removed = {} => Tag("removed", Removed) = {})
      BY <3>1, Tagged
    <3> QED
      BY <1>8, <2>0, <3>2
  <2> QED
    BY <2>1, <2>2, <2>3, <2>4, <2>5, <2>6, <2>7, <2>8 DEF Kinds
<1> HIDE DEF T
<1>11. PICK k \in Kinds : \A j \in Kinds : p \in Holding[j] <=> j = k
  BY <1>0 DEF Accounted
<1>12. UNION {T[j] : j \in Kinds} = T[k]
  BY <1>10, <1>11
<1> QED
  BY <1>9, <1>10, <1>11, <1>12

\* No struct is leaked or in two places, whatever is mapped, unmapped and
\* migrated, in every UnmapMode: the hand-over of pages between
\* pebs_allocate_page, pebs_remove_page, mod_page_dq, the migration requests
\* and the free lists loses none, also where a page is removed while it is
\* being migrated.
THEOREM StructsAccounted == SafeSpec => []PagesAccounted
<1>1. OwnInv => PagesAccounted
  BY OnePlace, FS_Singleton DEF PagesAccounted
<1> QED
  BY <1>1, OwnHolds, PTL

\* Two outstanding migration requests never name the same page, in any role.
THEOREM RequestsNeverShare == SafeSpec => []RequestsDisjoint
<1>1. ASSUME OwnInv PROVE RequestsDisjoint
  <2>0. HandOffInv /\ RequestsApart /\ Outstanding = MQ!Queued \cup MQ!Held
    BY <1>1 DEF OwnInv, Outstanding
  <2>1. ASSUME NEW r \in Outstanding
        PROVE  Cardinality(Involved(r)) = IF r.need_demotion THEN 3 ELSE 2
    <3>1. /\ r.nvm_page \in Pages /\ r.free_page \in Pages /\ r.dram_page \in Pages \cup {None}
          /\ None \notin Pages
      BY <2>0, OutstandingReqs, NoneAssumption DEF Reqs
    <3>2. /\ r.need_demotion <=> r.dram_page # None
          /\ r.nvm_page # r.free_page
          /\ r.dram_page # r.nvm_page /\ r.dram_page # r.free_page
      BY <2>0 DEF RequestsApart
    <3>3. /\ IsFiniteSet({r.nvm_page}) /\ Cardinality({r.nvm_page}) = 1
      BY FS_Singleton
    <3>4. /\ IsFiniteSet({r.nvm_page} \cup {r.free_page})
          /\ Cardinality({r.nvm_page} \cup {r.free_page}) = 2
      BY <3>2, <3>3, FS_AddElement
    <3>5. CASE r.dram_page = None
      <4>1. Involved(r) = {r.nvm_page} \cup {r.free_page}
        BY <3>1, <3>5 DEF Involved
      <4> QED
        BY <3>2, <3>4, <3>5, <4>1
    <3>6. CASE r.dram_page # None
      <4>1. Involved(r) = ({r.nvm_page} \cup {r.free_page}) \cup {r.dram_page}
        BY <3>1, <3>6 DEF Involved
      <4>2. Cardinality(({r.nvm_page} \cup {r.free_page}) \cup {r.dram_page}) = 3
        BY <3>2, <3>4, FS_AddElement
      <4> QED
        BY <3>2, <3>6, <4>1, <4>2
    <3> QED
      BY <3>5, <3>6
  <2> QED
    BY <2>0, <2>1 DEF RequestsDisjoint, RequestsApart
<1> QED
  BY <1>1, OwnHolds, PTL

\* The structs stand for all frames of the two devices, one each, also in the
\* middle of a migration: pebs_migrate_down and pebs_migrate_up exchange the
\* frames of a page and a free page and lose none.
THEOREM NoFrameLost == SafeSpec => []FramesOwned
<1>1. ASSUME OwnInv PROVE FramesOwned
  <2>0. TypeOK /\ HandOffInv /\ RequestsApart /\ OneStructEach
    BY <1>1 DEF OwnInv
  <2>1. ASSUME NEW p \in Pages PROVE Stands(p) \in Frames
    <3>1. CASE \E w \in Workers : Resetting(w) /\ worker_req[w].free_page = p
      BY <2>0, <3>1, StandsNow DEF Resetting, TypeOK, WorkersOK
    <3>2. CASE \A w \in Workers : Resetting(w) => worker_req[w].free_page # p
      BY <2>0, <3>2, StandsNow DEF TypeOK, StructsOK
    <3> QED
      BY <3>1, <3>2
  <2> QED
    BY <2>0, <2>1 DEF FramesOwned, OneStructEach
<1> QED
  BY <1>1, OwnHolds, PTL

\* Once it has drained mod_page_dq the policy thread works on the pages that
\* are tracked, in whatever order additions and removals were reported.
THEOREM PolicyTableRight == SafeSpec => []PolicyTableCurrent
<1>1. ASSUME OwnInv PROVE PolicyTableCurrent
  <2> SUFFICES ASSUME mod_page_dq = <<>>,
                      \A t \in Threads : thread[t].pc \notin {"report", "remove"}
               PROVE  pages_map = pages
    BY DEF PolicyTableCurrent
  <2>1. EntriesComplete /\ pages \in [VAs -> Pages \cup {None}]
        /\ pages_map \in [VAs -> Pages \cup {None}]
    BY <1>1 DEF OwnInv, TypeOK, TablesOK
  <2>2. ASSUME NEW v \in VAs PROVE pages_map[v] = pages[v]
    <3>1. Len(mod_page_dq) = 0 /\ 1 .. 0 = {}
      OBVIOUS
    <3>2. Shows(v, Len(mod_page_dq), pages[v])
      BY <2>1 DEF EntriesComplete, Reporting
    <3> QED
      BY <3>1, <3>2 DEF Shows
  <2> QED
    BY <2>1, <2>2
<1> QED
  BY <1>1, OwnHolds, PTL
=============================================================================
