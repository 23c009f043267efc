------------------------ MODULE MigrationQueueProofs ------------------------
(***************************************************************************)
(* Proofs about MigrationQueue, for any number of workers, requests and    *)
(* batch sizes: types, conservation of jobs, no request twice, and that    *)
(* the list, the semaphores and the workers implement the safety part of   *)
(* MigrationSpec.                                                          *)
(***************************************************************************)
EXTENDS MigrationQueue, FiniteSetTheorems, TLAPS

\* The inductive invariant: the types give the sequence and the counters
\* their algebra, distinctness lets a request leave Queued or Held for good,
\* and conservation is what an empty machine is concluded from.
IInv == TypeOK /\ JobsConserved /\ RequestsDistinct

-----------------------------------------------------------------------------
(* Facts about the helpers.                                                *)

\* The busy workers are finitely many.
LEMMA BusyFinite == IsFiniteSet(Busy) /\ Cardinality(Busy) \in Nat
<1>1. Busy \subseteq Workers
  BY DEF Busy
<1>2. IsFiniteSet(Busy)
  BY <1>1, WorkersAssumption, FS_Subset
<1> QED
  BY <1>2, FS_CardinalityType

\* A worker that turns to work is one more, one that stops is one less.
LEMMA BusyAdd ==
  ASSUME NEW w \in Workers, worker_pc \in [Workers -> {"wait", "poll", "work"}],
         worker_pc[w] # "work", worker_pc' = [worker_pc EXCEPT ![w] = "work"]
  PROVE  Busy' = Busy \cup {w} /\ Cardinality(Busy)' = Cardinality(Busy) + 1
<1>1. Busy' = Busy \cup {w} /\ w \notin Busy
  BY DEF Busy
<1>2. Cardinality(Busy \cup {w}) = Cardinality(Busy) + 1
  BY <1>1, BusyFinite, FS_AddElement
<1> QED
  BY <1>1, <1>2

\* A worker that stops working is one busy worker less.
LEMMA BusyRemove ==
  ASSUME NEW w \in Workers, worker_pc \in [Workers -> {"wait", "poll", "work"}],
         worker_pc[w] = "work", worker_pc' = [worker_pc EXCEPT ![w] = "poll"]
  PROVE  Busy' = Busy \ {w} /\ Cardinality(Busy)' = Cardinality(Busy) - 1
<1>1. Busy' = Busy \ {w} /\ w \in Busy
  BY DEF Busy
<1>2. Cardinality(Busy \ {w}) = Cardinality(Busy) - 1
  BY <1>1, BusyFinite, FS_RemoveElement
<1> QED
  BY <1>1, <1>2

\* A step between wait and poll leaves the busy workers alone.
LEMMA BusySame ==
  ASSUME NEW w \in Workers, worker_pc \in [Workers -> {"wait", "poll", "work"}],
         NEW pc \in {"wait", "poll"},
         worker_pc[w] # "work", worker_pc' = [worker_pc EXCEPT ![w] = pc]
  PROVE  Busy' = Busy
BY DEF Busy

-----------------------------------------------------------------------------
(* Type correctness.                                                       *)

\* Types hold initially and every step keeps them.
LEMMA TypeInit == Init => TypeOK
BY DEF Init, TypeOK, Busy

\* Every step of the policy thread or a worker keeps the types.
LEMMA TypeStep == TypeOK /\ [Next]_vars => TypeOK'
<1> SUFFICES ASSUME TypeOK, [Next]_vars PROVE TypeOK'
  OBVIOUS
<1> USE DEF TypeOK
<1>1. CASE StartInterval
  BY <1>1 DEF StartInterval, workerVars, Busy
<1>2. CASE CollectCompletion
  BY <1>2 DEF CollectCompletion, workerVars, Busy
<1>3. CASE StartLoop
  BY <1>3 DEF StartLoop, workerVars, Busy
<1>4. ASSUME NEW r \in Reqs, Enqueue(r) PROVE TypeOK'
  BY <1>4 DEF Enqueue, workerVars, Busy
<1>5. CASE Post
  BY <1>5 DEF Post, workerVars, Busy
<1>6. CASE EndLoop
  BY <1>6 DEF EndLoop, workerVars, Busy
<1>7. ASSUME NEW w \in Workers, Wake(w) PROVE TypeOK'
  BY <1>7 DEF Wake, policyVars, Busy
<1>8. ASSUME NEW w \in Workers, Dequeue(w) PROVE TypeOK'
  <2>1. Head(migration_queue) \in Reqs /\ Tail(migration_queue) \in Seq(Reqs)
    BY <1>8 DEF Dequeue
  <2>2. Head(migration_queue) # NoReq
    BY <2>1, ReqsAssumption
  <2> QED
    BY <1>8, <2>1, <2>2 DEF Dequeue, policyVars, Busy
<1>9. ASSUME NEW w \in Workers, FindEmpty(w) PROVE TypeOK'
  BY <1>9 DEF FindEmpty, policyVars, Busy
<1>10. ASSUME NEW w \in Workers, Complete(w) PROVE TypeOK'
  BY <1>10 DEF Complete, policyVars, Busy
<1>11. CASE UNCHANGED vars
  BY <1>11 DEF vars, Busy
<1> QED
  BY <1>1, <1>2, <1>3, <1>4, <1>5, <1>6, <1>7, <1>8, <1>9, <1>10, <1>11
     DEF Next, PolicyNext, WorkerNext

\* Every variable of the hand-off keeps its type, and a worker has a request
\* exactly between dequeue_fifo_m and free(req).
THEOREM TypeCorrect == SafeSpec => []TypeOK
BY TypeInit, TypeStep, PTL DEF SafeSpec

-----------------------------------------------------------------------------
(* Conservation of jobs.                                                   *)

\* Every step moves a job between the list, the workers and the completions,
\* or changes the count together with one of them.
LEMMA JobsStep == TypeOK /\ JobsConserved /\ [Next]_vars => JobsConserved'
<1> SUFFICES ASSUME TypeOK, JobsConserved, [Next]_vars PROVE JobsConserved'
  OBVIOUS
<1> USE BusyFinite DEF TypeOK, JobsConserved
<1>1. CASE UNCHANGED <<migration_queue, completion_sem, num_migration_jobs, worker_pc>>
  <2>1. Busy' = Busy
    BY <1>1 DEF Busy
  <2> QED
    BY <1>1, <2>1
<1>2. CASE CollectCompletion
  <2>1. Busy' = Busy
    BY <1>2 DEF CollectCompletion, workerVars, Busy
  <2> QED
    BY <1>2, <2>1 DEF CollectCompletion
<1>3. ASSUME NEW r \in Reqs, Enqueue(r) PROVE JobsConserved'
  <2>1. Busy' = Busy
    BY <1>3 DEF Enqueue, workerVars, Busy
  <2>2. Len(migration_queue') = Len(migration_queue) + 1
    BY <1>3 DEF Enqueue
  <2> QED
    BY <1>3, <2>1, <2>2 DEF Enqueue
<1>4. ASSUME NEW w \in Workers, Wake(w) \/ FindEmpty(w) PROVE JobsConserved'
  <2>1. Busy' = Busy
    BY <1>4, BusySame DEF Wake, FindEmpty
  <2> QED
    BY <1>4, <2>1 DEF Wake, FindEmpty, policyVars
<1>5. ASSUME NEW w \in Workers, Dequeue(w) PROVE JobsConserved'
  <2>1. Cardinality(Busy)' = Cardinality(Busy) + 1
    BY <1>5, BusyAdd DEF Dequeue
  <2>2. Len(migration_queue') = Len(migration_queue) - 1 /\ Len(migration_queue) \in Nat
    BY <1>5 DEF Dequeue
  <2> QED
    BY <1>5, <2>1, <2>2 DEF Dequeue, policyVars
<1>6. ASSUME NEW w \in Workers, Complete(w) PROVE JobsConserved'
  <2>1. Cardinality(Busy)' = Cardinality(Busy) - 1
    BY <1>6, BusyRemove DEF Complete
  <2>2. /\ completion_sem' = completion_sem + 1
        /\ UNCHANGED <<migration_queue, num_migration_jobs>>
    BY <1>6 DEF Complete, policyVars
  <2>3. Len(migration_queue) \in Nat
    OBVIOUS
  <2> QED
    BY <2>1, <2>2, <2>3
<1>7. CASE StartInterval \/ StartLoop \/ Post \/ EndLoop \/ UNCHANGED vars
  BY <1>1, <1>7 DEF StartInterval, StartLoop, Post, EndLoop, vars, workerVars
<1> QED
  BY <1>2, <1>3, <1>4, <1>5, <1>6, <1>7 DEF Next, PolicyNext, WorkerNext

-----------------------------------------------------------------------------
(* No request twice.                                                       *)

\* What Enqueue, Dequeue and Complete do to the requests on the list and with
\* the workers.
LEMMA EnqueueSets ==
  ASSUME TypeOK, NEW r \in Reqs, Enqueue(r)
  PROVE  Queued' = Queued \cup {r} /\ Held' = Held /\ Busy' = Busy
<1>1. Busy' = Busy /\ Held' = Held
  BY DEF Enqueue, Held, Busy, workerVars
<1>2. migration_queue \in Seq(Reqs) /\ migration_queue' = Append(migration_queue, r)
  BY DEF TypeOK, Enqueue
<1>3. /\ DOMAIN migration_queue' = DOMAIN migration_queue \cup {Len(migration_queue) + 1}
      /\ \A i \in DOMAIN migration_queue : migration_queue'[i] = migration_queue[i]
      /\ migration_queue'[Len(migration_queue) + 1] = r
  BY <1>2
<1>4. Queued' = Queued \cup {r}
  BY <1>3 DEF Queued
<1> QED
  BY <1>1, <1>4

\* dequeue_fifo_m moves the oldest request from the list to its worker.
LEMMA DequeueSets ==
  ASSUME IInv, NEW w \in Workers, Dequeue(w)
  PROVE  LET r == Head(migration_queue) IN
         /\ r \in Queued /\ r \in Reqs
         /\ Queued' = Queued \ {r} /\ Held' = Held \cup {r}
         /\ worker_req'[w] = r /\ Busy' = Busy \cup {w} /\ w \notin Busy
<1> DEFINE r == Head(migration_queue)
<1> USE DEF IInv, TypeOK, RequestsDistinct
<1>1. migration_queue \in Seq(Reqs) /\ migration_queue # <<>>
      /\ migration_queue' = Tail(migration_queue)
  BY DEF Dequeue
<1>2. r = migration_queue[1] /\ 1 \in DOMAIN migration_queue /\ r \in Reqs
  BY <1>1
<1>3. /\ DOMAIN migration_queue' = 1 .. Len(migration_queue) - 1
      /\ \A i \in 1 .. Len(migration_queue) - 1 :
            migration_queue'[i] = migration_queue[i + 1]
  BY <1>1
<1>4. \A i \in DOMAIN migration_queue : i # 1 => migration_queue[i] # r
  BY <1>2
<1>5. Queued' = Queued \ {r}
  <2>1. ASSUME NEW x \in Queued' PROVE x \in Queued \ {r}
    <3>1. PICK i \in 1 .. Len(migration_queue) - 1 : x = migration_queue[i + 1]
      BY <2>1, <1>3 DEF Queued
    <3>2. i + 1 \in DOMAIN migration_queue /\ i + 1 # 1
      BY <1>1
    <3> QED
      BY <3>1, <3>2, <1>4 DEF Queued
  <2>2. ASSUME NEW x \in Queued \ {r} PROVE x \in Queued'
    <3>1. PICK i \in DOMAIN migration_queue : x = migration_queue[i]
      BY <2>2 DEF Queued
    <3>2. i # 1
      BY <2>2, <3>1, <1>2
    <3>3. i - 1 \in 1 .. Len(migration_queue) - 1 /\ (i - 1) + 1 = i
      BY <1>1, <3>2
    <3>4. migration_queue'[i - 1] = x
      BY <1>3, <3>1, <3>3
    <3> QED
      BY <1>3, <3>3, <3>4 DEF Queued
  <2> QED
    BY <2>1, <2>2
<1>6. Busy' = Busy \cup {w} /\ w \notin Busy /\ worker_req'[w] = r
      /\ \A v \in Workers \ {w} : worker_req'[v] = worker_req[v]
  BY DEF Dequeue, Busy
<1>7. Held' = Held \cup {r}
  BY <1>6 DEF Held, Busy
<1>8. r \in Queued
  BY <1>2 DEF Queued
<1> HIDE DEF IInv, TypeOK, RequestsDistinct
<1> QED
  BY <1>2, <1>5, <1>6, <1>7, <1>8

\* A completed request leaves its worker and nothing else.
LEMMA CompleteSets ==
  ASSUME IInv, NEW w \in Workers, Complete(w)
  PROVE  /\ worker_req[w] \in Held /\ worker_req[w] \in Reqs
         /\ Queued' = Queued /\ Held' = Held \ {worker_req[w]}
         /\ Busy' = Busy \ {w} /\ w \in Busy
<1> USE DEF IInv, TypeOK, RequestsDistinct
<1>1. Busy' = Busy \ {w} /\ w \in Busy /\ Queued' = Queued
      /\ \A v \in Workers \ {w} : worker_req'[v] = worker_req[v]
  BY DEF Complete, Busy, Queued
<1>2. Held' = Held \ {worker_req[w]}
  <2>1. \A v \in Busy : v # w => worker_req[v] # worker_req[w]
    BY <1>1
  <2> QED
    BY <1>1, <2>1 DEF Held, Busy
<1> QED
  BY <1>1, <1>2 DEF Held, Busy

\* A new request is in neither place, a dequeued one leaves the list for one
\* worker, a completed one is gone.
LEMMA DistinctStep == IInv /\ [Next]_vars => RequestsDistinct'
<1> SUFFICES ASSUME IInv, [Next]_vars PROVE RequestsDistinct'
  OBVIOUS
<1>0. TypeOK /\ RequestsDistinct
  BY DEF IInv
<1>1. CASE UNCHANGED <<migration_queue, worker_pc, worker_req>>
  BY <1>0, <1>1 DEF RequestsDistinct, Queued, Held, Busy
<1>2. ASSUME NEW r \in Reqs, Enqueue(r) PROVE RequestsDistinct'
  <2>1. Queued' = Queued \cup {r} /\ Held' = Held /\ Busy' = Busy
    BY <1>0, <1>2, EnqueueSets
  <2>2. r \notin Queued /\ r \notin Held /\ UNCHANGED worker_req
    BY <1>2 DEF Enqueue, workerVars
  <2>3. \A i, j \in DOMAIN migration_queue' :
           migration_queue'[i] = migration_queue'[j] => i = j
    <3>1. /\ migration_queue \in Seq(Reqs)
          /\ migration_queue' = Append(migration_queue, r)
      BY <1>0, <1>2 DEF TypeOK, Enqueue
    <3>2. \A i \in DOMAIN migration_queue : migration_queue[i] # r
      BY <2>2 DEF Queued
    <3> QED
      BY <1>0, <3>1, <3>2 DEF RequestsDistinct
  <2> QED
    BY <1>0, <2>1, <2>2, <2>3 DEF RequestsDistinct
<1>3. ASSUME NEW w \in Workers, Wake(w) \/ FindEmpty(w) PROVE RequestsDistinct'
  <2>1. Busy' = Busy
    BY <1>0, <1>3, BusySame DEF Wake, FindEmpty, TypeOK
  <2>2. Queued' = Queued /\ Held' = Held
    BY <1>3, <2>1 DEF Wake, FindEmpty, Queued, Held
  <2> QED
    BY <1>0, <1>3, <2>1, <2>2 DEF Wake, FindEmpty, RequestsDistinct
<1>4. ASSUME NEW w \in Workers, Dequeue(w) PROVE RequestsDistinct'
  <2> DEFINE r == Head(migration_queue)
  <2>1. /\ r \in Queued /\ Queued' = Queued \ {r} /\ Held' = Held \cup {r}
        /\ worker_req'[w] = r /\ Busy' = Busy \cup {w} /\ w \notin Busy
    BY <1>4, DequeueSets
  <2>2. \A i, j \in DOMAIN migration_queue' :
           migration_queue'[i] = migration_queue'[j] => i = j
    <3>1. /\ migration_queue \in Seq(Reqs) /\ migration_queue # <<>>
          /\ migration_queue' = Tail(migration_queue)
      BY <1>0, <1>4 DEF TypeOK, Dequeue
    <3>2. ASSUME NEW i \in DOMAIN migration_queue'
          PROVE  /\ i \in Int /\ i + 1 \in DOMAIN migration_queue
                 /\ migration_queue'[i] = migration_queue[i + 1]
      BY <3>1
    <3>3. \A i, j \in DOMAIN migration_queue' :
             migration_queue[i + 1] = migration_queue[j + 1] => i + 1 = j + 1
      BY <1>0, <3>2 DEF RequestsDistinct
    <3> QED
      BY <3>2, <3>3
  <2>3. \A v \in Busy : worker_req'[v] = worker_req[v] /\ worker_req[v] \in Held
    BY <1>0, <1>4, <2>1 DEF Dequeue, TypeOK, Held, Busy
  <2>4. \A u, v \in Busy' : worker_req'[u] = worker_req'[v] => u = v
    BY <1>0, <2>1, <2>3 DEF RequestsDistinct
  <2>5. Queued' \cap Held' = {}
    BY <1>0, <2>1 DEF RequestsDistinct
  <2> QED
    BY <2>2, <2>4, <2>5 DEF RequestsDistinct
<1>5. ASSUME NEW w \in Workers, Complete(w) PROVE RequestsDistinct'
  <2>1. /\ Queued' = Queued /\ Held' = Held \ {worker_req[w]}
        /\ Busy' = Busy \ {w} /\ w \in Busy
    BY <1>5, CompleteSets
  <2>2. \A v \in Busy' : worker_req'[v] = worker_req[v]
    BY <1>0, <1>5, <2>1 DEF Complete, TypeOK, Busy
  <2> QED
    BY <1>0, <1>5, <2>1, <2>2 DEF RequestsDistinct, Complete
<1>6. CASE \/ StartInterval \/ CollectCompletion \/ StartLoop \/ Post \/ EndLoop
           \/ UNCHANGED vars
  BY <1>1, <1>6
     DEF StartInterval, CollectCompletion, StartLoop, Post, EndLoop, vars, workerVars
<1> QED
  BY <1>2, <1>3, <1>4, <1>5, <1>6 DEF Next, PolicyNext, WorkerNext

-----------------------------------------------------------------------------
(* The invariant and its consequences.                                     *)

\* Nothing is outstanding when the threads start.
LEMMA IInvInit == Init => IInv
<1> SUFFICES ASSUME Init PROVE IInv
  OBVIOUS
<1>1. TypeOK
  BY TypeInit
<1>2. Busy = {} /\ Queued = {} /\ Held = {}
  BY DEF Init, Busy, Queued, Held
<1>3. JobsConserved
  BY <1>2, FS_EmptySet DEF Init, JobsConserved
<1>4. RequestsDistinct
  BY <1>2 DEF Init, RequestsDistinct
<1> QED
  BY <1>1, <1>3, <1>4 DEF IInv

\* The invariant is inductive.
LEMMA IInvStep == IInv /\ [Next]_vars => IInv'
BY TypeStep, JobsStep, DistinctStep DEF IInv

\* So it holds of every reachable state.
LEMMA IInvHolds == SafeSpec => []IInv
BY IInvInit, IInvStep, PTL DEF SafeSpec

\* What the policy thread believes is outstanding is what is: each job that
\* num_migration_jobs counts is on the list, with one worker, or a
\* completion not collected yet.
THEOREM JobsAreConserved == SafeSpec => []JobsConserved
<1>1. IInv => JobsConserved
  BY DEF IInv
<1> QED
  BY <1>1, IInvHolds, PTL

\* No request is executed twice, and no two workers share one.
THEOREM NoRequestTwice == SafeSpec => []RequestsDistinct
<1>1. IInv => RequestsDistinct
  BY DEF IInv
<1> QED
  BY <1>1, IInvHolds, PTL

\* Nothing is outstanding once every counted job has been collected.
LEMMA IdleMachine ==
  ASSUME IInv, num_migration_jobs = 0
  PROVE  migration_queue = <<>> /\ Busy = {} /\ completion_sem = 0
         /\ Queued = {} /\ Held = {}
<1>1. /\ Len(migration_queue) \in Nat /\ Cardinality(Busy) \in Nat
      /\ completion_sem \in Nat
      /\ 0 = Len(migration_queue) + Cardinality(Busy) + completion_sem
  BY BusyFinite DEF IInv, TypeOK, JobsConserved
<1>2. Len(migration_queue) = 0 /\ Cardinality(Busy) = 0 /\ completion_sem = 0
  BY <1>1
<1>3. migration_queue = <<>>
  BY <1>2 DEF IInv, TypeOK
<1>4. Busy = {}
  BY <1>2, BusyFinite, FS_EmptySet
<1> QED
  BY <1>2, <1>3, <1>4 DEF Queued, Held

\* The migration loop of an interval begins with an idle machine: no request
\* of an earlier interval is on the list or with a worker.
THEOREM IntervalsDoNotOverlap == SafeSpec => LoopStartsIdle
<1>1. IInv /\ [Next]_vars => [StartLoop => migration_queue = <<>> /\ Busy = {}]_vars
  BY IdleMachine DEF StartLoop
<1> QED
  BY <1>1, IInvHolds, PTL DEF SafeSpec, LoopStartsIdle

-----------------------------------------------------------------------------
(* The refinement of MigrationSpec.                                        *)

\* The promise starts with nothing outstanding too.
LEMMA PromiseInit == Init => Promise!Init
BY DEF Init, Promise!Init, Queued, Held, Busy

\* A step of the policy thread or of a worker is a step of the promise or
\* leaves what the promise talks about alone.
LEMMA PromiseStep == IInv /\ [Next]_vars => [Promise!Next]_Promise!vars
<1> SUFFICES ASSUME IInv, [Next]_vars PROVE [Promise!Next]_Promise!vars
  OBVIOUS
<1>0. TypeOK
  BY DEF IInv
<1>1. CASE CollectCompletion
  <2>1. Promise!Acknowledge
    BY <1>1 DEF CollectCompletion, Promise!Acknowledge, Queued, Held, Busy, workerVars
  <2> QED
    BY <2>1 DEF Promise!Next
<1>2. CASE StartLoop
  <2>1. Queued = {} /\ Held = {} /\ completion_sem = 0
    BY <1>2, IdleMachine DEF StartLoop
  <2>2. Queued' = Queued /\ Held' = Held
    BY <1>2 DEF StartLoop, Queued, Held, Busy, workerVars
  <2>3. Promise!Begin
    BY <1>2, <2>1, <2>2 DEF StartLoop, Promise!Begin
  <2> QED
    BY <2>3 DEF Promise!Next
<1>3. ASSUME NEW r \in Reqs, Enqueue(r) PROVE Promise!Next
  <2>1. Queued' = Queued \cup {r} /\ Held' = Held
    BY <1>0, <1>3, EnqueueSets
  <2>2. Promise!Submit(r)
    BY <1>3, <2>1 DEF Enqueue, Promise!Submit
  <2> QED
    BY <2>2 DEF Promise!Next
<1>4. CASE EndLoop
  <2>1. Promise!End
    BY <1>4 DEF EndLoop, Promise!End, Queued, Held, Busy, workerVars
  <2> QED
    BY <2>1 DEF Promise!Next
<1>5. ASSUME NEW w \in Workers, Dequeue(w) PROVE Promise!Next
  <2> DEFINE r == Head(migration_queue)
  <2>1. r \in Queued /\ r \in Reqs /\ Queued' = Queued \ {r} /\ Held' = Held \cup {r}
    BY <1>5, DequeueSets
  <2>2. completion_sem' = completion_sem /\ policy_pc' = policy_pc
    BY <1>5 DEF Dequeue, policyVars
  <2>3. Promise!Execute(r)
    BY <2>1, <2>2 DEF Promise!Execute
  <2> QED
    BY <2>1, <2>3 DEF Promise!Next
<1>6. ASSUME NEW w \in Workers, Complete(w) PROVE Promise!Next
  <2>1. /\ worker_req[w] \in Held /\ worker_req[w] \in Reqs
        /\ Queued' = Queued /\ Held' = Held \ {worker_req[w]}
    BY <1>6, CompleteSets
  <2>2. completion_sem' = completion_sem + 1 /\ policy_pc' = policy_pc
    BY <1>6 DEF Complete, policyVars
  <2>3. Promise!Finish(worker_req[w])
    BY <2>1, <2>2 DEF Promise!Finish
  <2> QED
    BY <2>1, <2>3 DEF Promise!Next
<1>7. ASSUME NEW w \in Workers, Wake(w) \/ FindEmpty(w) PROVE UNCHANGED Promise!vars
  <2>1. Busy' = Busy
    BY <1>0, <1>7, BusySame DEF Wake, FindEmpty, TypeOK
  <2> QED
    BY <1>7, <2>1 DEF Wake, FindEmpty, Promise!vars, Queued, Held, policyVars
<1>8. CASE StartInterval \/ Post \/ UNCHANGED vars
  BY <1>8 DEF StartInterval, Post, vars, workerVars, Promise!vars, Queued, Held, Busy
<1> QED
  BY <1>1, <1>2, <1>3, <1>4, <1>5, <1>6, <1>7, <1>8 DEF Next, PolicyNext, WorkerNext

\* The linked list, the two semaphores and the workers implement the promise:
\* each request is executed once by one worker, and the requests of two
\* intervals never overlap.
THEOREM MachineryKeepsPromise == SafeSpec => PromiseSafe
BY PromiseInit, PromiseStep, IInvHolds, PTL DEF SafeSpec, PromiseSafe, Promise!SafeSpec
=============================================================================
