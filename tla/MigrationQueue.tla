--------------------------- MODULE MigrationQueue ---------------------------
(***************************************************************************)
(* The hand-off of migration requests from the policy thread to the        *)
(* migration threads (src/src/pebs.c, pebs_policy_thread and               *)
(* pebs_migration_thread): the list migration_queue, the semaphores        *)
(* submission_sem and completion_sem, and the counter num_migration_jobs   *)
(* that is local to the policy thread.  What a request does to pages is    *)
(* left to PageTiering; here executing one is a single step.               *)
(***************************************************************************)
EXTENDS Integers, Sequences, FiniteSets

CONSTANTS Workers,      \* the migration threads, NUM_MIGRATION_THREADS of them
          Reqs,         \* request objects the allocator can return
          NoReq,        \* a worker without a request
          MaxJobs,      \* largest max_migrations_cur_interval considered
          BatchSizes,   \* the values batch_size can take
          MaxPermits    \* bound on the unconsumed posts an interval starts with

ASSUME WorkersAssumption == IsFiniteSet(Workers) /\ Workers # {}
ASSUME ReqsAssumption == NoReq \notin Reqs
ASSUME BoundsAssumption == /\ MaxJobs \in Nat /\ MaxPermits \in Nat
                           /\ BatchSizes \subseteq Nat \ {0}

VARIABLES migration_queue,    \* oldest request first
          submission_sem, completion_sem,
          num_migration_jobs, batch_size,
          policy_pc,          \* "sleep", "wait", "loop", "post"
          worker_pc,          \* [Workers -> {"wait", "poll", "work"}]
          worker_req          \* the request a worker took from the list

policyVars == <<num_migration_jobs, batch_size, policy_pc>>
workerVars == <<worker_pc, worker_req>>
vars == <<migration_queue, submission_sem, completion_sem,
          num_migration_jobs, batch_size, policy_pc, worker_pc, worker_req>>

\* The workers that hold a request, and the requests not yet executed.
Busy == {w \in Workers : worker_pc[w] = "work"}
Queued == {migration_queue[i] : i \in DOMAIN migration_queue}
Held == {worker_req[w] : w \in Busy}

Init == /\ migration_queue = <<>>
        /\ submission_sem = 0 /\ completion_sem = 0
        /\ num_migration_jobs = 0
        /\ batch_size \in BatchSizes
        /\ policy_pc = "sleep"
        /\ worker_pc = [w \in Workers |-> "wait"]
        /\ worker_req = [w \in Workers |-> NoReq]

-----------------------------------------------------------------------------
(* The policy thread.                                                      *)

\* A new interval: once a second batch_size is recomputed from the measured
\* NVM bandwidth; an interval without scored pages goes straight back to
\* sleep without collecting completions (goto loop_end).  One worker may
\* drain the list before another consumes its post, so posts can pile up;
\* MaxPermits bounds how many an interval of 100 to 500 ms may leave over.
StartInterval ==
    /\ policy_pc = "sleep"
    /\ submission_sem <= MaxPermits
    /\ batch_size' \in BatchSizes
    /\ policy_pc' \in {"sleep", "wait"}
    /\ UNCHANGED <<migration_queue, submission_sem, completion_sem,
                   num_migration_jobs, workerVars>>

\* One iteration of while (num_migration_jobs > 0) sem_wait(&completion_sem).
CollectCompletion ==
    /\ policy_pc = "wait"
    /\ num_migration_jobs > 0
    /\ completion_sem > 0
    /\ completion_sem' = completion_sem - 1
    /\ num_migration_jobs' = num_migration_jobs - 1
    /\ UNCHANGED <<migration_queue, submission_sem, batch_size, policy_pc,
                   workerVars>>

\* A bug to catch: the loop starts without waiting for completions.
StartLoopEarly ==
    /\ policy_pc = "wait"
    /\ policy_pc' = "loop"
    /\ UNCHANGED <<migration_queue, submission_sem, completion_sem,
                   num_migration_jobs, batch_size, workerVars>>

StartLoop ==
    /\ policy_pc = "wait"
    /\ num_migration_jobs = 0
    /\ policy_pc' = "loop"
    /\ UNCHANGED <<migration_queue, submission_sem, completion_sem,
                   num_migration_jobs, batch_size, workerVars>>

\* A bug to catch: the request is not counted.
EnqueueUncounted(r) ==
    /\ policy_pc = "loop"
    /\ num_migration_jobs < MaxJobs
    /\ r \notin Queued \cup Held
    /\ migration_queue' = Append(migration_queue, r)
    /\ policy_pc' = "post"
    /\ UNCHANGED <<submission_sem, completion_sem, num_migration_jobs,
                   batch_size, workerVars>>

\* A freshly allocated request goes to the head of the linked list and is
\* counted; the sem_post that may follow is the next step.
Enqueue(r) ==
    /\ policy_pc = "loop"
    /\ num_migration_jobs < MaxJobs
    /\ r \notin Queued \cup Held
    /\ migration_queue' = Append(migration_queue, r)
    /\ num_migration_jobs' = num_migration_jobs + 1
    /\ policy_pc' = "post"
    /\ UNCHANGED <<submission_sem, completion_sem, batch_size, workerVars>>

\* A bug to catch: one post too few (< for <=).
PostFewer ==
    /\ policy_pc = "post"
    /\ submission_sem' = submission_sem
                         + (IF num_migration_jobs < batch_size THEN 1 ELSE 0)
    /\ policy_pc' = "loop"
    /\ UNCHANGED <<migration_queue, completion_sem, num_migration_jobs,
                   batch_size, workerVars>>

\* sem_post(&submission_sem), but only for the first batch_size requests.
Post ==
    /\ policy_pc = "post"
    /\ submission_sem' = submission_sem
                         + (IF num_migration_jobs <= batch_size THEN 1 ELSE 0)
    /\ policy_pc' = "loop"
    /\ UNCHANGED <<migration_queue, completion_sem, num_migration_jobs,
                   batch_size, workerVars>>

EndLoop ==
    /\ policy_pc = "loop"
    /\ policy_pc' = "sleep"
    /\ UNCHANGED <<migration_queue, submission_sem, completion_sem,
                   num_migration_jobs, batch_size, workerVars>>

-----------------------------------------------------------------------------
(* A migration thread.                                                     *)

\* sem_wait(&submission_sem).
Wake(w) ==
    /\ worker_pc[w] = "wait"
    /\ submission_sem > 0
    /\ submission_sem' = submission_sem - 1
    /\ worker_pc' = [worker_pc EXCEPT ![w] = "poll"]
    /\ UNCHANGED <<migration_queue, completion_sem, policyVars, worker_req>>

\* A bug to catch: the request stays on the list.
DequeueKeeps(w) ==
    /\ worker_pc[w] = "poll"
    /\ migration_queue # <<>>
    /\ worker_req' = [worker_req EXCEPT ![w] = Head(migration_queue)]
    /\ worker_pc' = [worker_pc EXCEPT ![w] = "work"]
    /\ UNCHANGED <<migration_queue, submission_sem, completion_sem, policyVars>>

\* dequeue_fifo_m returns the tail of the linked list, the oldest request...
Dequeue(w) ==
    /\ worker_pc[w] = "poll"
    /\ migration_queue # <<>>
    /\ worker_req' = [worker_req EXCEPT ![w] = Head(migration_queue)]
    /\ migration_queue' = Tail(migration_queue)
    /\ worker_pc' = [worker_pc EXCEPT ![w] = "work"]
    /\ UNCHANGED <<submission_sem, completion_sem, policyVars>>

\* ... or NULL, and the worker goes back to sem_wait.
FindEmpty(w) ==
    /\ worker_pc[w] = "poll"
    /\ migration_queue = <<>>
    /\ worker_pc' = [worker_pc EXCEPT ![w] = "wait"]
    /\ UNCHANGED <<migration_queue, submission_sem, completion_sem,
                   policyVars, worker_req>>

\* A bug to catch: the worker goes on with the request it has freed.
CompleteKeepsReq(w) ==
    /\ worker_pc[w] = "work"
    /\ completion_sem' = completion_sem + 1
    /\ worker_pc' = [worker_pc EXCEPT ![w] = "poll"]
    /\ UNCHANGED <<migration_queue, submission_sem, policyVars, worker_req>>

\* Every path through a request ends in sem_post(&completion_sem); free(req).
Complete(w) ==
    /\ worker_pc[w] = "work"
    /\ completion_sem' = completion_sem + 1
    /\ worker_pc' = [worker_pc EXCEPT ![w] = "poll"]
    /\ worker_req' = [worker_req EXCEPT ![w] = NoReq]
    /\ UNCHANGED <<migration_queue, submission_sem, policyVars>>

-----------------------------------------------------------------------------
PolicyNext == \/ StartInterval \/ CollectCompletion \/ StartLoop
              \/ \E r \in Reqs : Enqueue(r)
              \/ Post \/ EndLoop
WorkerNext(w) == Wake(w) \/ Dequeue(w) \/ FindEmpty(w) \/ Complete(w)
Next == PolicyNext \/ \E w \in Workers : WorkerNext(w)

\* Threads the OS schedules fairly: no thread that can run is delayed forever.
\* The policy loop may submit as few requests as it likes, so only the steps
\* that leave a place are fair, never Enqueue.  sem_wait is not FIFO: a post
\* wakes some waiter, hence weak fairness of the workers taken together for
\* Wake, and of each worker for what follows.
Fairness == /\ WF_vars(CollectCompletion \/ StartLoop \/ Post)
            /\ WF_vars(\E w \in Workers : Wake(w))
            /\ \A w \in Workers : WF_vars(Dequeue(w) \/ FindEmpty(w))
            /\ \A w \in Workers : WF_vars(Complete(w))

SafeSpec == Init /\ [][Next]_vars
Spec == SafeSpec /\ Fairness

-----------------------------------------------------------------------------
\* The list, the semaphores and the threads' local state keep their shape;
\* a worker has a request exactly between dequeue_fifo_m and free(req).
TypeOK == /\ migration_queue \in Seq(Reqs)
          /\ submission_sem \in Nat /\ completion_sem \in Nat
          /\ num_migration_jobs \in Nat
          /\ batch_size \in BatchSizes
          /\ policy_pc \in {"sleep", "wait", "loop", "post"}
          /\ worker_pc \in [Workers -> {"wait", "poll", "work"}]
          /\ worker_req \in [Workers -> Reqs \cup {NoReq}]
          /\ \A w \in Workers : (worker_req[w] = NoReq) <=> (w \notin Busy)

\* What the policy thread believes is outstanding is what is: every counted
\* job is on the list, with a worker, or an unconsumed completion.  This is
\* what makes the collecting loop wait for all of the previous interval.
JobsConserved ==
    num_migration_jobs = Len(migration_queue) + Cardinality(Busy) + completion_sem

\* No request is executed twice: it is on the list once or with one worker.
RequestsDistinct ==
    /\ \A i, j \in DOMAIN migration_queue :
          migration_queue[i] = migration_queue[j] => i = j
    /\ Queued \cap Held = {}
    /\ \A v, w \in Busy : worker_req[v] = worker_req[w] => v = w

\* No work of an earlier interval is still running when an interval begins
\* to choose pages: the loop starts with an idle machine.
LoopStartsIdle ==
    [][StartLoop => migration_queue = <<>> /\ Busy = {}]_vars

\* The policy thread never waits forever for completions of the previous
\* interval (pebs.c, the loop on completion_sem).
WaitTerminates == policy_pc = "wait" ~> policy_pc = "loop"

\* Every request is posted: no interval submits more than batch_size of them.
WithinBatch == [](policy_pc = "post" => num_migration_jobs <= batch_size)

\* The list, semaphores and workers deliver what MigrationSpec promises:
\* each request is executed once and intervals do not overlap; if every
\* request is posted, none of them is left behind.
Promise == INSTANCE MigrationSpec WITH
               pending <- Queued, executing <- Held, finished <- completion_sem,
               phase <- IF policy_pc \in {"loop", "post"} THEN "submit" ELSE "collect"
PromiseSafe == Promise!SafeSpec
ProgressWithinBatch == WithinBatch => Promise!Progress
=============================================================================
