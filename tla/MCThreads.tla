----------------------------- MODULE MCThreads ------------------------------
(***************************************************************************)
(* The containers of ARMS and the components whose threads must make       *)
(* progress, side by side: the linked lists, the ring of neighbours and    *)
(* the queue of page changes; the hot-change detector, the copy of a page  *)
(* under write protection, the parallel copy, the flexkvs benchmark and    *)
(* the connections of the flexkvs server.  They share no state here, so a  *)
(* behaviour runs one of them and leaves the others alone.  The variables  *)
(* of the benchmark, the server and the parallel copy mean nothing in a    *)
(* behaviour that does not run them.                                       *)
(***************************************************************************)
EXTENDS Integers, TLC

CONSTANTS Lists, Entries, NULL,                      \* see FifoList
          Data, capacity,                            \* see SpscRing
          MaxPush, MaxChanges,                       \* see ModPageQueue
          Threshold, MaxPeriods, PerSecond,          \* see Sampling
          AppThreads, PageWords, Values, Nothing, MaxMigrations,       \* see PageCopy
          MAX_COPY_THREADS, length, ZERO,            \* see ParallelCopy
          threads, conns, MaxPending, keys_num, MsgLen,         \* see BenchClient
          Clients, Header, ReqLen, ResLen, MAX_MSGSIZE, LenMod, Window, SockSpace,
          MaxRequests, Quitters                      \* see ServerConn

VARIABLES used,                                      \* the component that runs
          first, last, numentries, next, prev, list, cursor,
          buffer, head, tail, epoch,
          a, front, bits, count, pushed, mp, dangling, processed, spoilt, misread,
          bias, cusum, time_since_recn, global_version, sampling_mode,
          sample_period, policy_pc, deviation, recn_seconds,
          data, mapped, protected, migrating, migrator, copied, migrations,
          blocked, handler, want, got,
          mem, pmemcpy, lock, caller, copier, word,
          phase, init_count, bench_pc, next_key, msgs_pending, q, evs, bench_conn,
          client, up, down, kinds, conn, pc, cur, item, overrun

List == INSTANCE FifoList
Ring == INSTANCE SpscRing
Dq == INSTANCE ModPageQueue WITH MaxPending <- MaxChanges
\* Deviations that fall, stay, creep up and jump over the threshold.
Mode == INSTANCE Sampling WITH Deviations <- {-1, 0, 1, Threshold + 1}, pc <- policy_pc
Page == INSTANCE PageCopy WITH Threads <- AppThreads, Words <- PageWords
\* The fault thread clears a frame and two migration threads copy theirs.
Copy == INSTANCE ParallelCopy WITH
          Callers <- {"fault", "up", "down"},
          Writes <- [c \in {"fault", "up", "down"} |-> c],
          Reads <- "fault" :> ZERO @@ "up" :> "nvm" @@ "down" :> "dram"
Bench == INSTANCE BenchClient WITH pc <- bench_pc, conn <- bench_conn
Server == INSTANCE ServerConn WITH Conns <- Clients

ASSUME ThreadsAssumption ==
    /\ List!NullAssumption /\ Ring!CapacityAssumption
    /\ Dq!BoundsAssumption /\ Mode!DetectorAssumption /\ Page!MigrationsAssumption
    /\ Copy!ParallelAssumption /\ Bench!BenchAssumption /\ Server!ServerAssumption

listVars == <<first, last, numentries, next, prev, list, cursor>>
ringVars == <<buffer, head, tail, epoch>>
dqVars == <<a, front, bits, count, pushed, mp, dangling, processed, spoilt, misread>>
modeVars == <<bias, cusum, time_since_recn, global_version, sampling_mode,
              sample_period, policy_pc, deviation, recn_seconds>>
pageVars == <<data, mapped, protected, migrating, migrator, copied, migrations,
              blocked, handler, want, got>>
copyVars == <<mem, pmemcpy, lock, caller, copier, word>>
benchVars == <<phase, init_count, bench_pc, next_key, msgs_pending, q, evs, bench_conn>>
serverVars == <<client, up, down, kinds, conn, pc, cur, item, overrun>>
containers == <<listVars, ringVars, dqVars>>
vars == <<used, containers, modeVars, pageVars, copyVars, benchVars, serverVars>>

Init == /\ used \in {"list", "ring", "dq", "mode", "page", "copy", "bench", "server"}
        /\ List!Init /\ Ring!Init /\ Dq!Init /\ Mode!Init /\ Page!Init
        /\ used = "page" \/ \A f \in DOMAIN data, i \in PageWords : data[f][i] = CHOOSE x \in Values : TRUE
        /\ IF used = "copy" THEN Copy!Init ELSE
             mem = "" /\ pmemcpy = "" /\ lock = "" /\ caller = "" /\ copier = "" /\ word = ""
        /\ IF used = "bench" THEN Bench!Init ELSE
             phase = "" /\ init_count = "" /\ bench_pc = "" /\ next_key = "" /\ msgs_pending = ""
             /\ q = "" /\ evs = "" /\ bench_conn = ""
        /\ IF used = "server" THEN Server!Init ELSE
             client = "" /\ up = "" /\ down = "" /\ kinds = "" /\ conn = "" /\ pc = ""
             /\ cur = "" /\ item = "" /\ overrun = ""

ContainerStep ==
    /\ \/ used = "list" /\ List!Next /\ UNCHANGED <<ringVars, dqVars>>
       \/ used = "ring" /\ Ring!Next /\ UNCHANGED <<listVars, dqVars>>
       \/ used = "dq" /\ Dq!Next /\ UNCHANGED <<listVars, ringVars>>
    /\ UNCHANGED <<used, modeVars, pageVars, copyVars, benchVars, serverVars>>
ModeStep == /\ used = "mode" /\ Mode!Next
            /\ UNCHANGED <<used, containers, pageVars, copyVars, benchVars, serverVars>>
PageStep == /\ used = "page" /\ Page!Next
            /\ UNCHANGED <<used, containers, modeVars, copyVars, benchVars, serverVars>>
CopyStep == /\ used = "copy" /\ Copy!Next
            /\ UNCHANGED <<used, containers, modeVars, pageVars, benchVars, serverVars>>
BenchStep == /\ used = "bench" /\ Bench!Next
             /\ UNCHANGED <<used, containers, modeVars, pageVars, copyVars, serverVars>>
ServerStep == /\ used = "server" /\ Server!Next
              /\ UNCHANGED <<used, containers, modeVars, pageVars, copyVars, benchVars>>
Next == ContainerStep \/ ModeStep \/ PageStep \/ CopyStep \/ BenchStep \/ ServerStep

\* The fairness of each component (see its module), where it runs.
Fairness ==
    /\ Dq!Fairness /\ WF_vars(ModeStep)
    /\ \A t \in AppThreads : WF_pageVars(used = "page" /\ Page!GetThrough(t))
    /\ WF_pageVars(used = "page" /\ Page!HandlerNext)
    /\ WF_pageVars(used = "page" /\ Page!GoOn)
    /\ WF_copyVars(used = "copy" /\ Copy!Next)
    /\ WF_benchVars(used = "bench" /\ Bench!Phase)
    /\ \A t \in 0 .. threads - 1 : WF_benchVars(used = "bench" /\ Bench!Step(t))
    /\ \A co \in Bench!AllConns : WF_benchVars(used = "bench" /\ Bench!Deliver(co))
    /\ WF_serverVars(used = "server" /\ ~overrun /\ Server!Worker)
    /\ \A c \in Clients : /\ SF_serverVars(used = "server" /\ ~overrun /\ Server!Event(c))
                        /\ WF_serverVars(used = "server" /\ ~overrun /\ Server!Receive(c))
                        /\ WF_serverVars(used = "server" /\ ~overrun /\ Server!Finish(c))
Spec == Init /\ [][Next]_vars /\ Fairness

-----------------------------------------------------------------------------
\* The links of the lists of fifo.c stay well formed whatever is enqueued, dequeued
\* and removed, and next_page walks a list in the order it will be dequeued.
ListRight == List!WellFormed /\ List!WalkInOrder
\* The rings of spsc-ring.c and kdq.h hold what was put in and not taken out, in
\* order, wrapped or grown; peeking sees it, and the policy thread uses what it
\* shifted.
RingsRight == Ring!PeekRight /\ Dq!RingIsFifo /\ Dq!ProcessedInOrder
\* The lists implement FIFO queues, the ring of neighbours one that drops its oldest
\* entry when it is full, and every change of a page is processed eventually.
AreQueues == List!IsFifo /\ Ring!IsBoundedFifo /\ Dq!AllProcessed
\* The sampling mode follows the scoring bias, recency is kept for its minimum,
\* and a steady workload ends up scored by history.
ModeRight == []Mode!ModeFollowsBias /\ Mode!RecencyLasts /\ Mode!Settles
\* Migration is invisible to loads and stores.
Invisible == Page!Invisible
\* No store reaches a page while it is copied; a parallel copy is complete when it
\* returns, and every copy returns.
CopiesRight == /\ []Page!CopyFaithful
               /\ [](used = "copy" => Copy!CopyComplete)
               /\ <>(used = "copy" => \A c \in DOMAIN caller : caller[c] = "returned")
\* The bookkeeping of the benchmark's connections.
BenchSafe == used = "bench" => Bench!BenchSafe
\* Every connection of the benchmark is used again and again.
EveryConnUsed == \A co \in Bench!AllConns : []<>(used = "bench" => Bench!InUse(co))
\* No byte of a request or an answer is lost by the server.
ServerSafe == used = "server" => Server!ServerSafe
\* The server answers every request.
RequestsAnswered == \A c \in Clients :
    (used = "server" /\ Server!Owed(c)) ~> (used = "server" => Server!Settled(c))
\* The counters are programmed with the period of the mode.
PeriodMatchesMode == Mode!PeriodMatchesMode
\* The reference counts of the server's items never go below zero.
RefcountsHold == used = "server" => Server!RefcountsHold
=============================================================================
