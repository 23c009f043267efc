---------------------------- MODULE ParallelCopy ----------------------------
(***************************************************************************)
(* The copy threads of src/src/arms.c, used for every page copied or       *)
(* cleared in a build without USE_DMA.  The caller holds pmemcpy.lock,     *)
(* writes the job into pmemcpy and meets the copy threads twice at a       *)
(* barrier for all of them and one caller: to start them and to learn that *)
(* they are done.                                                          *)
(*                                                                         *)
(* A caller copies the frame it reads into the frame it writes, or clears  *)
(* the frame when it reads none.  A copy thread moves its chunk word by    *)
(* word, reading the job from pmemcpy after the barrier.                   *)
(***************************************************************************)
EXTENDS Integers, FiniteSets

CONSTANTS MAX_COPY_THREADS,
          length,        \* words in a page
          Callers,       \* the fault thread and the migration threads
          Writes, Reads, \* Writes[c], Reads[c]: the frames of c's job
          ZERO           \* Reads[c] of a caller that clears its frame

ParallelAssumption ==
    /\ MAX_COPY_THREADS \in Nat \ {0} /\ length \in Nat
    /\ length % MAX_COPY_THREADS = 0 /\ "none" \notin Callers
    /\ \A c, d \in Callers : c # d => Writes[c] \notin {Writes[d], Reads[d]}
    /\ \A c \in Callers : Writes[c] \notin {Reads[c], ZERO}

VARIABLES mem,           \* mem[f][i]: where the word came from
          pmemcpy,       \* the job: dst, src (ZERO: write_zeros)
          lock,          \* pmemcpy.lock: its holder, or "none"
          caller,        \* step of each caller
          copier,        \* step of each copy thread
          word           \* the next word of each copy thread

vars == <<mem, pmemcpy, lock, caller, copier, word>>

Tids == 0 .. MAX_COPY_THREADS - 1
Words == 0 .. length - 1
Frames == {Writes[c] : c \in Callers} \cup {Reads[c] : c \in Callers}
chunk_size == length \div MAX_COPY_THREADS

Init == /\ mem = [f \in Frames |-> [i \in Words |-> <<f, i>>]]
        /\ pmemcpy = [dst |-> ZERO, src |-> ZERO]
        /\ lock = "none"
        /\ caller = [c \in Callers |-> "call"]
        /\ copier = [t \in Tids |-> "start"]
        /\ word = [t \in Tids |-> 0]

\* arms_parallel_memcpy and arms_parallel_memset up to the first barrier.
Begin(c) ==
    /\ caller[c] = "call" /\ lock = "none"
    /\ lock' = c
    /\ pmemcpy' = [dst |-> Writes[c], src |-> Reads[c]]
    /\ caller' = [caller EXCEPT ![c] = "start"]
    /\ UNCHANGED <<mem, copier, word>>

\* The callers and the copy threads that are at the barrier.
WaitingCallers == {c \in Callers : caller[c] \in {"start", "finish"}}
WaitingCopiers == {t \in Tids : copier[t] \in {"start", "finish"}}
Full == Cardinality(WaitingCallers) + Cardinality(WaitingCopiers) = MAX_COPY_THREADS + 1

CallerNext(c) == IF caller[c] = "start" THEN "finish" ELSE "done"
CopierNext(t) == IF copier[t] = "start" THEN "copy" ELSE "start"

\* pthread_barrier_wait: the last one to arrive lets everyone go.
Barrier ==
    /\ Full
    /\ caller' = [c \in Callers |-> IF c \in WaitingCallers THEN CallerNext(c) ELSE caller[c]]
    /\ copier' = [t \in Tids |-> IF t \in WaitingCopiers THEN CopierNext(t) ELSE copier[t]]
    /\ word' = [t \in Tids |-> IF copier[t] = "start" THEN t * chunk_size ELSE word[t]]
    /\ UNCHANGED <<mem, pmemcpy, lock>>

\* memcpy and memset of a copy thread's chunk.
CopyWord(t) ==
    LET i == word[t] IN
    /\ copier[t] = "copy" /\ i < (t + 1) * chunk_size
    /\ mem' = [mem EXCEPT ![pmemcpy.dst][i] =
                  IF pmemcpy.src = ZERO THEN ZERO ELSE mem[pmemcpy.src][i]]
    /\ word' = [word EXCEPT ![t] = i + 1]
    /\ UNCHANGED <<pmemcpy, lock, caller, copier>>

\* A bug to catch: no second barrier for the copy threads.
EndChunkNoWait(t) ==
    /\ copier[t] = "copy" /\ word[t] = (t + 1) * chunk_size
    /\ copier' = [copier EXCEPT ![t] = "start"]
    /\ UNCHANGED <<mem, pmemcpy, lock, caller, word>>

EndChunk(t) ==
    /\ copier[t] = "copy" /\ word[t] = (t + 1) * chunk_size
    /\ copier' = [copier EXCEPT ![t] = "finish"]
    /\ UNCHANGED <<mem, pmemcpy, lock, caller, word>>

\* The caller unlocks and returns.
Return(c) ==
    /\ caller[c] = "done"
    /\ lock' = "none"
    /\ caller' = [caller EXCEPT ![c] = "returned"]
    /\ UNCHANGED <<mem, pmemcpy, copier, word>>

Next == \/ Barrier
        \/ \E c \in Callers : Begin(c) \/ Return(c)
        \/ \E t \in Tids : CopyWord(t) \/ EndChunk(t)

\* Each thread runs; the mutex is not assumed to be fair.
Fairness == /\ WF_vars(Barrier) /\ WF_vars(\E c \in Callers : Begin(c))
            /\ \A c \in Callers : WF_vars(Return(c))
            /\ \A t \in Tids : WF_vars(CopyWord(t)) /\ WF_vars(EndChunk(t))
Spec == Init /\ [][Next]_vars /\ Fairness

-----------------------------------------------------------------------------
\* The contents c's job writes.
Result(c) == [i \in Words |-> IF Reads[c] = ZERO THEN ZERO ELSE <<Reads[c], i>>]
\* A frame no job has touched.
Untouched(f) == mem[f] = [i \in Words |-> <<f, i>>]

\* When a copy returns the whole page has been copied or cleared, no copy
\* thread is still at work on it, and a frame is written for its own job only.
CopyComplete == \A c \in Callers :
    /\ caller[c] \in {"done", "returned"} => mem[Writes[c]] = Result(c)
    /\ caller[c] = "call" => Untouched(Writes[c])
    /\ caller[c] = "done" => \A t \in Tids : copier[t] # "copy"
    /\ Reads[c] # ZERO => Untouched(Reads[c])

\* Every copy and every clearing returns.
CopiesReturn == \A c \in Callers : <>(caller[c] = "returned")
=============================================================================
