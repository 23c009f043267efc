---------------------------- MODULE SegmentAlloc ----------------------------
(***************************************************************************)
(* segment_alloc and segment_free of server/ialloc.c, called by the worker *)
(* threads and by the maintenance thread: a free list and a counter of     *)
(* segments never used, behind the spin lock segalloc_lock, with checks    *)
(* made before the lock is taken.  A read and a write of the same variable *)
(* inside a critical section are two steps.                                *)
(***************************************************************************)
EXTENDS Integers, FiniteSets

CONSTANTS Threads, segmaxnum, NULL

Segs == 0 .. segmaxnum - 1
SegmentAllocAssumption == segmaxnum \in Nat \ {0} /\ NULL \notin Segs

VARIABLES segalloc_lock,  \* is the lock word set?
          free_segments,  \* first of the free list
          nxt,            \* nxt[h]: h->next
          seg_alloced,
          owns,           \* owns[t]: the segments t got
          pc, h, i,       \* pc, h and i of each thread
          lost,           \* segments of which mprotect or malloc failed
          broken          \* the lock was released under a thread that holds it

vars == <<segalloc_lock, free_segments, nxt, seg_alloced, owns, pc, h, i, lost, broken>>

Init == /\ segalloc_lock = FALSE /\ broken = FALSE /\ lost = {}
        /\ free_segments = NULL /\ nxt = [s \in Segs |-> NULL] /\ seg_alloced = 0
        /\ owns = [t \in Threads |-> {}] /\ pc = [t \in Threads |-> "idle"]
        /\ h = [t \in Threads |-> NULL] /\ i = [t \in Threads |-> 0]

\* The statements inside the critical sections.
Critical == {"head", "next", "release", "count", "bump", "link", "push"}
Goto(t, p) == pc' = [pc EXCEPT ![t] = p]
data == <<free_segments, nxt, seg_alloced, owns, lost>>

\* A bug to catch: the lock is taken without waiting for it.
SpinNoWait(t, from, to) == /\ pc[t] = from
                           /\ segalloc_lock' = TRUE /\ Goto(t, to)
                           /\ UNCHANGED <<data, h, i, broken>>

\* pthread_spin_lock.
SpinLock(t, from, to) == /\ pc[t] = from /\ ~segalloc_lock
                         /\ segalloc_lock' = TRUE /\ Goto(t, to)
                         /\ UNCHANGED <<data, h, i, broken>>

-----------------------------------------------------------------------------
(* segment_alloc.                                                          *)

Enter(t) == /\ pc[t] = "idle"
            /\ Goto(t, IF free_segments # NULL THEN "lock1" ELSE "check")
            /\ h' = [h EXCEPT ![t] = NULL]
            /\ UNCHANGED <<segalloc_lock, data, i, broken>>

TakeHead(t) == /\ pc[t] = "head"
               /\ IF free_segments # NULL
                  THEN h' = [h EXCEPT ![t] = free_segments] /\ Goto(t, "next")
                  ELSE Goto(t, "release") /\ UNCHANGED h
               /\ UNCHANGED <<segalloc_lock, data, i, broken>>

Unlink(t) == /\ pc[t] = "next"
             /\ free_segments' = nxt[h[t]]
             /\ Goto(t, "release")
             /\ UNCHANGED <<segalloc_lock, nxt, seg_alloced, owns, lost, h, i, broken>>

\* Unlock; the caller gets the segment, or goes on to the unused ones.
Release(t) == /\ pc[t] = "release"
              /\ segalloc_lock' = FALSE
              /\ IF h[t] # NULL
                 THEN Goto(t, "idle") /\ owns' = [owns EXCEPT ![t] = @ \cup {h[t]}]
                 ELSE Goto(t, "check") /\ UNCHANGED owns
              /\ UNCHANGED <<free_segments, nxt, seg_alloced, lost, h, i, broken>>

\* The unlocked check.  When it finds the segments used up it releases the lock
\* it does not hold, whoever holds it.
Check(t) == /\ pc[t] = "check"
            /\ IF seg_alloced >= segmaxnum
               THEN /\ segalloc_lock' = FALSE
                    /\ broken' = (broken \/ \E u \in Threads : pc[u] \in Critical)
                    /\ Goto(t, "idle")
               ELSE Goto(t, "lock2") /\ UNCHANGED <<segalloc_lock, broken>>
            /\ UNCHANGED <<data, h, i>>

Reread(t) == /\ pc[t] = "count"
             /\ i' = [i EXCEPT ![t] = seg_alloced]
             /\ IF seg_alloced >= segmaxnum
                THEN segalloc_lock' = FALSE /\ Goto(t, "idle")
                ELSE UNCHANGED segalloc_lock /\ Goto(t, "bump")
             /\ UNCHANGED <<data, h, broken>>

Bump(t) == /\ pc[t] = "bump"
           /\ seg_alloced' = i[t] + 1 /\ segalloc_lock' = FALSE
           /\ Goto(t, "fresh")
           /\ UNCHANGED <<free_segments, nxt, owns, lost, h, i, broken>>

\* mprotect and the header; when one fails the segment is not used again.
Fresh(t) == /\ pc[t] = "fresh"
            /\ \/ owns' = [owns EXCEPT ![t] = @ \cup {i[t]}] /\ UNCHANGED lost
               \/ lost' = lost \cup {i[t]} /\ UNCHANGED owns
            /\ Goto(t, "idle")
            /\ UNCHANGED <<segalloc_lock, free_segments, nxt, seg_alloced, h, i, broken>>

-----------------------------------------------------------------------------
(* segment_free.                                                           *)

Free(t) == /\ pc[t] = "idle"
           /\ \E s \in owns[t] : /\ h' = [h EXCEPT ![t] = s]
                                 /\ owns' = [owns EXCEPT ![t] = @ \ {s}]
           /\ Goto(t, "lock3")
           /\ UNCHANGED <<segalloc_lock, free_segments, nxt, seg_alloced, lost, i, broken>>

Link(t) == /\ pc[t] = "link"
           /\ nxt' = [nxt EXCEPT ![h[t]] = free_segments]
           /\ Goto(t, "push")
           /\ UNCHANGED <<segalloc_lock, free_segments, seg_alloced, owns, lost, h, i, broken>>

Push(t) == /\ pc[t] = "push"
           /\ free_segments' = h[t] /\ segalloc_lock' = FALSE
           /\ Goto(t, "idle")
           /\ UNCHANGED <<nxt, seg_alloced, owns, lost, h, i, broken>>

Step(t) == \/ Enter(t) \/ TakeHead(t) \/ Unlink(t) \/ Release(t)
           \/ Check(t) \/ Reread(t) \/ Bump(t) \/ Fresh(t)
           \/ Free(t) \/ Link(t) \/ Push(t)
           \/ SpinLock(t, "lock1", "head") \/ SpinLock(t, "lock2", "count")
           \/ SpinLock(t, "lock3", "link")
Next == ~broken /\ \E t \in Threads : Step(t)
Spec == Init /\ [][Next]_vars

-----------------------------------------------------------------------------
\* The segments reached from segment x along nxt: those in every set that holds
\* x and, with a segment, the one after it.
Closed(S) == \A s \in S : nxt[s] \in S \cup {NULL}
Chain(x) == {s \in Segs : \A S \in SUBSET Segs : {x} \ {NULL} \subseteq S /\ Closed(S) => s \in S}
FreeList == Chain(free_segments)

\* The segments thread t has in hand: off the list and not yet its own, or
\* no longer its own and not yet back on the list.
InHand(t) == CASE pc[t] \in {"release", "lock3", "link", "push"} -> {h[t]} \ {NULL}
               [] pc[t] = "fresh" -> {i[t]}
               [] OTHER -> {}

\* Until the stray unlock takes the lock from under its holder, a segment has
\* one owner: a thread, the free list, a thread about to get it or to give it
\* back, or the part never used; and none is forgotten.
SegmentsOwned ==
    ~broken =>
      /\ \A t, u \in Threads : t # u => /\ (owns[t] \cup InHand(t)) \cap (owns[u] \cup InHand(u)) = {}
      /\ \A t \in Threads : /\ owns[t] \cap (FreeList \cup InHand(t)) = {}
                            /\ InHand(t) \cap FreeList = {}
      /\ FreeList \cup lost \cup UNION {owns[t] \cup InHand(t) : t \in Threads}
           = 0 .. seg_alloced - 1
==============================================================================
