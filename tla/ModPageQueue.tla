---------------------------- MODULE ModPageQueue ----------------------------
(***************************************************************************)
(* mod_page_dq of src/src/pebs.c: the ring of src/src/kdq.h through which  *)
(* the threads that add and remove pages report them to the policy thread. *)
(* Producers push under mod_page_dq_lock.  The policy thread shifts under  *)
(* the lock, but kdq_shift returns a pointer into the ring, and the entry  *)
(* behind it is read after the unlock.                                     *)
(*                                                                         *)
(* Entries are numbered in the order they are pushed; number n stands for  *)
(* the addition of the n-th page.                                          *)
(***************************************************************************)
EXTENDS Integers, Sequences

CONSTANTS MaxPush,      \* bound: entries pushed in a behaviour
          MaxPending    \* bound: entries in the ring at once

BoundsAssumption == MaxPush \in Nat /\ MaxPending \in Nat \ {0}

VARIABLES a, front, bits, count,   \* kdq_t: ring, index of the oldest, log2 size
          pushed,                  \* how many entries were pushed
          mp,                      \* slot kdq_shift returned, -1 if none
          dangling,                \* realloc moved the ring while mp was in use
          processed,               \* what the policy thread read, in order
          spoilt,                  \* history: slot mp was filled again while in use,
          misread                  \* and the reads after which it had been

ringVars == <<a, front, bits, count>>
vars == <<a, front, bits, count, pushed, mp, dangling, processed, spoilt, misread>>

Size(b) == 2 ^ b
Junk == 0      \* in a slot that was never written, or in freed memory
NoSlot == -1

\* kdq_init: four slots.
Init == /\ bits = 2 /\ front = 0 /\ count = 0
        /\ a = [i \in 0 .. Size(2) - 1 |-> Junk]
        /\ pushed = 0 /\ mp = NoSlot /\ dangling = FALSE /\ processed = <<>>
        /\ spoilt = FALSE /\ misread = {}

\* A bug to catch: the wrapped part stays at the start of the grown ring.
ResizeInPlace ==
    [ring |-> [i \in 0 .. Size(bits + 1) - 1 |-> IF i < Size(bits) THEN a[i] ELSE Junk],
     front |-> front]

\* kdq_resize to the next power of two, called on a full ring: realloc, then
\* the part from front to the end of the old ring moves to the end of the new
\* one if the contents are wrapped.
Resized ==
    LET old == Size(bits)
        new == Size(bits + 1)
        wrapped == front + count > old
        front2 == IF wrapped THEN new - (old - front) ELSE front
    IN [ring |-> [i \in 0 .. new - 1 |->
                     IF wrapped /\ i >= front2 THEN a[i - new + old]
                     ELSE IF i < old THEN a[i] ELSE Junk],
        front |-> front2]

\* kdq_push by a thread in pebs_add_page or pebs_remove_page.  While the
\* policy thread still has a pointer to a slot, a push may take the last free
\* slot, which is that one, and the next one may then reallocate the ring,
\* which may or may not move it.
Push ==
    /\ pushed < MaxPush /\ count < MaxPending
    /\ IF count = Size(bits)
       THEN /\ bits' = bits + 1
            /\ front' = Resized.front
            /\ a' = [Resized.ring EXCEPT
                       ![(count + Resized.front) % Size(bits + 1)] = pushed + 1]
            /\ dangling' \in {dangling, mp # NoSlot}
       ELSE /\ a' = [a EXCEPT ![(count + front) % Size(bits)] = pushed + 1]
            /\ UNCHANGED <<bits, front, dangling>>
    /\ count' = count + 1
    /\ pushed' = pushed + 1
    /\ spoilt' = (spoilt \/ (mp # NoSlot /\ count = Size(bits) - 1))
    /\ UNCHANGED <<mp, processed, misread>>

\* The policy thread takes the oldest slot and unlocks ...
Shift ==
    /\ mp = NoSlot /\ count > 0
    /\ mp' = front
    /\ front' = (front + 1) % Size(bits)
    /\ count' = count - 1
    /\ UNCHANGED <<a, bits, pushed, dangling, processed, spoilt, misread>>

\* ... and reads the entry through the pointer, from freed memory if it
\* dangles.
Process ==
    /\ mp # NoSlot
    /\ processed' = Append(processed, IF dangling THEN Junk ELSE a[mp])
    /\ misread' = IF spoilt THEN misread \cup {Len(processed) + 1} ELSE misread
    /\ mp' = NoSlot /\ dangling' = FALSE /\ spoilt' = FALSE
    /\ UNCHANGED <<ringVars, pushed>>

Next == Push \/ Shift \/ Process
\* The policy thread wakes up again and again.
Fairness == WF_vars(Shift) /\ WF_vars(Process)
Spec == Init /\ [][Next]_vars /\ Fairness

-----------------------------------------------------------------------------
\* The ring holds exactly the entries pushed and not yet shifted, in order,
\* also after it wrapped and grew.
RingIsFifo ==
    LET shifted == pushed - count IN
    \A i \in 1 .. count : a[(front + i - 1) % Size(bits)] = shifted + i

\* The policy thread processes the entries in the order they were pushed, one
\* for one; only an entry whose slot a push has filled since it was shifted is
\* another one.
ProcessedInOrder == \A i \in DOMAIN processed : processed[i] = i \/ i \in misread

\* The policy thread catches up: every reported page is processed eventually.
AllProcessed == []<>(Len(processed) = pushed)
=============================================================================
