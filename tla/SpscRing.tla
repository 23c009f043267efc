------------------------------ MODULE SpscRing ------------------------------
(***************************************************************************)
(* The ring buffer of src/src/spsc-ring.c, which holds the left and the    *)
(* right neighbours of a page while its accesses are smoothed.  One slot   *)
(* stays empty: head = tail is the empty ring, head just behind tail the   *)
(* full one.                                                               *)
(***************************************************************************)
EXTENDS Integers, Sequences

CONSTANTS Data,       \* entries
          capacity,   \* slots
          NULL

CapacityAssumption == capacity \in Nat \ {0, 1} /\ NULL \notin Data

VARIABLES buffer, head, tail,
          epoch       \* history: flips with each ring_buf_reset

vars == <<buffer, head, tail, epoch>>

\* ++i, back to 0 at the end.
Inc(i) == IF i + 1 = capacity THEN 0 ELSE i + 1

ring_buf_full == Inc(head) = tail
ring_buf_empty == ~ring_buf_full /\ head = tail
ring_buf_size == IF ring_buf_full THEN capacity
                 ELSE IF head >= tail THEN head - tail ELSE capacity + head - tail

ring_buf_peek_tail(index) ==
    IF index < ring_buf_size
    THEN buffer[IF tail + index >= capacity THEN tail + index - capacity ELSE tail + index]
    ELSE NULL

\* ring_buf_reset also clears the slots.
Init == /\ buffer = [i \in 0 .. capacity - 1 |-> NULL]
        /\ head = 0 /\ tail = 0 /\ epoch = FALSE

ring_buf_reset == /\ buffer' = [i \in 0 .. capacity - 1 |-> NULL]
                  /\ head' = 0 /\ tail' = 0 /\ epoch' = ~epoch

\* A bug to catch: a full ring does not give up its oldest entry.
inc_head_only == head' = Inc(head) /\ UNCHANGED tail

\* A full ring loses its oldest entry.
inc_head_pointer == /\ tail' = IF ring_buf_full THEN Inc(tail) ELSE tail
                    /\ head' = Inc(head)

ring_buf_put(d) == /\ buffer' = [buffer EXCEPT ![head] = d]
                   /\ inc_head_pointer
                   /\ UNCHANGED epoch

\* Returns -1 and changes nothing when the ring is full.
ring_buf_put2(d) == ~ring_buf_full /\ ring_buf_put(d)

\* Returns the entry at tail, or NULL, changing nothing, when the ring is empty.
ring_buf_get == /\ ~ring_buf_empty
                /\ tail' = Inc(tail)
                /\ UNCHANGED <<buffer, head, epoch>>

Next == \/ \E d \in Data : ring_buf_put(d) \/ ring_buf_put2(d)
        \/ ring_buf_get \/ ring_buf_reset
Spec == Init /\ [][Next]_vars

-----------------------------------------------------------------------------
\* The entries from tail up to head, going round the end of the buffer.
Contents == LET n == (head - tail + capacity) % capacity
            IN [i \in 1 .. n |-> buffer[(tail + i - 1) % capacity]]

\* The ring is a FIFO of capacity - 1 entries that drops the oldest when
\* full, and loses nothing else until it is reset.
Fifo == INSTANCE BoundedFifo WITH contents <- Contents, Limit <- capacity - 1
IsBoundedFifo == Fifo!Spec

\* ring_buf_peek_tail(i) is the i-th entry the next calls of ring_buf_get
\* will return.
PeekRight == \A i \in DOMAIN Contents : ring_buf_peek_tail(i - 1) = Contents[i]
=============================================================================
