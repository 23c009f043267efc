----------------------------- MODULE BoundedFifo -----------------------------
(***************************************************************************)
(* What src/src/spsc-ring.c promises: a FIFO of at most Limit entries in   *)
(* which ring_buf_put makes room by dropping the oldest entry and          *)
(* ring_buf_put2 refuses to.                                               *)
(***************************************************************************)
EXTENDS Naturals, Sequences

CONSTANTS Data, Limit

VARIABLES contents,    \* oldest entry first
          epoch        \* flips when the ring is reset, and only then

Init == contents = <<>> /\ epoch = FALSE

Put(d) == /\ contents' = IF Len(contents) < Limit THEN Append(contents, d)
                         ELSE Append(Tail(contents), d)
          /\ UNCHANGED epoch
Put2(d) == Len(contents) < Limit /\ contents' = Append(contents, d) /\ UNCHANGED epoch
Get == contents # <<>> /\ contents' = Tail(contents) /\ UNCHANGED epoch
Reset == contents' = <<>> /\ epoch' = ~epoch

Next == (\E d \in Data : Put(d) \/ Put2(d)) \/ Get \/ Reset
Spec == Init /\ [][Next]_<<contents, epoch>>
==============================================================================
