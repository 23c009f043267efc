----------------------------- MODULE RecvBuffer -----------------------------
(***************************************************************************)
(* The receive path of a connection of flexkvs over flextcp                *)
(* (connection_recv of server/main-ll.c).  The bytes of a connection       *)
(* arrive in a ring the network stack owns, in contiguous pieces; the      *)
(* server keeps the bytes it has not consumed as one or two segments of    *)
(* the ring, and a request may lie across both.  Byte n of the stream is   *)
(* at position n % RingSize of the ring.                                   *)
(***************************************************************************)
EXTENDS Integers, Sequences

CONSTANTS RingSize, Header,   \* bytes of the ring, of a request header
          MaxRequest,         \* longest request
          MaxStream           \* bound: bytes received

RecvBufferAssumption == /\ RingSize \in Nat /\ MaxRequest \in 1 .. RingSize
                        /\ Header \in 1 .. MaxRequest /\ MaxStream \in Nat

VARIABLES buf_1, len_1, buf_2, len_2,
          received,   \* bytes the stack has handed over
          done,       \* bytes given back with rx_done
          reql,       \* length of the request at the front of the stream
          pc          \* "poll", "consume", "abort" or "assert"

vars == <<buf_1, len_1, buf_2, len_2, received, done, reql, pc>>

\* connection_new.
Init == /\ len_1 = 0 /\ len_2 = 0 /\ buf_1 = 0 /\ buf_2 = 0
        /\ received = 0 /\ done = 0 /\ reql \in Header .. MaxRequest /\ pc = "poll"

\* The stack hands over n bytes that do not wrap around the ring and for which
\* the ring has room (external).
Arrives(n) == /\ pc = "poll" /\ received + n <= MaxStream
              /\ received + n - done <= RingSize
              /\ (received % RingSize) + n <= RingSize
              /\ received' = received + n

\* connection_recv: add the new bytes to the segments.
connection_recv(n) ==
    LET buf == received % RingSize IN
    /\ Arrives(n)
    /\ CASE len_1 = 0 ->
              /\ pc' = IF len_2 = 0 THEN "consume" ELSE "assert"
              /\ buf_1' = buf /\ len_1' = n /\ UNCHANGED <<buf_2, len_2>>
         [] len_1 # 0 /\ buf_1 + len_1 = buf ->
              /\ pc' = IF len_2 = 0 THEN "consume" ELSE "assert"
              /\ len_1' = len_1 + n /\ UNCHANGED <<buf_1, buf_2, len_2>>
         [] len_1 # 0 /\ buf_1 + len_1 # buf /\ len_2 = 0 ->
              /\ pc' = "consume"
              /\ buf_2' = buf /\ len_2' = n /\ UNCHANGED <<buf_1, len_1>>
         [] OTHER ->
              /\ pc' = IF buf_2 + len_2 = buf THEN "consume" ELSE "abort"
              /\ len_2' = IF buf_2 + len_2 = buf THEN len_2 + n ELSE len_2
              /\ UNCHANGED <<buf_1, buf_2, len_1>>
    /\ UNCHANGED <<done, reql>>

Complete == len_1 + len_2 >= Header /\ len_1 + len_2 >= reql

ConsumeFirst ==
    IF len_1 = reql THEN buf_1' = buf_2 /\ len_1' = len_2 /\ len_2' = 0 /\ UNCHANGED buf_2
    ELSE buf_1' = buf_1 + reql /\ len_1' = len_1 - reql /\ UNCHANGED <<buf_2, len_2>>

\* A bug to catch: the part in the first segment is not taken off.
ConsumeBothWhole == /\ buf_2' = buf_2 + reql /\ buf_1' = buf_2 + reql
                    /\ len_1' = len_1 + len_2 - reql /\ len_2' = 0

ConsumeBoth == LET rest == reql - len_1 IN
               /\ buf_2' = buf_2 + rest /\ buf_1' = buf_2 + rest
               /\ len_1' = len_2 - rest /\ len_2' = 0

\* Answer a complete request, drop its bytes, and look at the next one.
Consume == /\ pc = "consume" /\ Complete
           /\ IF len_1 >= reql THEN ConsumeFirst ELSE ConsumeBoth
           /\ done' = done + reql
           /\ reql' \in Header .. MaxRequest
           /\ UNCHANGED <<received, pc>>

\* The request is short: wait for more.
Short == /\ pc = "consume" /\ ~Complete
         /\ pc' = "poll"
         /\ UNCHANGED <<buf_1, len_1, buf_2, len_2, received, done, reql>>

Next == Consume \/ Short \/ \E n \in 1 .. RingSize : connection_recv(n)
Spec == Init /\ [][Next]_vars

-----------------------------------------------------------------------------
\* Positions split_read reads, in order.
Positions == [n \in 1 .. len_1 + len_2 |-> IF n <= len_1 THEN buf_1 + n - 1
                                           ELSE buf_2 + n - 1 - len_1]

\* However requests and arrivals cut the stream, the two segments are exactly the
\* bytes received and not given back, in order, inside the ring; so neither the
\* assertions nor the "weird situation" abort of connection_recv can happen.
BufferIsStream ==
    /\ pc \notin {"assert", "abort"}
    /\ Positions = [n \in 1 .. received - done |-> (done + n - 1) % RingSize]
==============================================================================
