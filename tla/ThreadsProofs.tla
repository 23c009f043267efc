----------------------------- MODULE ThreadsProofs -----------------------------
(***************************************************************************)
(* Proofs about the components whose states MCThreads puts side by side,   *)
(* for every value of the constants.                                       *)
(* SpscRing: peeking sees what ring_buf_get will return, and the ring      *)
(* implements the bounded FIFO of BoundedFifo.  ModPageQueue, however      *)
(* often it grows: it holds what was pushed and not taken, and the policy  *)
(* thread reads the entries in order, but for one whose slot a producer    *)
(* fills between the shift and the read.  ServerConn: the bytes of every   *)
(* request and of every answer are accounted for until a 16-bit length     *)
(* wraps.  BenchClient: so are the outstanding                             *)
(* requests of the load generator, and its queues of idle connections.     *)
(* PageCopy: no store reaches the page while its words are copied, and so  *)
(* migration is invisible - the safety half of AtomicPage under the        *)
(* refinement mapping mem <- data[mapped].  ParallelCopy, for any callers: *)
(* a copy that returns is complete.  FifoList: the links stay well formed, *)
(* a walk visits a list in order, and the lists implement the queues of    *)
(* FifoSpec.  The order of a list is defined along its links, so the proof *)
(* rests on the walk being unique (OneWalk, from a least counterexample).  *)
(***************************************************************************)
EXTENDS MCThreads, FiniteSetTheorems, FunctionTheorems, SequenceTheorems,
        WellFoundedInduction, TLAPS

(***************************************************************************)
(* The ring as a function of its slots and of the two indices.             *)
(***************************************************************************)

Indices == 0 .. capacity - 1
Slots == [Indices -> Data \cup {NULL}]

\* The slot of the entry with index k, counted from t.
Slot(t, k) == IF t + k >= capacity THEN t + k - capacity ELSE t + k
UsedSlots(h, t) == IF h >= t THEN h - t ELSE capacity + h - t
Walk(b, h, t) == [i \in 1 .. UsedSlots(h, t) |-> b[Slot(t, i - 1)]]

\* A number below twice the capacity, modulo the capacity.
LEMMA OnceRound ==
  ASSUME NEW R \in Nat \ {0}, NEW s \in 0 .. R - 1, NEW x \in Int, x = s \/ x = R + s
  PROVE  x % R = s
<1>1. ASSUME NEW y \in Int
      PROVE  (R * y + s) % R = s
  BY SMTT(60)
<1>2. s = R * 0 + s /\ R + s = R * 1 + s
  OBVIOUS
<1>3. (R * 0 + s) % R = s /\ (R * 1 + s) % R = s
  BY <1>1
<1> QED
  BY <1>2, <1>3, Zenon

\* The next slot, and the range of the counts and slots.
LEMMA Positions ==
  ASSUME Ring!CapacityAssumption, NEW h \in Indices, NEW t \in Indices
  PROVE  /\ capacity \in Nat /\ capacity > 1
         /\ Ring!Inc(h) \in Indices
         /\ UsedSlots(h, t) \in 0 .. capacity - 1
         /\ UsedSlots(h, t) = 0 <=> h = t
         /\ UsedSlots(h, t) = capacity - 1 <=> Ring!Inc(h) = t
         /\ \A k \in Indices : Slot(t, k) \in Indices
  BY DEF Ring!CapacityAssumption, Indices, Ring!Inc, UsedSlots, Slot

\* The walk is a sequence of entries.
LEMMA WalkIsSeq ==
  ASSUME Ring!CapacityAssumption, NEW h \in Indices, NEW t \in Indices, NEW b \in Slots
  PROVE  /\ Walk(b, h, t) \in Seq(Data \cup {NULL})
         /\ Len(Walk(b, h, t)) = UsedSlots(h, t)
<1>1. UsedSlots(h, t) \in Nat /\ UsedSlots(h, t) < capacity /\ capacity \in Nat
  BY Positions
<1>2. ASSUME NEW i \in 1 .. UsedSlots(h, t)
      PROVE  b[Slot(t, i - 1)] \in Data \cup {NULL}
  <2>1. i - 1 \in Indices
    BY <1>1 DEF Indices
  <2>2. Slot(t, i - 1) \in Indices
    BY <2>1, Positions
  <2> QED
    BY <2>2 DEF Slots
<1>3. Walk(b, h, t) \in [1 .. UsedSlots(h, t) -> Data \cup {NULL}]
  BY <1>2 DEF Walk
<1> QED
  BY <1>1, <1>3

\* Contents is that walk.
LEMMA ContentsWalk ==
  ASSUME Ring!CapacityAssumption, NEW h \in Indices, NEW t \in Indices, NEW b
  PROVE  [i \in 1 .. (h - t + capacity) % capacity |-> b[(t + i - 1) % capacity]] = Walk(b, h, t)
<1>1. capacity \in Nat \ {0} /\ h \in 0 .. capacity - 1 /\ t \in 0 .. capacity - 1
  BY Positions DEF Indices
<1>2. (h - t + capacity) % capacity = UsedSlots(h, t)
  <2>1. /\ h - t + capacity \in Int /\ UsedSlots(h, t) \in 0 .. capacity - 1
        /\ \/ h - t + capacity = UsedSlots(h, t)
           \/ h - t + capacity = capacity + UsedSlots(h, t)
    BY <1>1 DEF UsedSlots
  <2> QED
    BY <1>1, <2>1, OnceRound
<1>3. ASSUME NEW i \in 1 .. UsedSlots(h, t)
      PROVE  (t + i - 1) % capacity = Slot(t, i - 1)
  <2>1. UsedSlots(h, t) \in 0 .. capacity - 1
    BY Positions
  <2>2. /\ t + i - 1 \in Int /\ Slot(t, i - 1) \in 0 .. capacity - 1
        /\ \/ t + i - 1 = Slot(t, i - 1)
           \/ t + i - 1 = capacity + Slot(t, i - 1)
    BY <1>1, <2>1 DEF Slot
  <2> QED
    BY <1>1, <2>2, OnceRound
<1> QED
  BY <1>2, <1>3, Zenon DEF Walk
\* An entry put into a ring that is not full becomes the last one ...
LEMMA WalkPut ==
  ASSUME Ring!CapacityAssumption, NEW h \in Indices, NEW t \in Indices, NEW b \in Slots,
         NEW d \in Data, Ring!Inc(h) # t
  PROVE  Walk([b EXCEPT ![h] = d], Ring!Inc(h), t) = Append(Walk(b, h, t), d)
<1> DEFINE D == Data \cup {NULL}
           c == [b EXCEPT ![h] = d]
           N == UsedSlots(h, t)
<1>1. capacity \in Nat /\ capacity > 1 /\ Ring!Inc(h) \in Indices /\ N \in 0 .. capacity - 2
  BY Positions
<1>2. c \in Slots
  BY DEF Slots
<1>3. UsedSlots(Ring!Inc(h), t) = N + 1
  BY <1>1 DEF UsedSlots, Ring!Inc, Indices
<1>4. /\ Walk(b, h, t) \in Seq(D) /\ Len(Walk(b, h, t)) = N
      /\ Walk(c, Ring!Inc(h), t) \in Seq(D) /\ Len(Walk(c, Ring!Inc(h), t)) = N + 1
  BY <1>1, <1>2, <1>3, WalkIsSeq
<1>5. ASSUME NEW i \in 1 .. N
      PROVE  Walk(c, Ring!Inc(h), t)[i] = Walk(b, h, t)[i]
  <2>1. Slot(t, i - 1) \in Indices /\ Slot(t, i - 1) # h
    BY <1>1 DEF Slot, UsedSlots, Indices
  <2>2. c[Slot(t, i - 1)] = b[Slot(t, i - 1)]
    BY <2>1 DEF Slots
  <2>3. i \in 1 .. UsedSlots(Ring!Inc(h), t)
    BY <1>1, <1>3
  <2> QED
    BY <2>2, <2>3 DEF Walk
<1>6. Walk(c, Ring!Inc(h), t)[N + 1] = d
  <2>1. PICK k \in 1 .. UsedSlots(Ring!Inc(h), t) : k = N + 1
    BY <1>1, <1>3
  <2>2. Slot(t, k - 1) = h
    BY <1>1, <2>1 DEF Slot, UsedSlots, Indices
  <2>3. c[h] = d
    BY DEF Slots
  <2> HIDE DEF c, N
  <2>4. Walk(c, Ring!Inc(h), t)[k] = c[Slot(t, k - 1)]
    BY DEF Walk
  <2> QED
    BY <2>1, <2>2, <2>3, <2>4, Zenon
<1> HIDE DEF c, N, D
<1>7. d \in D
  BY DEF D
<1>8. /\ Append(Walk(b, h, t), d) \in Seq(D) /\ Len(Append(Walk(b, h, t), d)) = N + 1
      /\ \A i \in 1 .. N : Append(Walk(b, h, t), d)[i] = Walk(b, h, t)[i]
      /\ Append(Walk(b, h, t), d)[N + 1] = d
  BY <1>4, <1>7, AppendProperties
<1>9. \A i \in 1 .. N + 1 : Walk(c, Ring!Inc(h), t)[i] = Append(Walk(b, h, t), d)[i]
  BY <1>1, <1>5, <1>6, <1>8
<1>10. Walk(c, Ring!Inc(h), t) = Append(Walk(b, h, t), d)
  BY <1>4, <1>8, <1>9, SeqEqual
<1> QED
  BY <1>10 DEF c

\* ... into a full one, too, and the first one is lost.
LEMMA WalkPutFull ==
  ASSUME Ring!CapacityAssumption, NEW h \in Indices, NEW t \in Indices, NEW b \in Slots,
         NEW d \in Data, Ring!Inc(h) = t
  PROVE  Walk([b EXCEPT ![h] = d], Ring!Inc(h), Ring!Inc(t)) = Append(Tail(Walk(b, h, t)), d)
<1> DEFINE D == Data \cup {NULL}
           c == [b EXCEPT ![h] = d]
           N == UsedSlots(h, t)
<1>1. capacity \in Nat /\ capacity > 1 /\ Ring!Inc(h) \in Indices /\ Ring!Inc(t) \in Indices
      /\ N = capacity - 1
  BY Positions
<1>2. c \in Slots
  BY DEF Slots
<1>3. UsedSlots(Ring!Inc(h), Ring!Inc(t)) = N
  BY <1>1 DEF UsedSlots, Ring!Inc, Indices
<1>4. /\ Walk(b, h, t) \in Seq(D) /\ Len(Walk(b, h, t)) = N
      /\ Walk(c, Ring!Inc(h), Ring!Inc(t)) \in Seq(D) /\ Len(Walk(c, Ring!Inc(h), Ring!Inc(t))) = N
  BY <1>1, <1>2, <1>3, WalkIsSeq
<1>5. ASSUME NEW i \in 1 .. N - 1
      PROVE  Walk(c, Ring!Inc(h), Ring!Inc(t))[i] = Walk(b, h, t)[i + 1]
  <2>1. Slot(Ring!Inc(t), i - 1) = Slot(t, i) /\ Slot(t, i) \in Indices /\ Slot(t, i) # h
    BY <1>1 DEF Slot, UsedSlots, Indices, Ring!Inc
  <2>2. c[Slot(t, i)] = b[Slot(t, i)]
    BY <2>1 DEF Slots
  <2>3. i \in 1 .. N /\ i + 1 \in 1 .. N /\ i + 1 - 1 = i
    BY <1>1
  <2> HIDE DEF c, N
  <2>4. Walk(c, Ring!Inc(h), Ring!Inc(t))[i] = c[Slot(Ring!Inc(t), i - 1)]
    BY <1>3, <2>3 DEF Walk
  <2>5. Walk(b, h, t)[i + 1] = b[Slot(t, i)]
    BY <2>3 DEF Walk, N
  <2> QED
    BY <2>1, <2>2, <2>4, <2>5
<1>6. Walk(c, Ring!Inc(h), Ring!Inc(t))[N] = d
  <2>1. Slot(Ring!Inc(t), N - 1) = h
    BY <1>1 DEF Slot, UsedSlots, Indices, Ring!Inc
  <2>2. N \in 1 .. N
    BY <1>1
  <2>3. c[h] = d
    BY DEF Slots
  <2> HIDE DEF c, N
  <2> QED
    BY <1>3, <2>1, <2>2, <2>3 DEF Walk
<1>7. N > 0 /\ N \in Nat
  BY <1>1
<1> HIDE DEF c, N, D
<1>8. Walk(b, h, t) # <<>>
  BY <1>4, <1>7
<1>9. /\ Tail(Walk(b, h, t)) \in Seq(D) /\ Len(Tail(Walk(b, h, t))) = N - 1
      /\ \A i \in 1 .. N - 1 : Tail(Walk(b, h, t))[i] = Walk(b, h, t)[i + 1]
  BY <1>4, <1>7, <1>8, HeadTailProperties
<1>10. d \in D
  BY DEF D
<1>11. /\ Append(Tail(Walk(b, h, t)), d) \in Seq(D) /\ Len(Append(Tail(Walk(b, h, t)), d)) = N
       /\ \A i \in 1 .. N - 1 : Append(Tail(Walk(b, h, t)), d)[i] = Tail(Walk(b, h, t))[i]
       /\ Append(Tail(Walk(b, h, t)), d)[N] = d
  BY <1>7, <1>9, <1>10, AppendProperties
<1>12. \A i \in 1 .. N : Walk(c, Ring!Inc(h), Ring!Inc(t))[i] = Append(Tail(Walk(b, h, t)), d)[i]
  BY <1>5, <1>6, <1>7, <1>9, <1>11
<1>13. Walk(c, Ring!Inc(h), Ring!Inc(t)) = Append(Tail(Walk(b, h, t)), d)
  BY <1>4, <1>11, <1>12, SeqEqual
<1> QED
  BY <1>13 DEF c

\* Taking the entry at the tail takes the first one.
LEMMA WalkGet ==
  ASSUME Ring!CapacityAssumption, NEW h \in Indices, NEW t \in Indices, NEW b \in Slots, h # t
  PROVE  Walk(b, h, t) # <<>> /\ Walk(b, h, Ring!Inc(t)) = Tail(Walk(b, h, t))
<1> DEFINE D == Data \cup {NULL}
           N == UsedSlots(h, t)
<1>1. capacity \in Nat /\ capacity > 1 /\ Ring!Inc(t) \in Indices /\ N \in 1 .. capacity - 1
  <2>1. /\ capacity \in Nat /\ capacity > 1 /\ Ring!Inc(t) \in Indices
        /\ N \in 0 .. capacity - 1 /\ (N = 0 <=> h = t)
    BY Positions, Zenon
  <2> HIDE DEF N
  <2> QED
    BY <2>1
<1>2. UsedSlots(h, Ring!Inc(t)) = N - 1
  BY <1>1 DEF UsedSlots, Ring!Inc, Indices
<1>3. /\ Walk(b, h, t) \in Seq(D) /\ Len(Walk(b, h, t)) = N
      /\ Walk(b, h, Ring!Inc(t)) \in Seq(D) /\ Len(Walk(b, h, Ring!Inc(t))) = N - 1
  BY <1>1, <1>2, WalkIsSeq
<1>4. ASSUME NEW i \in 1 .. N - 1
      PROVE  Walk(b, h, Ring!Inc(t))[i] = Walk(b, h, t)[i + 1]
  <2>1. Slot(Ring!Inc(t), i - 1) = Slot(t, i)
    BY <1>1 DEF Slot, UsedSlots, Indices, Ring!Inc
  <2>2. i + 1 \in 1 .. N /\ i + 1 - 1 = i
    BY <1>1
  <2> HIDE DEF N
  <2>3. Walk(b, h, Ring!Inc(t))[i] = b[Slot(Ring!Inc(t), i - 1)]
    BY <1>2 DEF Walk
  <2>4. Walk(b, h, t)[i + 1] = b[Slot(t, i)]
    BY <2>2 DEF Walk, N
  <2> QED
    BY <2>1, <2>3, <2>4
<1>5. N > 0 /\ N \in Nat
  BY <1>1
<1> HIDE DEF N, D
<1>6. Walk(b, h, t) # <<>>
  BY <1>3, <1>5
<1>7. /\ Tail(Walk(b, h, t)) \in Seq(D) /\ Len(Tail(Walk(b, h, t))) = N - 1
      /\ \A i \in 1 .. N - 1 : Tail(Walk(b, h, t))[i] = Walk(b, h, t)[i + 1]
  BY <1>3, <1>5, <1>6, HeadTailProperties
<1>8. \A i \in 1 .. N - 1 : Walk(b, h, Ring!Inc(t))[i] = Tail(Walk(b, h, t))[i]
  BY <1>4, <1>7
<1>9. Walk(b, h, Ring!Inc(t)) = Tail(Walk(b, h, t))
  BY <1>3, <1>7, <1>8, SeqEqual
<1> QED
  BY <1>6, <1>9
(***************************************************************************)
(* The invariant: the indices stay inside the buffer.                      *)
(***************************************************************************)

RingInv == buffer \in Slots /\ head \in Indices /\ tail \in Indices /\ epoch \in BOOLEAN

\* What Contents, full and empty mean then.
LEMMA RingMeaning ==
  ASSUME Ring!CapacityAssumption, RingInv
  PROVE  /\ Ring!Contents = Walk(buffer, head, tail)
         /\ Ring!Contents \in Seq(Data \cup {NULL})
         /\ Len(Ring!Contents) = UsedSlots(head, tail)
         /\ Ring!ring_buf_full <=> Len(Ring!Contents) = capacity - 1
         /\ Len(Ring!Contents) \in 0 .. capacity - 1
         /\ Ring!ring_buf_empty <=> head = tail
<1>1. buffer \in Slots /\ head \in Indices /\ tail \in Indices
  BY DEF RingInv
<1>2. Ring!Contents = Walk(buffer, head, tail)
  BY <1>1, ContentsWalk DEF Ring!Contents
<1>3. /\ Walk(buffer, head, tail) \in Seq(Data \cup {NULL})
      /\ Len(Walk(buffer, head, tail)) = UsedSlots(head, tail)
  BY <1>1, WalkIsSeq
<1>4. /\ UsedSlots(head, tail) \in 0 .. capacity - 1
      /\ UsedSlots(head, tail) = 0 <=> head = tail
      /\ UsedSlots(head, tail) = capacity - 1 <=> Ring!Inc(head) = tail
      /\ capacity \in Nat /\ capacity > 1
  BY <1>1, Positions
<1> QED
  BY <1>2, <1>3, <1>4 DEF Ring!ring_buf_full, Ring!ring_buf_empty

\* ring_buf_init and ring_buf_reset leave the ring empty.
LEMMA EmptyRing ==
  ASSUME Ring!CapacityAssumption
  PROVE  /\ 0 \in Indices /\ [i \in 0 .. capacity - 1 |-> NULL] \in Slots
         /\ \A b \in Slots : Walk(b, 0, 0) = <<>>
<1>1. 0 \in Indices /\ [i \in 0 .. capacity - 1 |-> NULL] \in Slots
  BY DEF Ring!CapacityAssumption, Indices, Slots
<1>2. UsedSlots(0, 0) = 0
  BY DEF UsedSlots
<1>3. ASSUME NEW b \in Slots
      PROVE  Walk(b, 0, 0) = <<>>
  <2>1. Walk(b, 0, 0) \in Seq(Data \cup {NULL}) /\ Len(Walk(b, 0, 0)) = 0
    BY <1>1, <1>2, WalkIsSeq
  <2> QED
    BY <2>1, EmptySeq
<1> QED
  BY <1>1, <1>3

\* The indices and slots after each operation.
LEMMA RingStep ==
  ASSUME Ring!CapacityAssumption, RingInv, [Ring!Next]_(Ring!vars)
  PROVE  RingInv'
<1>1. Ring!Inc(head) \in Indices /\ Ring!Inc(tail) \in Indices
  BY Positions DEF RingInv
<1>2. ASSUME NEW d \in Data, Ring!ring_buf_put(d)
      PROVE  RingInv'
  <2>1. buffer' \in Slots
    BY <1>2 DEF Ring!ring_buf_put, RingInv, Slots
  <2> QED
    BY <1>1, <1>2, <2>1 DEF Ring!ring_buf_put, Ring!inc_head_pointer, RingInv
<1>3. CASE Ring!ring_buf_get
  BY <1>1, <1>3 DEF Ring!ring_buf_get, RingInv
<1>4. CASE Ring!ring_buf_reset
  BY <1>4, EmptyRing DEF Ring!ring_buf_reset, RingInv
<1>5. CASE UNCHANGED Ring!vars
  BY <1>5 DEF Ring!vars, RingInv
<1> QED
  BY <1>2, <1>3, <1>4, <1>5 DEF Ring!Next, Ring!ring_buf_put2

\* The ring starts empty.
LEMMA RingInit ==
  ASSUME Ring!CapacityAssumption, Ring!Init
  PROVE  RingInv
  BY EmptyRing DEF Ring!Init, RingInv

\* ring_buf_peek_tail adds the index to tail and wraps: it reads the slot that
\* this many calls of ring_buf_get will lead to.
LEMMA PeekIsWalk ==
  ASSUME Ring!CapacityAssumption, RingInv
  PROVE  Ring!PeekRight
<1>1. Ring!Contents = Walk(buffer, head, tail)
  BY RingMeaning
<1>2. /\ UsedSlots(head, tail) \in 0 .. capacity - 1
      /\ UsedSlots(head, tail) <= Ring!ring_buf_size
      /\ Ring!ring_buf_size \in Nat
  <2>1. /\ UsedSlots(head, tail) \in 0 .. capacity - 1
        /\ capacity \in Nat
    BY Positions DEF RingInv
  <2>2. Ring!ring_buf_size = capacity \/ Ring!ring_buf_size = UsedSlots(head, tail)
    BY DEF Ring!ring_buf_size, UsedSlots
  <2> QED
    BY <2>1, <2>2
<1>3. DOMAIN Ring!Contents = 1 .. UsedSlots(head, tail)
  BY <1>1 DEF Walk
<1>4. ASSUME NEW i \in 1 .. UsedSlots(head, tail)
      PROVE  Ring!ring_buf_peek_tail(i - 1) = Ring!Contents[i]
  <2>1. i - 1 < Ring!ring_buf_size
    BY <1>2
  <2>2. Ring!ring_buf_peek_tail(i - 1) = buffer[Slot(tail, i - 1)]
    BY <2>1 DEF Ring!ring_buf_peek_tail, Slot
  <2> QED
    BY <1>1, <2>2 DEF Walk
<1> QED
  BY <1>3, <1>4 DEF Ring!PeekRight

\* ring_buf_peek_tail(i), which the smoothing of accesses reads neighbours
\* with, is the entry the i-th next ring_buf_get returns, for every capacity,
\* wrapped or not.
THEOREM PeeksRight ==
  ASSUME Ring!CapacityAssumption
  PROVE  Ring!Spec => []Ring!PeekRight
<1>1. Ring!Init => RingInv
  BY RingInit
<1>2. RingInv /\ [Ring!Next]_(Ring!vars) => RingInv'
  BY RingStep
<1>3. RingInv => Ring!PeekRight
  BY PeekIsWalk
<1> QED
  BY <1>1, <1>2, <1>3, PTL DEF Ring!Spec

(***************************************************************************)
(* Refinement.                                                             *)
(***************************************************************************)

\* Contents in the next state.
LEMMA ContentsNext ==
  ASSUME Ring!CapacityAssumption, RingInv'
  PROVE  Ring!Contents' = Walk(buffer', head', tail')
<1>1. buffer' \in Slots /\ head' \in Indices /\ tail' \in Indices
  BY DEF RingInv
<1> QED
  BY <1>1, ContentsWalk DEF Ring!Contents

\* ring_buf_put is Put, also when it drops the oldest entry.
LEMMA PutRefines ==
  ASSUME Ring!CapacityAssumption, RingInv, NEW d \in Data, Ring!ring_buf_put(d)
  PROVE  Ring!Fifo!Put(d)
<1>1. RingInv'
  BY RingStep DEF Ring!Next
<1>2. Ring!Contents' = Walk(buffer', head', tail')
  BY <1>1, ContentsNext
<1>3. /\ Ring!Contents = Walk(buffer, head, tail)
      /\ Ring!ring_buf_full <=> ~(Len(Ring!Contents) < capacity - 1)
  <2>1. /\ Ring!ring_buf_full <=> Len(Ring!Contents) = capacity - 1
        /\ Len(Ring!Contents) \in 0 .. capacity - 1
        /\ Ring!Contents = Walk(buffer, head, tail)
    BY RingMeaning
  <2>2. capacity \in Nat
    BY DEF Ring!CapacityAssumption
  <2> QED
    BY <2>1, <2>2
<1>4. buffer' = [buffer EXCEPT ![head] = d] /\ head' = Ring!Inc(head) /\ epoch' = epoch
  BY DEF Ring!ring_buf_put, Ring!inc_head_pointer
<1>5. CASE Ring!ring_buf_full
  <2>1. Ring!Inc(head) = tail /\ tail' = Ring!Inc(tail)
    BY <1>5 DEF Ring!ring_buf_full, Ring!ring_buf_put, Ring!inc_head_pointer
  <2>2. Ring!Contents' = Append(Tail(Ring!Contents), d)
    BY <1>2, <1>3, <1>4, <2>1, WalkPutFull DEF RingInv
  <2> QED
    BY <1>3, <1>4, <1>5, <2>2 DEF Ring!Fifo!Put
<1>6. CASE ~Ring!ring_buf_full
  <2>1. Ring!Inc(head) # tail /\ tail' = tail
    BY <1>6 DEF Ring!ring_buf_full, Ring!ring_buf_put, Ring!inc_head_pointer
  <2>2. Ring!Contents' = Append(Ring!Contents, d)
    BY <1>2, <1>3, <1>4, <2>1, WalkPut DEF RingInv
  <2> QED
    BY <1>3, <1>4, <1>6, <2>2 DEF Ring!Fifo!Put
<1> QED
  BY <1>5, <1>6

\* ring_buf_get is Get.
LEMMA GetRefines ==
  ASSUME Ring!CapacityAssumption, RingInv, Ring!ring_buf_get
  PROVE  Ring!Fifo!Get
<1>1. RingInv'
  BY RingStep DEF Ring!Next
<1>2. Ring!Contents' = Walk(buffer', head', tail')
  BY <1>1, ContentsNext
<1>3. Ring!Contents = Walk(buffer, head, tail) /\ head # tail
  BY RingMeaning DEF Ring!ring_buf_get
<1>4. buffer' = buffer /\ head' = head /\ tail' = Ring!Inc(tail) /\ epoch' = epoch
  BY DEF Ring!ring_buf_get
<1> QED
  BY <1>2, <1>3, <1>4, WalkGet DEF RingInv, Ring!Fifo!Get

\* ring_buf_reset is Reset.
LEMMA ResetRefines ==
  ASSUME Ring!CapacityAssumption, RingInv, Ring!ring_buf_reset
  PROVE  Ring!Fifo!Reset
<1>1. RingInv'
  BY RingStep DEF Ring!Next
<1>2. Ring!Contents' = Walk(buffer', 0, 0)
  BY <1>1, ContentsNext DEF Ring!ring_buf_reset
<1> QED
  BY <1>1, <1>2, EmptyRing DEF RingInv, Ring!ring_buf_reset, Ring!Fifo!Reset

\* Every step of the ring is a step of the queue or leaves it alone.
LEMMA StepRefines ==
  ASSUME Ring!CapacityAssumption, RingInv, [Ring!Next]_(Ring!vars)
  PROVE  [Ring!Fifo!Next]_<<Ring!Contents, epoch>>
<1>1. ASSUME NEW d \in Data, Ring!ring_buf_put2(d)
      PROVE  Ring!Fifo!Put(d)
  BY <1>1, PutRefines DEF Ring!ring_buf_put2
<1>2. CASE UNCHANGED Ring!vars
  BY <1>2 DEF Ring!vars, Ring!Contents
<1> QED
  BY <1>1, <1>2, PutRefines, GetRefines, ResetRefines DEF Ring!Next, Ring!Fifo!Next

\* The ring buffer of spsc-ring.c is a FIFO of capacity - 1 entries that drops
\* its oldest entry when it is full, and loses or reorders nothing else, for
\* every capacity: SpscRing implements BoundedFifo.
THEOREM RingIsFifo ==
  ASSUME Ring!CapacityAssumption
  PROVE  Ring!Spec => Ring!IsBoundedFifo
<1>1. Ring!Init => RingInv
  BY RingInit
<1>2. RingInv /\ [Ring!Next]_(Ring!vars) => RingInv'
  BY RingStep
<1>3. Ring!Init => Ring!Fifo!Init
  BY RingInit, RingMeaning, EmptyRing DEF Ring!Init, RingInv, Ring!Fifo!Init
<1>4. RingInv /\ [Ring!Next]_(Ring!vars) => [Ring!Fifo!Next]_<<Ring!Contents, epoch>>
  BY StepRefines
<1> QED
  BY <1>1, <1>2, <1>3, <1>4, PTL DEF Ring!Spec, Ring!IsBoundedFifo, Ring!Fifo!Spec
(***************************************************************************)
(* mod_page_dq: powers of two.                                             *)
(***************************************************************************)

\* The numbers of subsets of 1 .. n.
LEMMA Subsets ==
  ASSUME NEW n \in Nat
  PROVE  /\ IsFiniteSet(SUBSET (1 .. n)) /\ Cardinality(SUBSET (1 .. n)) = 2 ^ n
         /\ 2 ^ n \in Nat \ {0}
<1>1. IsFiniteSet(1 .. n) /\ Cardinality(1 .. n) = n
  <2>1. 1 \in Int /\ n \in Int
    OBVIOUS
  <2> QED
    BY <2>1, FS_Interval
<1> DEFINE S == 1 .. n
<1>2. {} \in SUBSET S
  OBVIOUS
<1> HIDE DEF S
<1>3. IsFiniteSet(S) /\ Cardinality(S) = n
  BY <1>1 DEF S
<1>4. IsFiniteSet(SUBSET S) /\ Cardinality(SUBSET S) = 2 ^ n
  BY <1>3, FS_SUBSET
<1>5. Cardinality(SUBSET S) \in Nat /\ Cardinality(SUBSET S) # 0
  BY <1>2, <1>4, FS_CardinalityType, FS_EmptySet
<1> QED
  BY <1>4, <1>5 DEF S

\* A ring of twice the size has one bit more.
LEMMA Doubled ==
  ASSUME NEW n \in Nat
  PROVE  2 ^ (n + 1) = 2 * 2 ^ n
<1> DEFINE S == SUBSET (1 .. n)
           T == {s \cup {n + 1} : s \in S}
           f == [s \in S |-> s \cup {n + 1}]
<1>1. S \cup T = SUBSET (1 .. n + 1)
  <2>1. ASSUME NEW s \in SUBSET (1 .. n + 1)
        PROVE  s \in S \cup T
    <3>1. CASE n + 1 \notin s
      <4>1. \A x \in 1 .. n + 1 : x = n + 1 \/ x \in 1 .. n
        OBVIOUS
      <4> QED
        BY <3>1, <4>1
    <3>2. CASE n + 1 \in s
      <4>1. \A x \in 1 .. n + 1 : x = n + 1 \/ x \in 1 .. n
        OBVIOUS
      <4>2. s \ {n + 1} \in S
        BY <4>1
      <4>3. s = (s \ {n + 1}) \cup {n + 1}
        BY <3>2
      <4> QED
        BY <4>2, <4>3
    <3> QED
      BY <3>1, <3>2
  <2>2. ASSUME NEW s \in S
        PROVE  s \in SUBSET (1 .. n + 1) /\ s \cup {n + 1} \in SUBSET (1 .. n + 1)
    <3>1. 1 .. n \subseteq 1 .. n + 1 /\ n + 1 \in 1 .. n + 1
      OBVIOUS
    <3> QED
      BY <3>1
  <2>3. \A t \in T : \E s \in S : t = s \cup {n + 1}
    OBVIOUS
  <2> HIDE DEF S, T
  <2>4. S \cup T \subseteq SUBSET (1 .. n + 1)
    BY <2>2, <2>3
  <2> QED
    BY <2>1, <2>4
<1>2. S \cap T = {}
  <2>1. n + 1 \notin 1 .. n
    OBVIOUS
  <2> QED
    BY <2>1
<1>3. f \in Bijection(S, T)
  <2>1. \A s, t \in S : f[s] = f[t] => s = t
    <3> SUFFICES ASSUME NEW s \in S, NEW t \in S, s \cup {n + 1} = t \cup {n + 1}
                 PROVE  s = t
      OBVIOUS
    <3>1. n + 1 \notin 1 .. n
      OBVIOUS
    <3>2. n + 1 \notin s /\ n + 1 \notin t
      BY <3>1
    <3> QED
      BY <3>2
  <2>2. f \in [S -> T] /\ DOMAIN f = S /\ \A t \in T : \E s \in S : f[s] = t
    OBVIOUS
  <2> HIDE DEF S, T, f
  <2>3. f \in Injection(S, T)
    BY <2>1, <2>2 DEF Injection, IsInjective
  <2>4. f \in Surjection(S, T)
    BY <2>2 DEF Surjection
  <2> QED
    BY <2>3, <2>4 DEF Bijection
<1>4. ExistsBijection(S, T)
  BY <1>3 DEF ExistsBijection
<1>5. IsFiniteSet(S) /\ Cardinality(S) = 2 ^ n /\ 2 ^ n \in Nat
  BY Subsets
<1>6. n + 1 \in Nat
  OBVIOUS
<1>7. Cardinality(SUBSET (1 .. n + 1)) = 2 ^ (n + 1)
  BY <1>6, Subsets
<1> HIDE DEF S, T, f
<1>8. IsFiniteSet(T) /\ Cardinality(T) = 2 ^ n
  BY <1>4, <1>5, FS_Bijection
<1>9. Cardinality(S \cup T) = Cardinality(S) + Cardinality(T) - Cardinality(S \cap T)
  BY <1>5, <1>8, FS_Union
<1>10. Cardinality(S \cap T) = 0
  BY <1>2, FS_EmptySet
<1>11. PICK k \in Nat : k = 2 ^ n
  BY <1>5
<1>12. Cardinality(S \cup T) = k + k - 0
  BY <1>5, <1>8, <1>9, <1>10, <1>11, Zenon
<1>13. Cardinality(S \cup T) = 2 * k
  BY <1>12
<1> QED
  BY <1>1, <1>7, <1>11, <1>13, Zenon
(***************************************************************************)
(* mod_page_dq: the ring.                                                  *)
(***************************************************************************)

\* A position counted from the start of the ring, for at most one turn.
Pos(R, k) == IF k >= R THEN k - R ELSE k
Rings(R) == [0 .. R - 1 -> Nat]
\* The n entries from position f are numbers first + 1, first + 2, ...
Numbered(b, R, f, n, from) == \A i \in 1 .. n : b[Pos(R, f + i - 1)] = from + i

\* What % R means there.
LEMMA PosIsMod ==
  ASSUME NEW R \in Nat \ {0}, NEW k \in 0 .. 2 * R - 1
  PROVE  k % R = Pos(R, k) /\ Pos(R, k) \in 0 .. R - 1
<1>1. /\ Pos(R, k) \in 0 .. R - 1
      /\ k = Pos(R, k) \/ k = R + Pos(R, k)
      /\ k \in Int
  BY DEF Pos
<1>2. PICK s \in 0 .. R - 1 : s = Pos(R, k)
  BY <1>1, Zenon
<1>3. k % R = s
  BY <1>1, <1>2, OnceRound, Zenon
<1> QED
  BY <1>1, <1>2, <1>3, Zenon

\* The next entry goes behind the last one.
LEMMA PutEntry ==
  ASSUME NEW R \in Nat \ {0}, NEW c \in 0 .. R - 1, NEW f \in 0 .. R - 1,
         NEW b \in Rings(R), NEW from \in Nat, Numbered(b, R, f, c, from),
         NEW b2, b2 = [b EXCEPT ![Pos(R, c + f)] = from + c + 1]
  PROVE  b2 \in Rings(R) /\ Numbered(b2, R, f, c + 1, from)
<1>1. Pos(R, c + f) \in 0 .. R - 1 /\ from + c + 1 \in Nat
  BY DEF Pos
<1>2. b2 \in Rings(R)
  BY <1>1 DEF Rings
<1>3. \A k \in 0 .. R - 1 : b2[k] = IF k = Pos(R, c + f) THEN from + c + 1 ELSE b[k]
  BY <1>1 DEF Rings
<1>4. ASSUME NEW i \in 1 .. c + 1
      PROVE  b2[Pos(R, f + i - 1)] = from + i
  <2>1. Pos(R, f + i - 1) \in 0 .. R - 1
    BY DEF Pos
  <2>2. CASE i = c + 1
    <3>1. Pos(R, f + i - 1) = Pos(R, c + f)
      BY <2>2 DEF Pos
    <3> QED
      BY <1>3, <2>1, <2>2, <3>1
  <2>3. CASE i \in 1 .. c
    <3>1. Pos(R, f + i - 1) # Pos(R, c + f)
      BY <2>3 DEF Pos
    <3>2. b[Pos(R, f + i - 1)] = from + i
      BY <2>3 DEF Numbered
    <3> QED
      BY <1>3, <2>1, <3>1, <3>2
  <2> QED
    BY <2>2, <2>3
<1> QED
  BY <1>2, <1>4 DEF Numbered

\* kdq_resize keeps the entries of a full ring in order.
LEMMA GrowRing ==
  ASSUME NEW R \in Nat \ {0}, NEW f \in 0 .. R - 1, NEW b \in Rings(R), NEW from \in Nat,
         Numbered(b, R, f, R, from),
         NEW f2, f2 = IF f + R > R THEN 2 * R - (R - f) ELSE f,
         NEW b2, b2 = [i \in 0 .. 2 * R - 1 |-> IF f + R > R /\ i >= f2 THEN b[i - 2 * R + R]
                                                ELSE IF i < R THEN b[i] ELSE 0]
  PROVE  /\ b2 \in Rings(2 * R) /\ f2 \in 0 .. 2 * R - 1
         /\ Numbered(b2, 2 * R, f2, R, from)
<1>1. f2 \in 0 .. 2 * R - 1
  OBVIOUS
<1>2. b2 \in Rings(2 * R)
  BY DEF Rings
<1>3. ASSUME NEW i \in 1 .. R
      PROVE  b2[Pos(2 * R, f2 + i - 1)] = from + i
  <2>1. b[Pos(R, f + i - 1)] = from + i
    BY DEF Numbered
  <2>2. Pos(2 * R, f2 + i - 1) \in 0 .. 2 * R - 1
    BY DEF Pos
  <2>3. b2[Pos(2 * R, f2 + i - 1)] = b[Pos(R, f + i - 1)]
    <3>1. CASE f = 0
      BY <2>2, <3>1 DEF Pos
    <3>2. CASE f > 0 /\ f + i - 1 < R
      <4>1. Pos(2 * R, f2 + i - 1) = R + (f + i - 1) /\ Pos(R, f + i - 1) = f + i - 1
        BY <3>2 DEF Pos
      <4>2. R + (f + i - 1) >= f2 /\ R + (f + i - 1) - 2 * R + R = f + i - 1
        BY <3>2
      <4> QED
        BY <2>2, <3>2, <4>1, <4>2
    <3>3. CASE f > 0 /\ f + i - 1 >= R
      <4>1. Pos(2 * R, f2 + i - 1) = f + i - 1 - R /\ Pos(R, f + i - 1) = f + i - 1 - R
        BY <3>3 DEF Pos
      <4>2. f + i - 1 - R < f2 /\ f + i - 1 - R < R
        BY <3>3
      <4> QED
        BY <2>2, <3>3, <4>1, <4>2
    <3> QED
      BY <3>1, <3>2, <3>3
  <2> QED
    BY <2>1, <2>3
<1> QED
  BY <1>1, <1>2, <1>3 DEF Numbered
\* The ring holds what was pushed and not yet shifted.
QueueInv ==
    /\ bits \in Nat /\ pushed \in Nat /\ count \in Nat /\ count <= pushed
    /\ count <= 2 ^ bits /\ front \in 0 .. 2 ^ bits - 1
    /\ a \in Rings(2 ^ bits)
    /\ Numbered(a, 2 ^ bits, front, count, pushed - count)

\* What the policy thread has in hand is the entry before the oldest one in the
\* ring, as long as no producer has filled its slot.
OrderInv ==
    /\ processed \in Seq(Nat) /\ \A i \in DOMAIN processed : processed[i] = i \/ i \in misread
    /\ mp = -1 => Len(processed) = pushed - count /\ ~spoilt /\ ~dangling
    /\ mp # -1 => Len(processed) + 1 = pushed - count /\ mp \in 0 .. 2 ^ bits - 1
    /\ mp # -1 /\ ~spoilt => /\ count < 2 ^ bits /\ front = Pos(2 ^ bits, mp + 1)
                             /\ ~dangling /\ a[mp] = pushed - count

\* kdq_init.
LEMMA QueueInit == Dq!Init => QueueInv /\ OrderInv
<1> SUFFICES ASSUME Dq!Init
             PROVE  QueueInv /\ OrderInv
  OBVIOUS
<1>1. 2 \in Nat
  OBVIOUS
<1>2. 2 ^ 2 \in Nat \ {0}
  BY <1>1, Subsets
<1>3. /\ bits = 2 /\ front = 0 /\ count = 0 /\ pushed = 0 /\ mp = -1 /\ ~dangling
      /\ ~spoilt /\ processed = <<>> /\ a = [i \in 0 .. 2 ^ 2 - 1 |-> 0]
  BY DEF Dq!Init, Dq!Size, Dq!Junk, Dq!NoSlot
<1>4. a \in Rings(2 ^ 2)
  BY <1>2, <1>3 DEF Rings
<1>5. QueueInv
  BY <1>2, <1>3, <1>4 DEF QueueInv, Numbered
<1>6. OrderInv
  BY <1>3 DEF OrderInv
<1> QED
  BY <1>5, <1>6

\* kdq_push, in a ring that is not full or after it has grown.
LEMMA PushKeepsRing ==
  ASSUME QueueInv, Dq!Push
  PROVE  /\ QueueInv'
         /\ 2 ^ bits <= 2 ^ bits'
         /\ count < 2 ^ bits => /\ bits' = bits /\ front' = front
                                /\ dangling' = dangling
                                /\ \A k \in 0 .. 2 ^ bits - 1 :
                                      k # Pos(2 ^ bits, count + front) => a'[k] = a[k]
<1>1. PICK R \in Nat \ {0} : R = 2 ^ bits
  BY Subsets DEF QueueInv
<1>2. PICK from \in Nat : from = pushed - count
  BY DEF QueueInv
<1>3. /\ bits \in Nat /\ pushed \in Nat /\ count \in 0 .. R /\ front \in 0 .. R - 1
      /\ a \in Rings(R) /\ Numbered(a, R, front, count, from)
      /\ pushed = from + count
  BY <1>1, <1>2 DEF QueueInv
<1>4. /\ count' = count + 1 /\ pushed' = pushed + 1
      /\ pushed' - count' = from /\ count' <= pushed' /\ count' \in Nat /\ pushed' \in Nat
  BY <1>3, <1>2 DEF Dq!Push, QueueInv
<1>5. CASE count < R
  <2>1. /\ bits' = bits /\ front' = front /\ dangling' = dangling
        /\ a' = [a EXCEPT ![(count + front) % R] = pushed + 1]
    BY <1>1, <1>3, <1>5 DEF Dq!Push, Dq!Size
  <2>2. (count + front) % R = Pos(R, count + front)
    BY <1>3, <1>5, PosIsMod
  <2>3. a' = [a EXCEPT ![Pos(R, count + front)] = from + count + 1]
    BY <1>3, <2>1, <2>2, Zenon
  <2>4. count \in 0 .. R - 1 /\ front \in 0 .. R - 1 /\ a \in Rings(R)
        /\ Numbered(a, R, front, count, from)
    BY <1>3, <1>5
  <2>5. /\ a' \in Rings(R) /\ Numbered(a', R, front, count + 1, from)
        /\ \A k \in 0 .. R - 1 : k # Pos(R, count + front) => a'[k] = a[k]
    <3>1. a' \in Rings(R) /\ Numbered(a', R, front, count + 1, from)
      BY <2>3, <2>4, PutEntry
    <3>2. \A k \in 0 .. R - 1 : k # Pos(R, count + front) => a'[k] = a[k]
      BY <2>3, <2>4 DEF Rings
    <3> QED
      BY <3>1, <3>2
  <2>6. count + 1 <= R
    BY <2>4
  <2>7. QueueInv'
    BY <1>1, <1>3, <1>4, <2>1, <2>5, <2>6 DEF QueueInv
  <2>8. 2 ^ bits <= 2 ^ bits'
    BY <1>1, <2>1
  <2> QED
    BY <1>1, <2>1, <2>5, <2>7, <2>8
<1>6. CASE count = R
  <2>1. PICK f2 : f2 = IF front + R > R THEN 2 * R - (R - front) ELSE front
    OBVIOUS
  <2>2. PICK b2 : b2 = [i \in 0 .. 2 * R - 1 |-> IF front + R > R /\ i >= f2 THEN a[i - 2 * R + R]
                                                ELSE IF i < R THEN a[i] ELSE 0]
    OBVIOUS
  <2>3. 2 ^ (bits + 1) = 2 * R
    BY <1>1, <1>3, Doubled
  <2>4. Dq!Resized = [ring |-> b2, front |-> f2]
    BY <1>1, <1>6, <2>1, <2>2, <2>3 DEF Dq!Resized, Dq!Size, Dq!Junk
  <2>5. Dq!Resized.ring = b2 /\ Dq!Resized.front = f2
    BY <2>4
  <2>6. /\ bits' = bits + 1 /\ front' = f2
        /\ a' = [b2 EXCEPT ![(count + f2) % (2 * R)] = pushed + 1]
    BY <1>1, <1>6, <2>3, <2>5 DEF Dq!Push, Dq!Size
  <2>7. /\ b2 \in Rings(2 * R) /\ f2 \in 0 .. 2 * R - 1
        /\ Numbered(b2, 2 * R, f2, R, from)
    BY <1>3, <1>6, <2>1, <2>2, GrowRing
  <2>8. PICK S \in Nat \ {0} : S = 2 * R
    OBVIOUS
  <2>9. (count + f2) % S = Pos(S, count + f2)
    <3>1. count + f2 \in 0 .. 2 * S - 1
      BY <1>6, <2>7, <2>8
    <3> QED
      BY <3>1, PosIsMod
  <2>10. a' = [b2 EXCEPT ![Pos(S, count + f2)] = from + count + 1]
    BY <1>3, <2>6, <2>8, <2>9, Zenon
  <2>11. count \in 0 .. S - 1 /\ f2 \in 0 .. S - 1 /\ b2 \in Rings(S)
         /\ Numbered(b2, S, f2, count, from)
    BY <1>6, <2>7, <2>8
  <2>12. a' \in Rings(S) /\ Numbered(a', S, f2, count + 1, from)
    BY <2>10, <2>11, PutEntry
  <2>13. count + 1 <= S /\ bits + 1 \in Nat /\ 2 ^ (bits + 1) = S
    BY <1>3, <2>3, <2>8, <2>11
  <2>14. QueueInv'
    BY <1>4, <2>6, <2>11, <2>12, <2>13 DEF QueueInv
  <2>15. 2 ^ bits' = 2 * R /\ R <= 2 * R
    BY <2>3, <2>6
  <2> QED
    BY <1>1, <1>6, <2>14, <2>15
<1> QED
  BY <1>3, <1>5, <1>6

\* kdq_shift: the next entry is the oldest one.
LEMMA ShiftStep ==
  ASSUME QueueInv, Dq!Shift
  PROVE  QueueInv' /\ (OrderInv => OrderInv')
<1>1. PICK R \in Nat \ {0} : R = 2 ^ bits
  BY Subsets DEF QueueInv
<1>2. PICK from \in Nat : from = pushed - count
  BY DEF QueueInv
<1>3. /\ bits \in Nat /\ pushed \in Nat /\ count \in 1 .. R /\ front \in 0 .. R - 1
      /\ a \in Rings(R) /\ Numbered(a, R, front, count, from)
      /\ pushed = from + count
  BY <1>1, <1>2 DEF QueueInv, Dq!Shift
<1>4. /\ mp = -1 /\ mp' = front /\ count' = count - 1
      /\ front' = (front + 1) % R
      /\ UNCHANGED <<a, bits, pushed, dangling, processed, spoilt, misread>>
  BY <1>1 DEF Dq!Shift, Dq!Size, Dq!NoSlot
<1>5. front' = Pos(R, front + 1) /\ Pos(R, front + 1) \in 0 .. R - 1
  <2>1. front + 1 \in 0 .. 2 * R - 1
    BY <1>3
  <2> QED
    BY <1>4, <2>1, PosIsMod
<1>6. Numbered(a, R, Pos(R, front + 1), count - 1, from + 1)
  <2> SUFFICES ASSUME NEW i \in 1 .. count - 1
               PROVE  a[Pos(R, Pos(R, front + 1) + i - 1)] = from + 1 + i
    BY DEF Numbered
  <2>1. i + 1 \in 1 .. count
    BY <1>3
  <2>2. a[Pos(R, front + (i + 1) - 1)] = from + (i + 1)
    BY <2>1, <1>3 DEF Numbered
  <2>3. Pos(R, Pos(R, front + 1) + i - 1) = Pos(R, front + (i + 1) - 1)
    BY <1>3, <2>1 DEF Pos
  <2> QED
    BY <1>2, <2>2, <2>3
<1>7. pushed - (count - 1) = from + 1 /\ count - 1 <= pushed /\ count - 1 <= R
      /\ count - 1 \in Nat
  BY <1>2, <1>3
<1>8. QueueInv'
  BY <1>1, <1>3, <1>4, <1>5, <1>6, <1>7 DEF QueueInv
<1>9. ASSUME OrderInv
      PROVE  OrderInv'
  <2>1. a[front] = from + 1
    <3>1. Pos(R, front + 1 - 1) = front /\ 1 \in 1 .. count
      BY <1>3 DEF Pos
    <3> QED
      BY <1>3, <3>1 DEF Numbered
  <2>2. front # -1 /\ count - 1 < R
    BY <1>3
  <2>3. Len(processed) = from /\ Len(processed) + 1 = from + 1
    BY <1>2, <1>4, <1>9 DEF OrderInv
  <2> QED
    BY <1>1, <1>3, <1>4, <1>5, <1>7, <1>9, <2>1, <2>2, <2>3 DEF OrderInv
<1> QED
  BY <1>8, <1>9

\* The entry behind the pointer is the next one, if its slot has been left alone.
LEMMA ProcessStep ==
  ASSUME QueueInv, Dq!Process
  PROVE  QueueInv' /\ (OrderInv => OrderInv')
<1> DEFINE x == IF dangling THEN 0 ELSE a[mp]
<1>1. /\ mp # -1 /\ mp' = -1 /\ ~dangling' /\ ~spoilt'
      /\ processed' = Append(processed, x)
      /\ misread' = IF spoilt THEN misread \cup {Len(processed) + 1} ELSE misread
      /\ UNCHANGED <<a, front, bits, count, pushed>>
  BY DEF Dq!Process, Dq!NoSlot, Dq!ringVars, Dq!Junk
<1>2. QueueInv'
  BY <1>1 DEF QueueInv
<1>3. ASSUME OrderInv
      PROVE  OrderInv'
  <2>1. /\ processed \in Seq(Nat) /\ \A i \in DOMAIN processed : processed[i] = i \/ i \in misread
        /\ Len(processed) + 1 = pushed - count /\ mp \in 0 .. 2 ^ bits - 1
        /\ ~spoilt => ~dangling /\ a[mp] = pushed - count
    BY <1>1, <1>3 DEF OrderInv
  <2>2. x \in Nat
    BY <2>1 DEF QueueInv, Rings
  <2>3. ~spoilt => x = Len(processed) + 1
    BY <2>1
  <2> HIDE DEF x
  <2>4. PICK n \in Nat : n = Len(processed)
    BY <2>1, LenProperties
  <2>5. processed' \in Seq(Nat) /\ Len(processed') = n + 1
    BY <1>1, <2>1, <2>2, <2>4, AppendProperties
  <2>6. ASSUME NEW i \in DOMAIN processed'
        PROVE  processed'[i] = i \/ i \in misread'
    <3>1. i \in 1 .. n + 1 /\ processed'[i] = IF i <= n THEN processed[i] ELSE x
      BY <1>1, <2>1, <2>2, <2>4, <2>5
    <3>2. CASE i <= n
      <4>1. i \in DOMAIN processed
        BY <2>1, <2>4, <3>1, <3>2
      <4> QED
        BY <1>1, <2>1, <3>1, <3>2, <4>1
    <3>3. CASE i = n + 1
      BY <1>1, <2>3, <2>4, <3>1, <3>3
    <3> QED
      BY <3>1, <3>2, <3>3
  <2>7. Len(processed') = pushed' - count'
    BY <1>1, <2>1, <2>4, <2>5
  <2> QED
    BY <1>1, <2>5, <2>6, <2>7 DEF OrderInv
<1> QED
  BY <1>2, <1>3

\* A push while the policy thread has a slot in hand leaves it alone or marks it spoilt.
LEMMA PushKeepsSlot ==
  ASSUME QueueInv, OrderInv, Dq!Push
  PROVE  OrderInv'
<1>1. PICK R \in Nat \ {0} : R = 2 ^ bits
  BY Subsets DEF QueueInv
<1>2. /\ count \in 0 .. R /\ front \in 0 .. R - 1 /\ pushed \in Nat
      /\ count' = count + 1 /\ pushed' = pushed + 1 /\ UNCHANGED <<mp, processed, misread>>
  BY <1>1 DEF QueueInv, Dq!Push
<1>3. pushed' - count' = pushed - count
  BY <1>2
<1>4. /\ spoilt' <=> spoilt \/ (mp # -1 /\ count = R - 1)
      /\ mp = -1 => (dangling' => dangling)
  BY <1>1 DEF Dq!Push, Dq!Size, Dq!NoSlot
<1>5. R <= 2 ^ bits' /\ 2 ^ bits' \in Nat
  BY <1>1, PushKeepsRing, Subsets DEF QueueInv
<1>6. CASE mp = -1
  BY <1>2, <1>3, <1>4, <1>6 DEF OrderInv
<1>7. CASE mp # -1 /\ spoilt'
  <2>1. mp \in 0 .. 2 ^ bits' - 1
    BY <1>1, <1>5, <1>7 DEF OrderInv
  <2> QED
    BY <1>2, <1>3, <1>7, <2>1 DEF OrderInv
<1>8. CASE mp # -1 /\ ~spoilt'
  <2>1. ~spoilt /\ count # R - 1
    BY <1>4, <1>8
  <2>2. /\ count < R /\ mp \in 0 .. R - 1 /\ front = Pos(R, mp + 1) /\ ~dangling
        /\ a[mp] = pushed - count /\ Len(processed) + 1 = pushed - count
    BY <1>1, <1>8, <2>1 DEF OrderInv
  <2>3. /\ bits' = bits /\ front' = front /\ dangling' = dangling
        /\ \A k \in 0 .. R - 1 : k # Pos(R, count + front) => a'[k] = a[k]
    BY <1>1, <2>2, PushKeepsRing
  <2>4. count < R - 1
    BY <1>2, <2>1, <2>2
  <2>5. mp # Pos(R, count + front)
    BY <1>2, <2>2, <2>4 DEF Pos
  <2>6. a'[mp] = a[mp]
    BY <2>2, <2>3, <2>5
  <2>7. count + 1 < R
    BY <1>2, <2>4
  <2> QED
    BY <1>1, <1>2, <1>3, <1>8, <2>2, <2>3, <2>6, <2>7 DEF OrderInv
<1> QED
  BY <1>6, <1>7, <1>8

\* Every step keeps the ring and the order.
LEMMA QueueStep ==
  ASSUME QueueInv, [Dq!Next]_(Dq!vars)
  PROVE  QueueInv' /\ (OrderInv => OrderInv')
<1>1. CASE UNCHANGED Dq!vars
  BY <1>1 DEF Dq!vars, QueueInv, OrderInv
<1> QED
  BY <1>1, PushKeepsRing, PushKeepsSlot, ShiftStep, ProcessStep DEF Dq!Next

\* The ring holds the last count entries pushed.
LEMMA HoldsQueue == ASSUME QueueInv PROVE Dq!RingIsFifo
<1>1. PICK R \in Nat \ {0} : R = 2 ^ bits
  BY Subsets DEF QueueInv
<1>2. ASSUME NEW i \in 1 .. count
      PROVE  a[(front + i - 1) % R] = (pushed - count) + i
  <2>1. front + i - 1 \in 0 .. 2 * R - 1
    BY <1>1 DEF QueueInv
  <2>2. (front + i - 1) % R = Pos(R, front + i - 1)
    BY <2>1, PosIsMod
  <2> QED
    BY <1>1, <2>2 DEF QueueInv, Numbered
<1> QED
  BY <1>1, <1>2 DEF Dq!RingIsFifo, Dq!Size

\* mod_page_dq holds exactly the entries pushed and not yet shifted, in order,
\* however often it wrapped and grew and whatever the policy thread has in hand.
THEOREM QueueIsFifo == Dq!Init /\ [][Dq!Next]_(Dq!vars) => []Dq!RingIsFifo
<1>1. Dq!Init => QueueInv
  BY QueueInit
<1>2. QueueInv /\ [Dq!Next]_(Dq!vars) => QueueInv'
  BY QueueStep
<1>3. QueueInv => Dq!RingIsFifo
  BY HoldsQueue
<1> QED
  BY <1>1, <1>2, <1>3, PTL

\* The policy thread learns of the added and removed pages in the order of the
\* changes, one for one, whatever producers do while it reads a slot after the
\* unlock: the only entry that can be another one is that of a slot which a push has
\* filled in between.
THEOREM ChangesInOrder == Dq!Init /\ [][Dq!Next]_(Dq!vars) => []Dq!ProcessedInOrder
<1>1. Dq!Init => QueueInv /\ OrderInv
  BY QueueInit
<1>2. (QueueInv /\ OrderInv) /\ [Dq!Next]_(Dq!vars) => (QueueInv /\ OrderInv)'
  BY QueueStep
<1>3. QueueInv /\ OrderInv => Dq!ProcessedInOrder
  BY DEF OrderInv, Dq!ProcessedInOrder
<1> QED
  BY <1>1, <1>2, <1>3, PTL

(***************************************************************************)
(* The socket server: ServerConn.  The invariant counts bytes, and says    *)
(* for each connection, served or waiting, what its buffers may hold: an   *)
(* answer is begun only in an empty transmit buffer, and bytes are         *)
(* received only when the receive buffer has been moved up.                *)
(***************************************************************************)
ServerClient == [begun : Nat, part : 0 .. ReqLen - 1, answered : Nat, bytes : Nat,
                 open : BOOLEAN]
ServerState == [rx_len : Nat, rx_off : Nat, tx_len : Nat, tx_off : Nat,
                wr : BOOLEAN, it : BOOLEAN, open : BOOLEAN]

ServerTypes == /\ client \in [Clients -> ServerClient]
               /\ up \in [Clients -> Nat] /\ down \in [Clients -> 0 .. SockSpace]
               /\ kinds \in [Clients -> Seq({"GET", "SET"})]
               /\ conn \in [Clients -> ServerState]
               /\ pc \in {"wait", "recv", "process", "send", "abort"}
               /\ cur \in Clients /\ item \in [stored : BOOLEAN, ref : Int]

\* Where the bytes of a connection are: of client cl with k unprocessed requests,
\* u and d bytes under way and the server's buffers s.
SentBytes(cl) == ReqLen * cl.begun - (IF cl.part = 0 THEN 0 ELSE ReqLen - cl.part)
Buffers(s) == /\ s.rx_off <= s.rx_len /\ s.rx_len < LenMod
              /\ s.tx_off <= s.tx_len /\ s.tx_len <= ResLen
Requests(cl, u, k, s) ==
    /\ k <= cl.begun /\ cl.answered <= cl.begun - k
    /\ ReqLen * (cl.begun - cl.answered) <= Window
    /\ SentBytes(cl) = u + (s.rx_len - s.rx_off) + ReqLen * (cl.begun - k)
Answers(cl, d, k, s) ==
    cl.open => ResLen * (cl.begun - k)
                 = (s.tx_len - s.tx_off) + d + cl.bytes + ResLen * cl.answered
Bytes(cl, u, d, k, s) == Buffers(s) /\ Requests(cl, u, k, s) /\ Answers(cl, d, k, s)

BytesInv == \A c \in Clients :
    conn[c].open => Bytes(client[c], up[c], down[c], Len(kinds[c]), conn[c])

\* What the buffers s of connection c may hold while the worker is at p for connection u.
Phase(p, u, c, s) ==
    IF u = c /\ p \in {"recv", "process", "send"}
    THEN /\ s.open
         /\ p = "recv" => s.rx_off = 0 /\ s.tx_len = 0
         /\ p = "process" => s.tx_len = 0
         /\ p = "send" => s.tx_off < s.tx_len
    ELSE s.open => IF s.wr THEN s.tx_off < s.tx_len ELSE s.rx_off = 0 /\ s.tx_len = 0

PhaseInv == pc # "abort" => \A c \in Clients : Phase(pc, cur, c, conn[c])

ServerInv == ServerTypes /\ BytesInv /\ PhaseInv

\* The connections start empty, with nothing sent.
LEMMA ServerInit == ASSUME Server!ServerAssumption PROVE Server!Init => ServerInv
<1> SUFFICES ASSUME Server!Init PROVE ServerInv
  OBVIOUS
<1>1. cur \in Clients
  BY DEF Server!Init, Server!ServerAssumption
<1>2. ServerTypes
  BY <1>1 DEF Server!Init, Server!ServerAssumption, Server!NewConn, ServerTypes, ServerClient, ServerState
<1>3. BytesInv
  BY DEF Server!Init, Server!ServerAssumption, Server!NewConn, BytesInv, Bytes, Buffers, Requests, Answers, SentBytes
<1>4. PhaseInv
  BY DEF Server!Init, Server!NewConn, PhaseInv, Phase
<1> QED
  BY <1>2, <1>3, <1>4 DEF ServerInv

\* Lengths that fit in 16 bits are subtracted as they are.
LEMMA SubIs ==
  ASSUME Server!ServerAssumption, NEW x \in Nat, NEW y \in 0 .. x, x < LenMod
  PROVE  Server!Sub(x, y) = x - y
  BY SMTT(60) DEF Server!Sub, Server!ServerAssumption

\* The invariant counts what ServerSafe states.
LEMMA ServerSafeHolds == ASSUME Server!ServerAssumption PROVE ServerInv => Server!ServerSafe
<1> SUFFICES ASSUME ServerInv, NEW c \in Clients, conn[c].open
             PROVE  LET cl == client[c] s == conn[c]
                        sent == ReqLen * cl.begun - (IF cl.part = 0 THEN 0 ELSE ReqLen - cl.part)
                        taken == cl.begun - Len(kinds[c])
                    IN /\ sent = up[c] + Server!Sub(s.rx_len, s.rx_off) + ReqLen * taken
                       /\ cl.open => ResLen * taken = Server!Sub(s.tx_len, s.tx_off) + down[c] + cl.bytes + ResLen * cl.answered
                       /\ s.wr /\ pc = "wait" => s.tx_off < s.tx_len
  BY DEF Server!ServerSafe
<1> DEFINE s == conn[c]
<1>1. /\ s.rx_len \in Nat /\ s.rx_off \in Nat /\ s.tx_len \in Nat /\ s.tx_off \in Nat
  BY DEF ServerInv, ServerTypes, ServerState
<1>2. Bytes(client[c], up[c], down[c], Len(kinds[c]), s)
  BY DEF ServerInv, BytesInv
<1>3. /\ Server!Sub(s.rx_len, s.rx_off) = s.rx_len - s.rx_off
      /\ Server!Sub(s.tx_len, s.tx_off) = s.tx_len - s.tx_off
  <2>1. s.rx_off \in 0 .. s.rx_len /\ s.rx_len < LenMod
    BY <1>1, <1>2 DEF Bytes, Buffers, Server!ServerAssumption
  <2>2. s.tx_off \in 0 .. s.tx_len /\ s.tx_len < LenMod
    BY <1>1, <1>2 DEF Bytes, Buffers, Server!ServerAssumption
  <2> QED
    BY <1>1, <2>1, <2>2, SubIs
<1>4. s.wr /\ pc = "wait" => s.tx_off < s.tx_len
  BY DEF ServerInv, PhaseInv, Phase
<1> QED
  BY <1>2, <1>3, <1>4, Zenon DEF Bytes, Requests, Answers, SentBytes
\* A step that leaves all connections but c alone keeps the count if it does so for c.
LEMMA BytesOfOne ==
  ASSUME BytesInv, NEW c \in Clients,
         \A e \in Clients \ {c} : /\ client'[e] = client[e] /\ up'[e] = up[e] /\ down'[e] = down[e]
                                /\ kinds'[e] = kinds[e] /\ conn'[e] = conn[e],
         conn'[c].open => Bytes(client'[c], up'[c], down'[c], Len(kinds'[c]), conn'[c])
  PROVE  BytesInv'
<1> SUFFICES ASSUME NEW e \in Clients, conn'[e].open
             PROVE  Bytes(client'[e], up'[e], down'[e], Len(kinds'[e]), conn'[e])
  BY DEF BytesInv
<1>1. CASE e = c
  BY <1>1, Zenon
<1>2. CASE e # c
  <2>1. Bytes(client[e], up[e], down[e], Len(kinds[e]), conn[e])
    BY <1>2, Zenon DEF BytesInv
  <2> QED
    BY <1>2, <2>1, Zenon
<1> QED
  BY <1>1, <1>2

\* A request begun is one more of those sent and not processed ...
LEMMA BeginRequest ==
  ASSUME Server!ServerAssumption, NEW cl \in ServerClient, NEW new \in ServerClient,
         NEW u \in Nat, NEW k \in Nat, NEW s \in ServerState, NEW n \in 1 .. ReqLen,
         Requests(cl, u, k, s), cl.part = 0,
         ReqLen * (cl.begun - cl.answered) + ReqLen <= Window,
         new.begun = cl.begun + 1, new.part = (cl.part + n) % ReqLen,
         new.answered = cl.answered
  PROVE  Requests(new, u + n, k + 1, s)
<1>1. ReqLen \in Nat \ {0}
  BY DEF Server!ServerAssumption
<1>2. /\ cl.begun \in Nat /\ cl.answered \in Nat
      /\ s.rx_len \in Nat /\ s.rx_off \in Nat
  BY DEF ServerClient, ServerState
<1>3. new.part = IF n = ReqLen THEN 0 ELSE n
  <2>1. CASE n = ReqLen
    BY <1>1, <2>1, SMTT(30)
  <2>2. CASE n # ReqLen
    <3>1. n \in 0 .. ReqLen - 1
      BY <2>2, <1>1
    <3> QED
      BY <3>1, <1>1, <2>2, SMTT(30)
  <2> QED
    BY <2>1, <2>2
<1>4. ReqLen * (cl.begun + 1) = ReqLen * cl.begun + ReqLen
  BY <1>1, <1>2
<1>5. ReqLen * (cl.begun + 1 - cl.answered) = ReqLen * (cl.begun - cl.answered) + ReqLen
  BY <1>1, <1>2
<1>6. SentBytes(new) = SentBytes(cl) + n
  BY <1>1, <1>2, <1>3, <1>4 DEF SentBytes
<1>7. cl.begun + 1 - (k + 1) = cl.begun - k
  BY <1>2
<1>8. ReqLen * (cl.begun - k) \in Int
  BY <1>1, <1>2
<1>9. SentBytes(new) = (u + n) + (s.rx_len - s.rx_off) + ReqLen * (new.begun - (k + 1))
  BY <1>2, <1>6, <1>7, <1>8 DEF Requests
<1> QED
  BY <1>2, <1>5, <1>9 DEF Requests

\* ... and the bytes that finish it are so many more.
LEMMA ContinueRequest ==
  ASSUME Server!ServerAssumption, NEW cl \in ServerClient, NEW new \in ServerClient,
         NEW u \in Nat, NEW k \in Nat, NEW s \in ServerState, NEW n \in 1 .. ReqLen,
         Requests(cl, u, k, s), cl.part # 0, n <= ReqLen - cl.part,
         new.begun = cl.begun, new.part = (cl.part + n) % ReqLen,
         new.answered = cl.answered
  PROVE  Requests(new, u + n, k, s)
<1>1. ReqLen \in Nat \ {0}
  BY DEF Server!ServerAssumption
<1>2. /\ cl.begun \in Nat /\ cl.answered \in Nat /\ cl.part \in 0 .. ReqLen - 1
      /\ s.rx_len \in Nat /\ s.rx_off \in Nat
  BY DEF ServerClient, ServerState
<1>3. new.part = IF cl.part + n = ReqLen THEN 0 ELSE cl.part + n
  <2>1. CASE cl.part + n = ReqLen
    BY <1>1, <2>1, SMTT(30)
  <2>2. CASE cl.part + n # ReqLen
    <3>1. cl.part + n \in 0 .. ReqLen - 1
      BY <2>2, <1>1, <1>2
    <3> QED
      BY <3>1, <1>1, <2>2, SMTT(30)
  <2> QED
    BY <2>1, <2>2
<1>4. SentBytes(new) = SentBytes(cl) + n
  <2>1. ReqLen * cl.begun \in Int
    BY <1>1, <1>2
  <2>2. SentBytes(cl) = ReqLen * cl.begun - (ReqLen - cl.part)
    BY DEF SentBytes
  <2>3. SentBytes(new) = ReqLen * cl.begun - (ReqLen - (cl.part + n))
    <3>1. CASE cl.part + n = ReqLen
      BY <1>1, <1>2, <1>3, <2>1, <3>1 DEF SentBytes
    <3>2. CASE cl.part + n # ReqLen
      <4>1. new.part = cl.part + n /\ new.part # 0
        BY <1>2, <1>3, <3>2
      <4> QED
        BY <4>1 DEF SentBytes
    <3> QED
      BY <3>1, <3>2
  <2> QED
    BY <1>1, <1>2, <2>1, <2>2, <2>3
<1>5. ReqLen * (cl.begun - k) \in Int
  BY <1>1, <1>2
<1>6. SentBytes(new) = (u + n) + (s.rx_len - s.rx_off) + ReqLen * (new.begun - k)
  BY <1>2, <1>4, <1>5 DEF Requests
<1> QED
  BY <1>2, <1>6 DEF Requests

\* A client that sends leaves the server as it is.
LEMMA SendStep ==
  ASSUME Server!ServerAssumption, ServerInv, NEW c \in Clients, NEW n \in 1 .. ReqLen,
         Server!Send(c, n)
  PROVE  ServerInv'
<1> DEFINE cl == client[c]
           b == IF cl.part = 0 THEN cl.begun + 1 ELSE cl.begun
           p == (cl.part + n) % ReqLen
           new == [cl EXCEPT !.begun = b, !.part = p]
<1>1. /\ cl \in ServerClient /\ up[c] \in Nat /\ conn[c] \in ServerState
      /\ kinds[c] \in Seq({"GET", "SET"}) /\ Len(kinds[c]) \in Nat
      /\ cl.begun \in Nat
  BY DEF ServerInv, ServerTypes, ServerClient
<1>2. ReqLen \in Nat \ {0}
  BY DEF Server!ServerAssumption
<1>3. p \in 0 .. ReqLen - 1 /\ b \in Nat
  <2>1. cl.part + n \in Nat
    BY <1>1, <1>2 DEF ServerClient
  <2>2. p \in 0 .. ReqLen - 1
    BY <1>2, <2>1
  <2>3. b \in Nat
    BY <1>1
  <2> QED
    BY <2>2, <2>3
<1>4. new \in ServerClient
  <2> HIDE DEF b, p
  <2> QED
    BY <1>1, <1>3 DEF ServerClient
<1>5. /\ new.begun = b /\ new.part = p /\ new.answered = cl.answered
      /\ new.bytes = cl.bytes /\ new.open = cl.open
  <2> HIDE DEF b, p
  <2> QED
    BY <1>1 DEF ServerClient
<1>6. /\ client' = [client EXCEPT ![c] = new] /\ up' = [up EXCEPT ![c] = @ + n]
      /\ UNCHANGED <<down, conn, pc, cur, item>>
      /\ n <= ReqLen - cl.part
      /\ cl.part = 0 => ReqLen * (cl.begun - cl.answered) + ReqLen <= Window
  BY DEF Server!Send, Server!Unanswered, ServerInv, ServerTypes
<1>7. /\ kinds' \in [Clients -> Seq({"GET", "SET"})]
      /\ Len(kinds'[c]) = IF cl.part = 0 THEN Len(kinds[c]) + 1 ELSE Len(kinds[c])
      /\ \A e \in Clients \ {c} : kinds'[e] = kinds[e]
  <2>1. kinds \in [Clients -> Seq({"GET", "SET"})]
    BY DEF ServerInv, ServerTypes
  <2>2. CASE cl.part = 0
    <3>1. PICK k \in {"GET", "SET"} : kinds' = [kinds EXCEPT ![c] = Append(@, k)]
      BY <2>2 DEF Server!Send
    <3>2. Append(kinds[c], k) \in Seq({"GET", "SET"}) /\ Len(Append(kinds[c], k)) = Len(kinds[c]) + 1
      BY <1>1
    <3> QED
      BY <2>1, <2>2, <3>1, <3>2
  <2>3. CASE cl.part # 0
    BY <2>1, <2>3 DEF Server!Send
  <2> QED
    BY <2>2, <2>3
<1> HIDE DEF b, p, new
<1>8. ServerTypes'
  <2>1. /\ client \in [Clients -> ServerClient] /\ up \in [Clients -> Nat]
        /\ down \in [Clients -> 0 .. SockSpace] /\ conn \in [Clients -> ServerState]
        /\ pc \in {"wait", "recv", "process", "send", "abort"}
        /\ cur \in Clients /\ item \in [stored : BOOLEAN, ref : Int]
    BY DEF ServerInv, ServerTypes
  <2>2. client' \in [Clients -> ServerClient]
    BY <1>4, <1>6, <2>1, Zenon
  <2>3. up[c] + n \in Nat
    BY <1>1
  <2>4. up' \in [Clients -> Nat]
    BY <1>6, <2>1, <2>3, Zenon
  <2> QED
    BY <1>6, <1>7, <2>1, <2>2, <2>4, Zenon DEF ServerTypes
<1>9. client'[c] = new /\ up'[c] = up[c] + n /\ down'[c] = down[c] /\ conn'[c] = conn[c]
  BY <1>6 DEF ServerInv, ServerTypes
<1>10. ASSUME conn[c].open
       PROVE  Bytes(new, up[c] + n, down[c], Len(kinds'[c]), conn[c])
  <2>1. Buffers(conn[c]) /\ Requests(cl, up[c], Len(kinds[c]), conn[c])
        /\ Answers(cl, down[c], Len(kinds[c]), conn[c])
    BY <1>10 DEF ServerInv, BytesInv, Bytes
  <2>2. Requests(new, up[c] + n, Len(kinds'[c]), conn[c])
    <3>1. CASE cl.part = 0
      <4>1. new.begun = cl.begun + 1 /\ Len(kinds'[c]) = Len(kinds[c]) + 1
        BY <1>5, <1>7, <3>1 DEF b
      <4>2. Requests(new, up[c] + n, Len(kinds[c]) + 1, conn[c])
        BY <1>1, <1>4, <1>5, <1>6, <2>1, <3>1, <4>1, BeginRequest DEF p
      <4> QED
        BY <4>1, <4>2
    <3>2. CASE cl.part # 0
      <4>1. new.begun = cl.begun /\ Len(kinds'[c]) = Len(kinds[c])
        BY <1>5, <1>7, <3>2 DEF b
      <4>2. Requests(new, up[c] + n, Len(kinds[c]), conn[c])
        BY <1>1, <1>4, <1>5, <1>6, <2>1, <3>2, <4>1, ContinueRequest DEF p
      <4> QED
        BY <4>1, <4>2
    <3> QED
      BY <3>1, <3>2
  <2>3. new.begun - Len(kinds'[c]) = cl.begun - Len(kinds[c])
    <3>1. CASE cl.part = 0
      BY <1>1, <1>5, <1>7, <3>1 DEF b
    <3>2. CASE cl.part # 0
      BY <1>1, <1>5, <1>7, <3>2 DEF b
    <3> QED
      BY <3>1, <3>2
  <2>4. Answers(new, down[c], Len(kinds'[c]), conn[c])
    BY <1>5, <2>1, <2>3, Zenon DEF Answers
  <2> QED
    BY <2>1, <2>2, <2>4, Zenon DEF Bytes
<1>11. BytesInv'
  <2>1. \A e \in Clients \ {c} : /\ client'[e] = client[e] /\ up'[e] = up[e] /\ down'[e] = down[e]
                                 /\ kinds'[e] = kinds[e] /\ conn'[e] = conn[e]
    BY <1>6, <1>7 DEF ServerInv, ServerTypes
  <2>2. conn'[c].open => Bytes(client'[c], up'[c], down'[c], Len(kinds'[c]), conn'[c])
    BY <1>9, <1>10, Zenon
  <2> QED
    BY <2>1, <2>2, BytesOfOne DEF ServerInv
<1>12. PhaseInv'
  BY <1>6 DEF ServerInv, PhaseInv, Phase
<1> QED
  BY <1>8, <1>11, <1>12 DEF ServerInv
\* Multiplying keeps the order.
LEMMA Monotone ==
  ASSUME NEW R \in Nat, NEW x \in Int, NEW y \in Int, x <= y
  PROVE  R * x <= R * y
  BY SMTT(60)

\* A number is a multiple and a remainder.
LEMMA Quotient ==
  ASSUME NEW R \in Nat \ {0}, NEW x \in Nat
  PROVE  x % R \in 0 .. R - 1 /\ x \div R \in Nat /\ x = R * (x \div R) + (x % R)
<1>1. x % R \in 0 .. R - 1
  OBVIOUS
<1>2. x = R * (x \div R) + (x % R)
  BY SMTT(60)
<1>3. x \div R \in Nat
  <2> DEFINE d == x \div R
             r == x % R
  <2>1. d \in Int /\ R * d \in Int
    OBVIOUS
  <2>2. r < R /\ r \in Int
    BY <1>1
  <2>3. x = R * d + r
    BY <1>2
  <2> HIDE DEF d, r
  <2>4. ASSUME d <= -1 PROVE FALSE
    <3>1. R * d <= R * (-1)
      BY <2>1, <2>4, Monotone
    <3>2. R * d <= -R
      BY <3>1
    <3>3. R * d + r < 0
      BY <2>1, <2>2, <3>2
    <3>4. x < 0
      BY <2>3, <3>3, Zenon
    <3> QED
      BY <3>4
  <2>5. d \in Nat
    BY <2>1, <2>4
  <2> QED
    BY <2>5 DEF d
<1> QED
  BY <1>1, <1>2, <1>3, Zenon

\* Multiplying with a number that is not zero can be undone.
LEMMA Cancel ==
  ASSUME NEW R \in Nat \ {0}, NEW x \in Int, NEW y \in Int, R * x <= R * y
  PROVE  x <= y
<1> SUFFICES ASSUME ~(x <= y) PROVE FALSE
  OBVIOUS
<1>1. x - y >= 1 /\ x - y \in Int
  OBVIOUS
<1>2. R * 1 <= R * (x - y)
  BY <1>1, Monotone
<1>3. R * (x - y) = R * x - R * y
  BY SMTT(60)
<1> QED
  BY <1>2, <1>3

\* The bytes a client reads are answers it has, and never more than were given.
LEMMA ReadAnswers ==
  ASSUME Server!ServerAssumption, NEW cl \in ServerClient, NEW new \in ServerClient,
         NEW u \in Nat, NEW d \in Nat, NEW k \in Nat, NEW s \in ServerState,
         Bytes(cl, u, d, k, s), cl.open,
         new.begun = cl.begun, new.part = cl.part, new.open = cl.open,
         new.bytes = (cl.bytes + d) % ResLen,
         new.answered = cl.answered + (cl.bytes + d) \div ResLen
  PROVE  Bytes(new, u, 0, k, s)
<1>1. ResLen \in Nat \ {0} /\ ReqLen \in Nat
  BY DEF Server!ServerAssumption
<1>2. /\ cl.begun \in Nat /\ cl.answered \in Nat /\ cl.bytes \in Nat
      /\ s.rx_len \in Nat /\ s.rx_off \in Nat /\ s.tx_len \in Nat /\ s.tx_off \in Nat
  BY DEF ServerClient, ServerState
<1> DEFINE x == cl.bytes + d
           e == x \div ResLen
           r == x % ResLen
<1>3. x \in Nat
  BY <1>2
<1>4. r \in 0 .. ResLen - 1 /\ e \in Nat /\ x = ResLen * e + r
  BY <1>1, <1>3, Quotient
<1>5. ResLen * (cl.begun - k) = (s.tx_len - s.tx_off) + x + ResLen * cl.answered
  BY <1>2, <1>1 DEF Bytes, Answers
<1>6. new.answered = cl.answered + e /\ new.bytes = r
  OBVIOUS
<1> HIDE DEF x, e, r
<1>7. ResLen * (cl.answered + e) = ResLen * cl.answered + ResLen * e
  BY <1>1, <1>2, <1>4
<1>8. ResLen * cl.answered \in Int /\ ResLen * e \in Int /\ s.tx_off <= s.tx_len
  BY <1>1, <1>2, <1>4 DEF Bytes, Buffers
<1>9. ResLen * (cl.begun - k) = (s.tx_len - s.tx_off) + r + ResLen * (cl.answered + e)
  BY <1>2, <1>4, <1>5, <1>7, <1>8
<1>10. Answers(new, 0, k, s)
  BY <1>1, <1>2, <1>4, <1>6, <1>9 DEF Answers
<1>11. cl.answered + e <= cl.begun - k
  <2>1. ResLen * (cl.answered + e) <= ResLen * (cl.begun - k)
    BY <1>1, <1>2, <1>4, <1>8, <1>9
  <2> QED
    BY <1>1, <1>2, <1>4, <2>1, Cancel
<1>12. ReqLen * (cl.begun - (cl.answered + e)) <= Window
  <2>1. ReqLen * (cl.begun - (cl.answered + e)) <= ReqLen * (cl.begun - cl.answered)
    BY <1>1, <1>2, <1>4, Monotone
  <2>2. ReqLen * (cl.begun - cl.answered) <= Window /\ Window \in Nat
    BY DEF Bytes, Requests, Server!ServerAssumption
  <2>3. /\ ReqLen * (cl.begun - (cl.answered + e)) \in Int
        /\ ReqLen * (cl.begun - cl.answered) \in Int
    BY <1>1, <1>2, <1>4
  <2> QED
    BY <2>1, <2>2, <2>3
<1>13. SentBytes(new) = SentBytes(cl)
  BY DEF SentBytes
<1>14. Requests(new, u, k, s)
  BY <1>6, <1>11, <1>12, <1>13 DEF Bytes, Requests
<1> QED
  BY <1>10, <1>14 DEF Bytes

\* A client that reads leaves the server as it is ...
LEMMA ReceiveStep ==
  ASSUME Server!ServerAssumption, ServerInv, NEW c \in Clients, Server!Receive(c)
  PROVE  ServerInv'
<1> DEFINE cl == client[c]
           x == cl.bytes + down[c]
           new == [cl EXCEPT !.bytes = x % ResLen, !.answered = @ + x \div ResLen]
<1>1. /\ cl \in ServerClient /\ up[c] \in Nat /\ down[c] \in Nat /\ conn[c] \in ServerState
      /\ kinds[c] \in Seq({"GET", "SET"}) /\ Len(kinds[c]) \in Nat
      /\ cl.answered \in Nat /\ cl.bytes \in Nat
  BY DEF ServerInv, ServerTypes, ServerClient
<1>2. ResLen \in Nat \ {0} /\ SockSpace \in Nat
  BY DEF Server!ServerAssumption
<1>3. x \in Nat
  BY <1>1
<1>4. x % ResLen \in Nat /\ x \div ResLen \in Nat
  <2> HIDE DEF x
  <2> QED
    BY <1>2, <1>3, Quotient
<1>5. /\ client' = [client EXCEPT ![c] = new] /\ down' = [down EXCEPT ![c] = 0]
      /\ UNCHANGED <<up, kinds, conn, pc, cur, item>> /\ cl.open
  BY DEF Server!Receive, ServerInv, ServerTypes
<1>6. cl.answered + x \div ResLen \in Nat
  <2> HIDE DEF x
  <2> QED
    BY <1>1, <1>4
<1>7. new \in ServerClient
  <2> HIDE DEF x
  <2> QED
    BY <1>1, <1>4, <1>6 DEF ServerClient
<1>8. /\ new.begun = cl.begun /\ new.part = cl.part /\ new.open = cl.open
      /\ new.bytes = x % ResLen /\ new.answered = cl.answered + x \div ResLen
  <2> HIDE DEF x
  <2> QED
    BY <1>1 DEF ServerClient
<1> HIDE DEF new
<1>9. ServerTypes'
  <2>1. /\ client \in [Clients -> ServerClient] /\ up \in [Clients -> Nat]
        /\ down \in [Clients -> 0 .. SockSpace] /\ conn \in [Clients -> ServerState]
        /\ kinds \in [Clients -> Seq({"GET", "SET"})]
        /\ pc \in {"wait", "recv", "process", "send", "abort"}
        /\ cur \in Clients /\ item \in [stored : BOOLEAN, ref : Int]
    BY DEF ServerInv, ServerTypes
  <2>2. client' \in [Clients -> ServerClient]
    BY <1>5, <1>7, <2>1, Zenon
  <2>3. 0 \in 0 .. SockSpace
    BY <1>2
  <2>4. down' \in [Clients -> 0 .. SockSpace]
    BY <1>5, <2>1, <2>3, Zenon
  <2> QED
    BY <1>5, <2>1, <2>2, <2>4, Zenon DEF ServerTypes
<1>10. BytesInv'
  <2>1. \A e \in Clients \ {c} : /\ client'[e] = client[e] /\ up'[e] = up[e] /\ down'[e] = down[e]
                                 /\ kinds'[e] = kinds[e] /\ conn'[e] = conn[e]
    BY <1>5 DEF ServerInv, ServerTypes
  <2>2. client'[c] = new /\ up'[c] = up[c] /\ down'[c] = 0 /\ kinds'[c] = kinds[c] /\ conn'[c] = conn[c]
    BY <1>5 DEF ServerInv, ServerTypes
  <2>3. ASSUME conn[c].open PROVE Bytes(new, up[c], 0, Len(kinds[c]), conn[c])
    <3>1. Bytes(cl, up[c], down[c], Len(kinds[c]), conn[c])
      BY <2>3 DEF ServerInv, BytesInv
    <3> HIDE DEF cl
    <3> QED
      BY <1>1, <1>5, <1>7, <1>8, <3>1, ReadAnswers
  <2>4. conn'[c].open => Bytes(client'[c], up'[c], down'[c], Len(kinds'[c]), conn'[c])
    BY <2>2, <2>3, Zenon
  <2> QED
    BY <2>1, <2>4, BytesOfOne DEF ServerInv
<1>11. PhaseInv'
  BY <1>5 DEF ServerInv, PhaseInv, Phase
<1> QED
  BY <1>9, <1>10, <1>11 DEF ServerInv

\* ... and so does one that closes.
LEMMA QuitStep ==
  ASSUME Server!ServerAssumption, ServerInv, NEW c \in Clients, Server!Quit(c)
  PROVE  ServerInv'
<1> DEFINE new == [client[c] EXCEPT !.open = FALSE]
<1>1. new \in ServerClient
  BY DEF ServerInv, ServerTypes, ServerClient
<1>2. /\ ~new.open /\ new.begun = client[c].begun /\ new.part = client[c].part
      /\ new.answered = client[c].answered
  BY DEF ServerInv, ServerTypes, ServerClient
<1>3. /\ client' = [client EXCEPT ![c] = new]
      /\ UNCHANGED <<up, down, kinds, conn, pc, cur, item>>
  BY DEF Server!Quit
<1> HIDE DEF new
<1>4. ServerTypes'
  BY <1>1, <1>3 DEF ServerInv, ServerTypes
<1>5. BytesInv'
  <2>1. \A e \in Clients \ {c} : /\ client'[e] = client[e] /\ up'[e] = up[e] /\ down'[e] = down[e]
                                 /\ kinds'[e] = kinds[e] /\ conn'[e] = conn[e]
    BY <1>3 DEF ServerInv, ServerTypes
  <2>2. client'[c] = new /\ up'[c] = up[c] /\ down'[c] = down[c] /\ kinds'[c] = kinds[c] /\ conn'[c] = conn[c]
    BY <1>3 DEF ServerInv, ServerTypes
  <2>3. ASSUME conn[c].open PROVE Bytes(new, up[c], down[c], Len(kinds[c]), conn[c])
    <3>1. Bytes(client[c], up[c], down[c], Len(kinds[c]), conn[c])
      BY <2>3 DEF ServerInv, BytesInv
    <3>2. SentBytes(new) = SentBytes(client[c])
      BY <1>2 DEF SentBytes
    <3> QED
      BY <1>2, <3>1, <3>2, Zenon DEF Bytes, Requests, Answers
  <2>4. conn'[c].open => Bytes(client'[c], up'[c], down'[c], Len(kinds'[c]), conn'[c])
    BY <2>2, <2>3, Zenon
  <2> QED
    BY <2>1, <2>4, BytesOfOne DEF ServerInv
<1>6. PhaseInv'
  BY <1>3 DEF ServerInv, PhaseInv, Phase
<1> QED
  BY <1>4, <1>5, <1>6 DEF ServerInv
\* What the worker does for a connection is the business of that connection only.
LEMMA PhaseOfOne ==
  ASSUME ServerInv, pc \in {"recv", "process", "send"}, cur' = cur,
         NEW new \in ServerState, conn' = [conn EXCEPT ![cur] = new],
         pc' # "abort" => Phase(pc', cur, cur, new)
  PROVE  PhaseInv'
<1> SUFFICES ASSUME pc' # "abort", NEW e \in Clients PROVE Phase(pc', cur', e, conn'[e])
  BY DEF PhaseInv
<1>1. cur \in Clients /\ conn \in [Clients -> ServerState]
  BY DEF ServerInv, ServerTypes
<1>2. CASE e = cur
  BY <1>1, <1>2
<1>3. CASE e # cur
  <2>1. conn'[e] = conn[e]
    BY <1>1, <1>3
  <2>2. Phase(pc, cur, e, conn[e])
    BY DEF ServerInv, PhaseInv
  <2> QED
    BY <1>3, <2>1, <2>2 DEF Phase
<1> QED
  BY <1>2, <1>3

\* A step of the worker for the connection it serves.
LEMMA ServeStep ==
  ASSUME ServerInv, pc \in {"recv", "process", "send"}, cur' = cur, client' = client,
         pc' \in {"wait", "recv", "process", "send", "abort"},
         NEW u \in Nat, NEW d \in 0 .. SockSpace, NEW ks \in Seq({"GET", "SET"}),
         NEW new \in ServerState, item' \in [stored : BOOLEAN, ref : Int],
         up' = [up EXCEPT ![cur] = u], down' = [down EXCEPT ![cur] = d],
         kinds' = [kinds EXCEPT ![cur] = ks], conn' = [conn EXCEPT ![cur] = new],
         new.open => Bytes(client[cur], u, d, Len(ks), new),
         pc' # "abort" => Phase(pc', cur, cur, new)
  PROVE  ServerInv'
<1>1. /\ client \in [Clients -> ServerClient] /\ up \in [Clients -> Nat]
      /\ down \in [Clients -> 0 .. SockSpace] /\ conn \in [Clients -> ServerState]
      /\ kinds \in [Clients -> Seq({"GET", "SET"})] /\ cur \in Clients
  BY DEF ServerInv, ServerTypes
<1>2. ServerTypes'
  <2>1. /\ up' \in [Clients -> Nat] /\ down' \in [Clients -> 0 .. SockSpace]
        /\ kinds' \in [Clients -> Seq({"GET", "SET"})] /\ conn' \in [Clients -> ServerState]
    BY <1>1, Zenon
  <2> QED
    BY <1>1, <2>1, Zenon DEF ServerTypes
<1>3. BytesInv'
  <2>1. \A e \in Clients \ {cur} : /\ client'[e] = client[e] /\ up'[e] = up[e] /\ down'[e] = down[e]
                                   /\ kinds'[e] = kinds[e] /\ conn'[e] = conn[e]
    BY <1>1
  <2>2. /\ client'[cur] = client[cur] /\ up'[cur] = u /\ down'[cur] = d /\ kinds'[cur] = ks
        /\ conn'[cur] = new
    BY <1>1
  <2>3. conn'[cur].open => Bytes(client'[cur], up'[cur], down'[cur], Len(kinds'[cur]), conn'[cur])
    BY <2>2, Zenon
  <2>4. BytesInv
    BY DEF ServerInv
  <2> QED
    BY <1>1, <2>1, <2>3, <2>4, BytesOfOne
<1>4. PhaseInv'
  BY PhaseOfOne
<1> QED
  BY <1>2, <1>3, <1>4 DEF ServerInv

\* The connection of an event is served as it is registered.
LEMMA EventStep ==
  ASSUME Server!ServerAssumption, ServerInv, NEW c \in Clients, Server!Event(c)
  PROVE  ServerInv'
<1>1. /\ pc = "wait" /\ conn[c].open /\ cur' = c
      /\ pc' = IF conn[c].wr THEN "send" ELSE "recv"
      /\ UNCHANGED <<client, up, down, kinds, conn, item>>
  BY DEF Server!Event, Server!Goto
<1>2. ServerTypes'
  BY <1>1 DEF ServerInv, ServerTypes
<1>3. BytesInv'
  BY <1>1 DEF ServerInv, BytesInv
<1>4. PhaseInv'
  BY <1>1 DEF ServerInv, PhaseInv, Phase
<1> QED
  BY <1>2, <1>3, <1>4 DEF ServerInv

\* A connection that is closed no longer counts.
LEMMA CloseStep ==
  ASSUME ServerInv, NEW c \in Clients, Server!conn_close(c), c = cur \/ pc = "wait",
         pc # "abort", UNCHANGED <<client, up, down, kinds, cur>>
  PROVE  ServerInv'
<1> DEFINE new == [Server!NewConn EXCEPT !.open = FALSE]
<1>1. new \in ServerState /\ ~new.open
  BY DEF Server!NewConn, ServerState
<1>2. conn' = [conn EXCEPT ![c] = new]
  BY Zenon DEF Server!conn_close
<1>3. pc' \in {"wait", "abort"} /\ item' \in [stored : BOOLEAN, ref : Int]
  <2>1. item \in [stored : BOOLEAN, ref : Int]
    BY DEF ServerInv, ServerTypes
  <2>2. item.ref - 1 \in Int /\ [item EXCEPT !.ref = item.ref - 1] \in [stored : BOOLEAN, ref : Int]
    BY <2>1
  <2>3. \/ pc' \in {"wait", "abort"} /\ item' = item
        \/ pc' = "wait" /\ item' = [item EXCEPT !.ref = item.ref - 1]
    <3>1. CASE conn[c].it
      BY <3>1, Zenon DEF Server!conn_close, Server!Unref, Server!Goto
    <3>2. CASE ~conn[c].it
      BY <3>2, Zenon DEF Server!conn_close, Server!Goto
    <3> QED
      BY <3>1, <3>2
  <2> QED
    BY <2>1, <2>2, <2>3, Zenon
<1> HIDE DEF new
<1>4. ServerTypes'
  BY <1>1, <1>2, <1>3 DEF ServerInv, ServerTypes
<1>5. conn'[c] = new /\ \A e \in Clients \ {c} : conn'[e] = conn[e]
  BY <1>2 DEF ServerInv, ServerTypes
<1>6. BytesInv'
  BY <1>1, <1>5 DEF ServerInv, BytesInv
<1>7. PhaseInv'
  <2> SUFFICES ASSUME pc' = "wait", NEW e \in Clients PROVE Phase("wait", cur', e, conn'[e])
    BY <1>3 DEF PhaseInv
  <2>1. CASE e = c
    BY <1>1, <1>5, <2>1 DEF Phase
  <2>2. CASE e # c
    <3>1. Phase(pc, cur, e, conn[e])
      BY DEF ServerInv, PhaseInv
    <3> QED
      BY <1>5, <2>2, <3>1 DEF Phase
  <2> QED
    BY <2>1, <2>2
<1> QED
  BY <1>4, <1>6, <1>7 DEF ServerInv

\* The bytes of the requests sent and not processed are at most those of whole
\* requests.
LEMMA Unprocessed ==
  ASSUME Server!ServerAssumption, NEW cl \in ServerClient, NEW u \in Nat, NEW k \in Nat,
         NEW s \in ServerState, Requests(cl, u, k, s)
  PROVE  u + (s.rx_len - s.rx_off) <= ReqLen * k
<1>1. ReqLen \in Nat \ {0}
  BY DEF Server!ServerAssumption
<1>2. /\ cl.begun \in Nat /\ cl.answered \in Nat /\ cl.part \in 0 .. ReqLen - 1
      /\ s.rx_len \in Nat /\ s.rx_off \in Nat
  BY DEF ServerClient, ServerState
<1>3. ReqLen * (cl.begun - k) = ReqLen * cl.begun - ReqLen * k
  BY <1>1, <1>2
<1>4. ReqLen * cl.begun \in Int /\ ReqLen * k \in Int
  BY <1>1, <1>2
<1>5. SentBytes(cl) <= ReqLen * cl.begun /\ SentBytes(cl) \in Int
  BY <1>1, <1>2, <1>4 DEF SentBytes
<1>6. u + (s.rx_len - s.rx_off) <= ReqLen * k
  BY <1>2, <1>3, <1>4, <1>5 DEF Requests
<1> QED
  BY <1>6

\* A sum that fits in 16 bits is kept as it is.
LEMMA SumFits ==
  ASSUME Server!ServerAssumption, NEW x \in Nat, x < LenMod
  PROVE  x % LenMod = x
  BY SMTT(60) DEF Server!ServerAssumption

\* Receiving takes bytes from the socket into the receive buffer.
LEMMA RecvStep ==
  ASSUME Server!ServerAssumption, ServerInv, Server!conn_recv, ~overrun'
  PROVE  ServerInv'
<1> DEFINE c == cur
           s == conn[c]
           n == IF up[c] <= MAX_MSGSIZE - s.rx_len THEN up[c] ELSE MAX_MSGSIZE - s.rx_len
           more == [s EXCEPT !.rx_len = (@ + n) % LenMod]
<1>1. /\ c \in Clients /\ client[c] \in ServerClient /\ up[c] \in Nat /\ down[c] \in 0 .. SockSpace
      /\ kinds[c] \in Seq({"GET", "SET"}) /\ Len(kinds[c]) \in Nat /\ s \in ServerState
      /\ up \in [Clients -> Nat] /\ down \in [Clients -> 0 .. SockSpace]
      /\ conn \in [Clients -> ServerState] /\ kinds \in [Clients -> Seq({"GET", "SET"})]
      /\ item \in [stored : BOOLEAN, ref : Int]
      /\ s.rx_len \in Nat /\ s.rx_off \in Nat /\ s.tx_len \in Nat /\ s.tx_off \in Nat
  BY DEF ServerInv, ServerTypes, ServerState
<1>2. pc = "recv" /\ UNCHANGED <<client, down, kinds, cur>>
  BY DEF Server!conn_recv
<1>3. s.open /\ s.rx_off = 0 /\ s.tx_len = 0
  BY <1>1, <1>2 DEF ServerInv, PhaseInv, Phase
<1>4. Bytes(client[c], up[c], down[c], Len(kinds[c]), s)
  BY <1>1, <1>3 DEF ServerInv, BytesInv
<1>5. MAX_MSGSIZE \in Nat /\ LenMod <= MAX_MSGSIZE /\ LenMod \in Nat
  BY DEF Server!ServerAssumption
<1>6. s.rx_len < LenMod
  BY <1>4 DEF Bytes, Buffers
<1>7. n \in 0 .. up[c]
  BY <1>1, <1>5, <1>6
<1>8. CASE n # 0
  <2>12. s.rx_len + n \in Nat /\ s.rx_len + n < LenMod
    <3>1. ~(s.rx_len + n >= LenMod)
      <4>1. overrun' = (s.rx_len + n >= LenMod)
        BY <1>8, Zenon DEF Server!conn_recv
      <4> QED
        BY <4>1
    <3> QED
      BY <1>1, <1>5, <1>7, <3>1
  <2>1. (s.rx_len + n) % LenMod = s.rx_len + n
    BY <2>12, SumFits
  <2>2. /\ conn' = [conn EXCEPT ![c] = more] /\ up' = [up EXCEPT ![c] = up[c] - n]
        /\ pc' \in {"process", "recv"} /\ item' = item
    <3>1. /\ conn' = [conn EXCEPT ![c] = more] /\ up' = [up EXCEPT ![c] = up[c] - n]
          /\ pc' = (IF Server!Complete(more) THEN "process" ELSE "recv") /\ item' = item
      BY <1>8, Zenon DEF Server!conn_recv, Server!Goto
    <3>2. pc' \in {"process", "recv"}
      BY <3>1, Zenon
    <3> QED
      BY <3>1, <3>2, Zenon
  <2> HIDE DEF n
  <2>3. more = [s EXCEPT !.rx_len = s.rx_len + n]
    BY <2>1
  <2>11. s.rx_len + n \in Nat
    BY <1>1, <1>7
  <2> HIDE DEF more
  <2>4. /\ more \in ServerState /\ more.rx_len = s.rx_len + n /\ more.rx_off = s.rx_off
        /\ more.tx_len = s.tx_len /\ more.tx_off = s.tx_off /\ more.open = s.open
    BY <1>1, <2>3, <2>11 DEF ServerState
  <2>5. up[c] - n \in Nat
    BY <1>1, <1>7
  <2>6. (up[c] - n) + (more.rx_len - more.rx_off) = up[c] + (s.rx_len - s.rx_off)
    BY <1>1, <1>7, <2>4
  <2>7. Buffers(more)
    BY <1>1, <1>4, <1>5, <1>7, <2>4, <2>12 DEF Bytes, Buffers
  <2>8. Bytes(client[c], up[c] - n, down[c], Len(kinds[c]), more)
    BY <1>4, <2>4, <2>6, <2>7, Zenon DEF Bytes, Requests, Answers
  <2>9. Phase(pc', cur, cur, more)
    BY <1>3, <2>2, <2>4 DEF Phase
  <2>10. down' = [down EXCEPT ![cur] = down[c]] /\ kinds' = [kinds EXCEPT ![cur] = kinds[c]]
    BY <1>1, <1>2
  <2> QED
    BY <1>1, <1>2, <2>2, <2>4, <2>5, <2>8, <2>9, <2>10, ServeStep
<1>9. CASE n = 0 /\ client[c].open
  <2> DEFINE new == [s EXCEPT !.wr = FALSE]
  <2>1. conn' = [conn EXCEPT ![c] = new] /\ pc' = "wait" /\ UNCHANGED <<up, item>>
    <3>1. ~(n > 0)
      BY <1>9
    <3> QED
      BY <1>9, <3>1, Zenon DEF Server!conn_recv, Server!Goto, Server!Mode
  <2>2. /\ new \in ServerState /\ new.rx_len = s.rx_len /\ new.rx_off = s.rx_off
        /\ new.tx_len = s.tx_len /\ new.tx_off = s.tx_off /\ new.open = s.open /\ ~new.wr
    BY <1>1 DEF ServerState
  <2> HIDE DEF new, n
  <2>3. Bytes(client[c], up[c], down[c], Len(kinds[c]), new)
    BY <1>4, <2>2, Zenon DEF Bytes, Buffers, Requests, Answers
  <2>4. Phase(pc', cur, cur, new)
    BY <1>3, <2>1, <2>2 DEF Phase
  <2>5. /\ up' = [up EXCEPT ![cur] = up[c]] /\ down' = [down EXCEPT ![cur] = down[c]]
        /\ kinds' = [kinds EXCEPT ![cur] = kinds[c]]
    BY <1>1, <1>2, <2>1
  <2>6. pc' \in {"wait", "recv", "process", "send", "abort"} /\ item' \in [stored : BOOLEAN, ref : Int]
    BY <1>1, <2>1
  <2> QED
    <3>1. /\ pc \in {"recv", "process", "send"} /\ cur' = cur /\ client' = client
          /\ conn' = [conn EXCEPT ![cur] = new] /\ new \in ServerState
          /\ up[cur] \in Nat /\ down[cur] \in 0 .. SockSpace /\ kinds[cur] \in Seq({"GET", "SET"})
          /\ Bytes(client[cur], up[cur], down[cur], Len(kinds[cur]), new)
      BY <1>1, <1>2, <2>1, <2>2, <2>3, Zenon
    <3> QED
      BY <2>4, <2>5, <2>6, <3>1, ServeStep, Zenon
<1>10. CASE n = 0 /\ ~client[c].open
  <2>1. Server!conn_close(c) /\ UNCHANGED up
    <3>1. ~(n > 0)
      BY <1>10
    <3> QED
      BY <1>10, <3>1, Zenon DEF Server!conn_recv
  <2> QED
    BY <1>1, <1>2, <2>1, CloseStep
<1> QED
  BY <1>8, <1>9, <1>10
\* The smaller of two numbers.
LEMMA MinOfTwo ==
  ASSUME NEW x \in Nat, NEW y \in Nat
  PROVE  LET m == Server!Min({x, y}) IN m \in Nat /\ m <= x /\ m <= y /\ (m = x \/ m = y)
<1>1. \E m \in {x, y} : \A z \in {x, y} : m <= z
  <2>1. CASE x <= y
    BY <2>1
  <2>2. CASE ~(x <= y)
    BY <2>2
  <2> QED
    BY <2>1, <2>2
<1> DEFINE m == CHOOSE v \in {x, y} : \A z \in {x, y} : v <= z
<1>2. m \in {x, y} /\ \A z \in {x, y} : m <= z
  BY <1>1
<1>3. Server!Min({x, y}) = m
  BY Zenon DEF Server!Min
<1> HIDE DEF m
<1>4. m \in Nat /\ m <= x /\ m <= y /\ (m = x \/ m = y)
  BY <1>2
<1> QED
  BY <1>3, <1>4, Zenon

\* Sending moves bytes of an answer from the transmit buffer into the socket.
LEMMA SendAnswerStep ==
  ASSUME Server!ServerAssumption, ServerInv, Server!conn_send
  PROVE  ServerInv'
<1> DEFINE c == cur
           s == conn[c]
           n == Server!Min({Server!Sub(s.tx_len, s.tx_off), SockSpace - down[c]})
           more == [s EXCEPT !.tx_off = (@ + n) % LenMod]
           empty == [more EXCEPT !.tx_off = 0, !.tx_len = 0]
<1>1. /\ c \in Clients /\ client[c] \in ServerClient /\ up[c] \in Nat /\ down[c] \in 0 .. SockSpace
      /\ kinds[c] \in Seq({"GET", "SET"}) /\ Len(kinds[c]) \in Nat /\ s \in ServerState
      /\ up \in [Clients -> Nat] /\ down \in [Clients -> 0 .. SockSpace]
      /\ conn \in [Clients -> ServerState] /\ kinds \in [Clients -> Seq({"GET", "SET"})]
      /\ item \in [stored : BOOLEAN, ref : Int]
      /\ s.rx_len \in Nat /\ s.rx_off \in Nat /\ s.tx_len \in Nat /\ s.tx_off \in Nat
  BY DEF ServerInv, ServerTypes, ServerState
<1>2. pc = "send" /\ UNCHANGED <<client, up, kinds, cur>>
  BY Zenon DEF Server!conn_send
<1>3. s.open /\ s.tx_off < s.tx_len
  BY <1>1, <1>2 DEF ServerInv, PhaseInv, Phase
<1>4. Bytes(client[c], up[c], down[c], Len(kinds[c]), s)
  BY <1>1, <1>3 DEF ServerInv, BytesInv
<1>5. SockSpace \in Nat /\ LenMod \in Nat /\ s.tx_len < LenMod /\ ResLen \in Nat
  BY <1>1, <1>4 DEF Server!ServerAssumption, Bytes, Buffers
<1>6. n \in Nat /\ n <= s.tx_len - s.tx_off /\ n <= SockSpace - down[c]
  <2>1. Server!Sub(s.tx_len, s.tx_off) = s.tx_len - s.tx_off
    <3>1. s.tx_off \in 0 .. s.tx_len
      BY <1>1, <1>3
    <3> QED
      BY <1>1, <1>5, <3>1, SubIs
  <2>2. s.tx_len - s.tx_off \in Nat /\ SockSpace - down[c] \in Nat
    BY <1>1, <1>3, <1>5
  <2>3. n = Server!Min({s.tx_len - s.tx_off, SockSpace - down[c]})
    BY <2>1, Zenon
  <2> HIDE DEF n
  <2> QED
    BY <2>2, <2>3, MinOfTwo
<1>7. CASE ~client[c].open
  <2>1. Server!conn_close(c) /\ UNCHANGED down
    BY <1>7, Zenon DEF Server!conn_send
  <2> QED
    BY <1>1, <1>2, <2>1, CloseStep
<1>8. CASE client[c].open /\ n = 0
  <2> DEFINE new == [s EXCEPT !.wr = TRUE]
  <2>1. conn' = [conn EXCEPT ![c] = new] /\ pc' = "wait" /\ UNCHANGED <<down, item>>
    BY <1>8, Zenon DEF Server!conn_send, Server!Goto, Server!Mode
  <2>2. /\ new \in ServerState /\ new.rx_len = s.rx_len /\ new.rx_off = s.rx_off
        /\ new.tx_len = s.tx_len /\ new.tx_off = s.tx_off /\ new.open = s.open /\ new.wr
    BY <1>1 DEF ServerState
  <2> HIDE DEF new, n
  <2>3. Bytes(client[c], up[c], down[c], Len(kinds[c]), new)
    BY <1>4, <2>2, Zenon DEF Bytes, Buffers, Requests, Answers
  <2>4. Phase(pc', cur, cur, new)
    BY <1>3, <2>1, <2>2 DEF Phase
  <2>5. /\ up' = [up EXCEPT ![cur] = up[c]] /\ down' = [down EXCEPT ![cur] = down[c]]
        /\ kinds' = [kinds EXCEPT ![cur] = kinds[c]]
    BY <1>1, <1>2, <2>1
  <2>6. pc' \in {"wait", "recv", "process", "send", "abort"} /\ item' \in [stored : BOOLEAN, ref : Int]
    BY <1>1, <2>1
  <2>7. /\ pc \in {"recv", "process", "send"} /\ cur' = cur /\ client' = client
        /\ conn' = [conn EXCEPT ![cur] = new] /\ new \in ServerState
        /\ up[cur] \in Nat /\ down[cur] \in 0 .. SockSpace /\ kinds[cur] \in Seq({"GET", "SET"})
        /\ Bytes(client[cur], up[cur], down[cur], Len(kinds[cur]), new)
    BY <1>1, <1>2, <2>1, <2>2, <2>3, Zenon
  <2> QED
    BY <2>4, <2>5, <2>6, <2>7, ServeStep, Zenon
<1>9. CASE client[c].open /\ n # 0
  <2>1. /\ down' = [down EXCEPT ![c] = @ + n] /\ UNCHANGED item
        /\ IF more.tx_off < more.tx_len
           THEN conn' = [conn EXCEPT ![c] = more] /\ pc' = "send"
           ELSE conn' = [conn EXCEPT ![c] = empty] /\ pc' = "process"
    BY <1>9, Zenon DEF Server!conn_send, Server!Goto
  <2>2. (s.tx_off + n) % LenMod = s.tx_off + n
    <3>1. s.tx_off + n \in Nat /\ s.tx_off + n < LenMod
      BY <1>1, <1>5, <1>6
    <3> QED
      BY <3>1, SumFits
  <2>3. more = [s EXCEPT !.tx_off = s.tx_off + n]
    BY <2>2, Zenon
  <2> HIDE DEF n, more
  <2>4. s.tx_off + n \in Nat /\ s.tx_off + n <= s.tx_len /\ down[c] + n \in 0 .. SockSpace
    <3>1. s.tx_len \in Nat /\ s.tx_off \in Nat /\ down[c] \in Nat
      BY <1>1
    <3> QED
      BY <1>5, <1>6, <3>1
  <2>5. /\ more \in ServerState /\ more.rx_len = s.rx_len /\ more.rx_off = s.rx_off
        /\ more.tx_len = s.tx_len /\ more.tx_off = s.tx_off + n /\ more.open = s.open
    BY <1>1, <2>3, <2>4 DEF ServerState
  <2>6. /\ empty \in ServerState /\ empty.rx_len = s.rx_len /\ empty.rx_off = s.rx_off
        /\ empty.tx_len = 0 /\ empty.tx_off = 0 /\ empty.open = s.open
    BY <2>5 DEF ServerState
  <2> HIDE DEF empty
  <2>7. (more.tx_len - more.tx_off) + (down[c] + n) = (s.tx_len - s.tx_off) + down[c]
    BY <1>1, <1>6, <2>5
  <2>8. Bytes(client[c], up[c], down[c] + n, Len(kinds[c]), more)
    <3>1. Buffers(more)
      BY <1>1, <1>4, <2>4, <2>5 DEF Bytes, Buffers
    <3>2. Requests(client[c], up[c], Len(kinds[c]), more)
      BY <1>4, <2>5, Zenon DEF Bytes, Requests
    <3>3. Answers(client[c], down[c] + n, Len(kinds[c]), more)
      BY <1>4, <2>7, Zenon DEF Bytes, Answers
    <3> QED
      BY <3>1, <3>2, <3>3 DEF Bytes
  <2>9. CASE more.tx_off < more.tx_len
    <3>1. conn' = [conn EXCEPT ![cur] = more] /\ pc' = "send"
      BY <2>1, <2>9, Zenon
    <3>2. Phase(pc', cur, cur, more)
      BY <1>3, <2>5, <2>9, <3>1 DEF Phase
    <3>3. /\ up' = [up EXCEPT ![cur] = up[cur]] /\ down' = [down EXCEPT ![cur] = down[cur] + n]
          /\ kinds' = [kinds EXCEPT ![cur] = kinds[cur]]
      BY <1>1, <1>2, <2>1
    <3>4. pc' \in {"wait", "recv", "process", "send", "abort"} /\ item' \in [stored : BOOLEAN, ref : Int]
      BY <1>1, <2>1, <3>1
    <3>5. /\ pc \in {"recv", "process", "send"} /\ cur' = cur /\ client' = client
          /\ more \in ServerState
          /\ up[cur] \in Nat /\ down[cur] + n \in 0 .. SockSpace /\ kinds[cur] \in Seq({"GET", "SET"})
          /\ Bytes(client[cur], up[cur], down[cur] + n, Len(kinds[cur]), more)
      BY <1>1, <1>2, <2>4, <2>5, <2>8, Zenon
    <3> QED
      BY <3>1, <3>2, <3>3, <3>4, <3>5, ServeStep, Zenon
  <2>10. CASE ~(more.tx_off < more.tx_len)
    <3>1. conn' = [conn EXCEPT ![cur] = empty] /\ pc' = "process"
      BY <2>1, <2>10, Zenon
    <3>2. Phase(pc', cur, cur, empty)
      BY <1>3, <2>6, <3>1 DEF Phase
    <3>3. /\ up' = [up EXCEPT ![cur] = up[cur]] /\ down' = [down EXCEPT ![cur] = down[cur] + n]
          /\ kinds' = [kinds EXCEPT ![cur] = kinds[cur]]
      BY <1>1, <1>2, <2>1
    <3>4. pc' \in {"wait", "recv", "process", "send", "abort"} /\ item' \in [stored : BOOLEAN, ref : Int]
      BY <1>1, <2>1, <3>1
    <3>5. more.tx_len - more.tx_off = 0 /\ empty.tx_len - empty.tx_off = 0
      BY <1>1, <2>4, <2>5, <2>6, <2>10
    <3>6. Bytes(client[c], up[c], down[c] + n, Len(kinds[c]), empty)
      <4>1. Buffers(empty)
        BY <1>4, <1>5, <2>6 DEF Bytes, Buffers
      <4>2. Requests(client[c], up[c], Len(kinds[c]), empty)
        BY <1>4, <2>6, Zenon DEF Bytes, Requests
      <4>3. Answers(client[c], down[c] + n, Len(kinds[c]), empty)
        BY <2>8, <3>5, Zenon DEF Bytes, Answers
      <4> QED
        BY <4>1, <4>2, <4>3 DEF Bytes
    <3>7. /\ pc \in {"recv", "process", "send"} /\ cur' = cur /\ client' = client
          /\ empty \in ServerState
          /\ up[cur] \in Nat /\ down[cur] + n \in 0 .. SockSpace /\ kinds[cur] \in Seq({"GET", "SET"})
          /\ Bytes(client[cur], up[cur], down[cur] + n, Len(kinds[cur]), empty)
      BY <1>1, <1>2, <2>4, <2>6, <3>6, Zenon
    <3> QED
      BY <3>1, <3>2, <3>3, <3>4, <3>7, ServeStep, Zenon
  <2> QED
    BY <2>9, <2>10
<1> QED
  BY <1>7, <1>8, <1>9

\* Whether a request is complete.
LEMMA CompleteIs ==
  ASSUME Server!ServerAssumption, NEW s \in ServerState, Buffers(s)
  PROVE  Server!Complete(s) <=> s.rx_len - s.rx_off >= ReqLen
<1>1. /\ s.rx_len \in Nat /\ s.rx_off \in Nat /\ s.rx_off \in 0 .. s.rx_len /\ s.rx_len < LenMod
      /\ ReqLen \in Nat /\ Header \in 1 .. ReqLen
  BY DEF Server!ServerAssumption, ServerState, Buffers
<1>2. Server!Sub(s.rx_len, s.rx_off) = s.rx_len - s.rx_off
  BY <1>1, SubIs
<1> QED
  BY <1>1, <1>2 DEF Server!Complete

\* Processing takes a request off the receive buffer and puts its answer into the
\* transmit buffer.
LEMMA ProcessAnswerStep ==
  ASSUME Server!ServerAssumption, ServerInv, Server!conn_req_process
  PROVE  ServerInv'
<1> DEFINE c == cur
           s == conn[c]
           new == [s EXCEPT !.it = item'.stored, !.rx_off = (@ + ReqLen) % LenMod,
                            !.tx_len = (@ + ResLen) % LenMod]
           ks == Tail(kinds[c])
           k == Len(kinds[c])
           cl == client[c]
<1>1. /\ c \in Clients /\ cl \in ServerClient /\ up[c] \in Nat /\ down[c] \in 0 .. SockSpace
      /\ kinds[c] \in Seq({"GET", "SET"}) /\ k \in Nat /\ s \in ServerState
      /\ up \in [Clients -> Nat] /\ down \in [Clients -> 0 .. SockSpace]
      /\ conn \in [Clients -> ServerState] /\ kinds \in [Clients -> Seq({"GET", "SET"})]
      /\ item \in [stored : BOOLEAN, ref : Int]
      /\ s.rx_len \in Nat /\ s.rx_off \in Nat /\ s.tx_len \in Nat /\ s.tx_off \in Nat
      /\ cl.begun \in Nat /\ cl.answered \in Nat /\ cl.bytes \in Nat
  BY DEF ServerInv, ServerTypes, ServerState, ServerClient
<1>2. /\ pc = "process" /\ UNCHANGED <<client, up, down, cur>> /\ Server!Complete(s)
      /\ conn' = [conn EXCEPT ![c] = new] /\ kinds' = [kinds EXCEPT ![c] = ks]
      /\ item' = IF Head(kinds[c]) = "SET" /\ ~item.stored THEN [stored |-> TRUE, ref |-> 1] ELSE item
      /\ pc' = IF item.stored /\ item.ref = 0 THEN "abort" ELSE "send"
  <2>1. conn' = [conn EXCEPT ![c] = new]
    BY DEF Server!conn_req_process
  <2> QED
    BY <2>1, Zenon DEF Server!conn_req_process, Server!Goto
<1>3. s.open /\ s.tx_len = 0
  BY <1>1, <1>2 DEF ServerInv, PhaseInv, Phase
<1>4. Bytes(cl, up[c], down[c], k, s)
  BY <1>1, <1>3 DEF ServerInv, BytesInv
<1>5. /\ ReqLen \in Nat \ {0} /\ ResLen \in Nat \ {0} /\ LenMod \in Nat
      /\ ResLen < LenMod
  BY DEF Server!ServerAssumption
<1>6. s.rx_off + ReqLen <= s.rx_len /\ s.rx_len < LenMod /\ s.tx_off = 0
  <2>1. s.rx_len - s.rx_off >= ReqLen
    BY <1>1, <1>2, <1>4, CompleteIs DEF Bytes
  <2> QED
    BY <1>1, <1>3, <1>4, <1>5, <2>1 DEF Bytes, Buffers
<1>7. k >= 1
  <2>1. up[c] + (s.rx_len - s.rx_off) <= ReqLen * k
    BY <1>1, <1>4, Unprocessed DEF Bytes
  <2>2. ReqLen * k \in Int
    BY <1>1, <1>5
  <2>3. ReqLen <= ReqLen * k
    BY <1>1, <1>5, <1>6, <2>1, <2>2
  <2>4. ReqLen * 1 <= ReqLen * k
    BY <1>5, <2>3
  <2> QED
    BY <1>1, <1>5, <2>4, Cancel
<1>8. ks \in Seq({"GET", "SET"}) /\ Len(ks) = k - 1
  BY <1>1, <1>7
<1>9. item' \in [stored : BOOLEAN, ref : Int] /\ item'.stored \in BOOLEAN
  <2>1. [stored |-> TRUE, ref |-> 1] \in [stored : BOOLEAN, ref : Int]
    OBVIOUS
  <2>2. item' \in [stored : BOOLEAN, ref : Int]
    BY <1>1, <1>2, <2>1, Zenon
  <2> QED
    BY <2>2
<1>10. (s.rx_off + ReqLen) % LenMod = s.rx_off + ReqLen /\ (s.tx_len + ResLen) % LenMod = ResLen
  <2>1. s.rx_off + ReqLen \in Nat /\ s.rx_off + ReqLen < LenMod
    BY <1>1, <1>5, <1>6
  <2>2. s.tx_len + ResLen = ResLen
    BY <1>3, <1>5
  <2> QED
    BY <1>5, <2>1, <2>2, SumFits
<1>11. new = [s EXCEPT !.it = item'.stored, !.rx_off = s.rx_off + ReqLen, !.tx_len = ResLen]
  BY <1>10, Zenon
<1>12. /\ new \in ServerState /\ new.rx_len = s.rx_len /\ new.rx_off = s.rx_off + ReqLen
       /\ new.tx_len = ResLen /\ new.tx_off = s.tx_off /\ new.open = s.open
  <2>1. s.rx_off + ReqLen \in Nat
    BY <1>1, <1>5
  <2> HIDE DEF new
  <2> QED
    BY <1>1, <1>5, <1>9, <1>11, <2>1 DEF ServerState
<1> HIDE DEF new, ks
<1>13. Bytes(cl, up[c], down[c], k - 1, new)
  <2>9. /\ s.rx_len \in Nat /\ s.rx_off \in Nat /\ s.tx_len \in Nat /\ s.tx_off \in Nat
        /\ cl.begun \in Nat /\ cl.answered \in Nat /\ cl.bytes \in Nat /\ k \in Nat
        /\ up[c] \in Nat /\ down[c] \in Nat
    BY <1>1
  <2> HIDE DEF cl, k, s
  <2>1. Buffers(new)
    BY <2>9, <1>5, <1>6, <1>12 DEF Buffers
  <2>2. cl.begun - (k - 1) = (cl.begun - k) + 1
    BY <2>9
  <2>3. ReqLen * (cl.begun - (k - 1)) = ReqLen * (cl.begun - k) + ReqLen
    BY <2>9, <1>5, <2>2
  <2>4. ResLen * (cl.begun - (k - 1)) = ResLen * (cl.begun - k) + ResLen
    BY <2>9, <1>5, <2>2
  <2>5. ReqLen * (cl.begun - k) \in Int /\ ResLen * (cl.begun - k) \in Int /\ ResLen * cl.answered \in Int
    BY <2>9, <1>5
  <2>6. SentBytes(cl) = up[c] + (new.rx_len - new.rx_off) + ReqLen * (cl.begun - (k - 1))
    BY <2>9, <1>4, <1>5, <1>12, <2>3, <2>5 DEF Bytes, Requests
  <2>7. Requests(cl, up[c], k - 1, new)
    BY <2>9, <1>4, <1>7, <2>6 DEF Bytes, Requests
  <2>8. Answers(cl, down[c], k - 1, new)
    BY <2>9, <1>3, <1>4, <1>5, <1>6, <1>12, <2>4, <2>5 DEF Bytes, Answers
  <2> QED
    BY <2>1, <2>7, <2>8 DEF Bytes
<1>14. pc' # "abort" => Phase(pc', cur, cur, new)
  BY <1>2, <1>3, <1>5, <1>6, <1>12 DEF Phase
<1>15. up' = [up EXCEPT ![cur] = up[cur]] /\ down' = [down EXCEPT ![cur] = down[cur]]
  BY <1>1, <1>2
<1>16. pc' \in {"wait", "recv", "process", "send", "abort"}
  BY <1>2
<1>17. Bytes(client[cur], up[cur], down[cur], Len(ks), new)
  BY <1>8, <1>13, Zenon
<1>18. /\ pc \in {"recv", "process", "send"} /\ cur' = cur /\ client' = client
       /\ conn' = [conn EXCEPT ![cur] = new] /\ kinds' = [kinds EXCEPT ![cur] = ks]
       /\ up[cur] \in Nat /\ down[cur] \in 0 .. SockSpace
  BY <1>1, <1>2, Zenon
<1> QED
  BY <1>8, <1>9, <1>12, <1>14, <1>15, <1>16, <1>17, <1>18, ServeStep, Zenon

\* Moving the receive buffer up keeps what it holds.
LEMMA EndEventStep ==
  ASSUME Server!ServerAssumption, ServerInv, Server!EndEvent
  PROVE  ServerInv'
<1> DEFINE s == conn[cur]
           l == Server!Sub(s.rx_len, s.rx_off)
           new == [s EXCEPT !.rx_len = l, !.rx_off = 0, !.wr = FALSE]
<1>1. /\ cur \in Clients /\ client[cur] \in ServerClient /\ up[cur] \in Nat
      /\ down[cur] \in 0 .. SockSpace /\ kinds[cur] \in Seq({"GET", "SET"}) /\ s \in ServerState
      /\ up \in [Clients -> Nat] /\ down \in [Clients -> 0 .. SockSpace]
      /\ conn \in [Clients -> ServerState] /\ kinds \in [Clients -> Seq({"GET", "SET"})]
      /\ item \in [stored : BOOLEAN, ref : Int]
      /\ s.rx_len \in Nat /\ s.rx_off \in Nat /\ s.tx_len \in Nat /\ s.tx_off \in Nat
  BY DEF ServerInv, ServerTypes, ServerState
<1>2. /\ pc = "process" /\ pc' = "wait" /\ UNCHANGED <<client, up, down, kinds, cur, item>>
      /\ conn' = [conn EXCEPT ![cur] = new]
  BY Zenon DEF Server!EndEvent, Server!Goto
<1>3. s.open /\ s.tx_len = 0
  BY <1>1, <1>2 DEF ServerInv, PhaseInv, Phase
<1>4. Bytes(client[cur], up[cur], down[cur], Len(kinds[cur]), s)
  BY <1>1, <1>3 DEF ServerInv, BytesInv
<1>5. l = s.rx_len - s.rx_off /\ l \in Nat
  <2>1. s.rx_off \in 0 .. s.rx_len /\ s.rx_len < LenMod
    BY <1>1, <1>4 DEF Server!ServerAssumption, Bytes, Buffers
  <2>2. l = s.rx_len - s.rx_off
    BY <1>1, <2>1, SubIs
  <2> QED
    BY <1>1, <2>1, <2>2
<1> HIDE DEF l
<1>6. /\ new \in ServerState /\ new.rx_len = l /\ new.rx_off = 0
      /\ new.tx_len = s.tx_len /\ new.tx_off = s.tx_off /\ new.open = s.open /\ ~new.wr
  BY <1>1, <1>5 DEF ServerState
<1> HIDE DEF new
<1>14. /\ s.rx_len \in Nat /\ s.rx_off \in Nat /\ s.tx_len \in Nat /\ s.tx_off \in Nat
       /\ LenMod \in Nat
  BY <1>1 DEF Server!ServerAssumption
<1>7. new.rx_len - new.rx_off = s.rx_len - s.rx_off
  BY <1>5, <1>6, <1>14
<1>8. Buffers(new)
  BY <1>4, <1>5, <1>6, <1>14 DEF Bytes, Buffers
<1>9. Bytes(client[cur], up[cur], down[cur], Len(kinds[cur]), new)
  BY <1>4, <1>6, <1>7, <1>8, Zenon DEF Bytes, Requests, Answers
<1>10. Phase(pc', cur, cur, new)
  BY <1>2, <1>3, <1>6 DEF Phase
<1>11. /\ up' = [up EXCEPT ![cur] = up[cur]] /\ down' = [down EXCEPT ![cur] = down[cur]]
       /\ kinds' = [kinds EXCEPT ![cur] = kinds[cur]]
  BY <1>1, <1>2
<1>12. pc' \in {"wait", "recv", "process", "send", "abort"} /\ item' \in [stored : BOOLEAN, ref : Int]
  BY <1>1, <1>2
<1>13. /\ pc \in {"recv", "process", "send"} /\ cur' = cur /\ client' = client
       /\ conn' = [conn EXCEPT ![cur] = new] /\ new \in ServerState
       /\ up[cur] \in Nat /\ down[cur] \in 0 .. SockSpace /\ kinds[cur] \in Seq({"GET", "SET"})
  BY <1>1, <1>2, <1>6, Zenon
<1> QED
  BY <1>9, <1>10, <1>11, <1>12, <1>13, ServeStep, Zenon

\* Every step keeps the invariant.
LEMMA ServerStepInv ==
  ASSUME Server!ServerAssumption
  PROVE  ServerInv /\ ~overrun' /\ [Server!Next]_serverVars => ServerInv'
<1> SUFFICES ASSUME ServerInv, ~overrun', [Server!Next]_serverVars PROVE ServerInv'
  OBVIOUS
<1>1. CASE UNCHANGED serverVars
  BY <1>1 DEF serverVars, ServerInv, ServerTypes, BytesInv, PhaseInv, Phase
<1>2. CASE Server!Worker
  <2>1. ASSUME NEW c \in Clients, Server!Hangup(c) PROVE ServerInv'
    <3>1. /\ Server!conn_close(c) /\ pc = "wait" /\ pc # "abort"
          /\ UNCHANGED <<client, up, down, kinds, cur>>
      BY <2>1 DEF Server!Hangup
    <3> QED
      BY <3>1, CloseStep
  <2> QED
    BY <1>2, <2>1, EventStep, RecvStep, SendAnswerStep, ProcessAnswerStep, EndEventStep
    DEF Server!Worker
<1>3. CASE \E c \in Clients : \/ Server!Receive(c) \/ Server!Quit(c)
                              \/ \E n \in 1 .. ReqLen : Server!Send(c, n)
  BY <1>3, ReceiveStep, QuitStep, SendStep
<1> QED
  BY <1>1, <1>2, <1>3 DEF Server!Next

(***************************************************************************)
(* The load generator: BenchClient.                                        *)
(***************************************************************************)

ConnState == [state : {"closed", "connecting", "open"}, ep_wr : BOOLEAN, pending : {0, 1},
              tx : Nat, rx : Nat, owed : Nat, down : Nat]
BenchPlaces == {"connect", "loading", "loaded", "send", "poll"}
Started == {"loaded", "send", "poll"}

\* The bytes of a connection: without a request there are none, with one it is
\* either not yet sent in full or on its way back.
Pieces(c) == /\ c.pending = 0 => c.tx = 0 /\ c.owed = 0 /\ c.down = 0 /\ c.rx = 0
             /\ c.pending = 1 => \/ c.tx > 0 /\ c.owed = 0 /\ c.down = 0 /\ c.rx = 0
                                 \/ c.tx = 0 /\ c.owed + c.down + c.rx = MsgLen

Busy(t) == {co \in Bench!Conns(t) : bench_conn[co].pending = 1}
NoTwice(s) == \A m, n \in DOMAIN s : s[m] = s[n] => m = n

BenchTypes ==
    /\ phase \in {"INIT", "PRELOAD", "WARMUP", "RUNNING"}
    /\ bench_pc \in [Bench!Threads -> BenchPlaces]
    /\ next_key \in [Bench!Threads -> Nat] /\ msgs_pending \in [Bench!Threads -> Int]
    /\ q \in [Bench!Threads -> Seq(Bench!AllConns)]
    /\ bench_conn \in [Bench!AllConns -> ConnState]

\* The queue of a thread: first the connections that are open, then all of them,
\* then those without a request.
QueueOf(t) ==
    /\ NoTwice(q[t]) /\ Range(q[t]) \subseteq Bench!Conns(t)
    /\ bench_pc[t] = "connect" =>
         \A co \in Bench!Conns(t) :
            /\ bench_conn[co].pending = 0
            /\ co \in Range(q[t]) <=> (bench_conn[co].state # "closed" /\ ~bench_conn[co].ep_wr)
    /\ bench_pc[t] \in {"loading", "loaded"} => Range(q[t]) = Bench!Conns(t)
    /\ bench_pc[t] \in {"send", "poll"} =>
         \A co \in Bench!Conns(t) : co \in Range(q[t]) <=> bench_conn[co].pending = 0

\* What a thread counts; while keys are loaded, a connection that waits to send has
\* sent a part of a request or none at all.
CountOf(t) ==
    /\ msgs_pending[t] = Cardinality(Busy(t))
    /\ bench_pc[t] \in {"send", "poll"} => msgs_pending[t] <= MaxPending
    /\ bench_pc[t] = "loading" =>
         \A co \in Bench!Conns(t) :
            bench_conn[co].ep_wr => bench_conn[co].tx > 0 \/ bench_conn[co].pending = 0
    /\ bench_pc[t] = "loaded" => ~Bench!Loading(t)

\* init_count counts the threads that have stored their keys, and the run starts
\* when all have.
PhasesInv ==
    /\ init_count = Cardinality({t \in Bench!Threads : bench_pc[t] \in Started})
    /\ phase = "RUNNING" => \A t \in Bench!Threads : bench_pc[t] \in Started
    /\ (\E t \in Bench!Threads : bench_pc[t] \in {"send", "poll"}) => phase = "RUNNING"

BenchInv == /\ BenchTypes
            /\ \A co \in Bench!AllConns : Pieces(bench_conn[co])
            /\ \A t \in Bench!Threads : QueueOf(t) /\ CountOf(t)
            /\ PhasesInv

\* The numbers 1 .. n are n.
LEMMA FirstNaturals ==
  ASSUME NEW n \in Nat
  PROVE  IsFiniteSet(1 .. n) /\ Cardinality(1 .. n) = n
<1>1. 1 \in Int /\ n \in Int
  OBVIOUS
<1>2. IsFiniteSet(1 .. n) /\ Cardinality(1 .. n) = IF 1 > n THEN 0 ELSE n - 1 + 1
  BY <1>1, FS_Interval, Zenon
<1> QED
  BY <1>2

\* A thread has conns connections, and no connection is another's.
LEMMA ConnsOf ==
  ASSUME Bench!BenchAssumption, NEW t \in Bench!Threads
  PROVE  /\ IsFiniteSet(Bench!Conns(t)) /\ Cardinality(Bench!Conns(t)) = conns
         /\ Bench!Conns(t) \subseteq Bench!AllConns
         /\ \A co \in Bench!Conns(t) : co[1] = t
         /\ \A co \in Bench!AllConns : co[1] = t => co \in Bench!Conns(t)
<1>1. IsFiniteSet({t}) /\ Cardinality({t}) = 1
  BY FS_Singleton
<1>2. conns \in Nat /\ conns >= 1 /\ 1 \in Int /\ conns \in Int
  BY DEF Bench!BenchAssumption
<1>3. IsFiniteSet(1 .. conns) /\ Cardinality(1 .. conns) = conns
  BY <1>2, FirstNaturals
<1>4. IsFiniteSet({t} \X (1 .. conns)) /\ Cardinality({t} \X (1 .. conns)) = 1 * conns
  <2>1. Cardinality({t} \X (1 .. conns)) = Cardinality({t}) * Cardinality(1 .. conns)
        /\ IsFiniteSet({t} \X (1 .. conns))
    BY <1>1, <1>3, FS_Product, Zenon
  <2> QED
    BY <1>1, <1>3, <2>1, Zenon
<1>5. 1 * conns = conns
  BY <1>2
<1> QED
  BY <1>4, <1>5 DEF Bench!Conns, Bench!AllConns

\* A sequence without repetitions is as long as it has elements.
LEMMA NoTwiceLen ==
  ASSUME NEW S, NEW s \in Seq(S), NoTwice(s)
  PROVE  IsFiniteSet(Range(s)) /\ Cardinality(Range(s)) = Len(s)
<1>1. s \in [1 .. Len(s) -> Range(s)] /\ Len(s) \in Nat
  BY DEF Range
<1>2. s \in Bijection(1 .. Len(s), Range(s))
  BY <1>1, Fun_IsBij DEF NoTwice, Range
<1>3. ExistsBijection(1 .. Len(s), Range(s))
  BY <1>2 DEF ExistsBijection
<1>4. IsFiniteSet(1 .. Len(s)) /\ Cardinality(1 .. Len(s)) = Len(s)
  BY <1>1, FirstNaturals
<1> QED
  BY <1>3, <1>4, FS_Bijection

\* One more entry, or one less.
LEMMA NoTwiceAppend ==
  ASSUME NEW S, NEW s \in Seq(S), NoTwice(s), NEW x \in S, x \notin Range(s)
  PROVE  NoTwice(Append(s, x)) /\ Range(Append(s, x)) = Range(s) \cup {x} /\ Append(s, x) \in Seq(S)
<1>1. /\ Len(s) \in Nat /\ DOMAIN s = 1 .. Len(s)
      /\ DOMAIN Append(s, x) = 1 .. Len(s) + 1
      /\ \A i \in 1 .. Len(s) : Append(s, x)[i] = s[i]
      /\ Append(s, x)[Len(s) + 1] = x
      /\ Append(s, x) \in Seq(S)
  BY AppendProperties
<1>2. \A i \in 1 .. Len(s) : s[i] # x
  BY <1>1 DEF Range
<1>3. NoTwice(Append(s, x))
  BY <1>1, <1>2 DEF NoTwice
<1>4. Range(Append(s, x)) = Range(s) \cup {x}
  BY <1>1 DEF Range
<1> QED
  BY <1>1, <1>3, <1>4

\* The first one leaves.
LEMMA NoTwiceTail ==
  ASSUME NEW S, NEW s \in Seq(S), NoTwice(s), s # <<>>
  PROVE  /\ NoTwice(Tail(s)) /\ Range(Tail(s)) = Range(s) \ {Head(s)} /\ Tail(s) \in Seq(S)
         /\ Head(s) \in Range(s)
<1>1. /\ Tail(s) \in Seq(S) /\ Head(s) = s[1]
      /\ Len(s) \in Nat \ {0} /\ DOMAIN s = 1 .. Len(s) /\ DOMAIN Tail(s) = 1 .. Len(s) - 1
      /\ \A i \in 1 .. Len(s) - 1 : Tail(s)[i] = s[i + 1]
  BY HeadTailProperties, EmptySeq
<1>2. NoTwice(Tail(s))
  BY <1>1 DEF NoTwice
<1>3. Range(Tail(s)) = Range(s) \ {Head(s)}
  <2>1. ASSUME NEW y \in Range(Tail(s)) PROVE y \in Range(s) \ {Head(s)}
    <3>1. PICK i \in 1 .. Len(s) - 1 : y = s[i + 1]
      BY <1>1 DEF Range
    <3>2. i + 1 \in DOMAIN s /\ i + 1 # 1 /\ 1 \in DOMAIN s
      BY <1>1
    <3> QED
      BY <1>1, <3>1, <3>2 DEF Range, NoTwice
  <2>2. ASSUME NEW y \in Range(s), y # Head(s) PROVE y \in Range(Tail(s))
    <3>1. PICK i \in 1 .. Len(s) : y = s[i]
      BY <1>1 DEF Range
    <3>2. i # 1
      BY <1>1, <2>2, <3>1
    <3>3. i - 1 \in 1 .. Len(s) - 1 /\ (i - 1) + 1 = i
      BY <1>1, <3>2
    <3>4. y = Tail(s)[i - 1] /\ i - 1 \in DOMAIN Tail(s)
      BY <1>1, <3>1, <3>3
    <3> QED
      BY <3>4 DEF Range
  <2> QED
    BY <2>1, <2>2
<1>4. Head(s) \in Range(s)
  BY <1>1 DEF Range
<1> QED
  BY <1>1, <1>2, <1>3, <1>4

\* The busy connections of a thread.
LEMMA BusySets ==
  ASSUME Bench!BenchAssumption, NEW t \in Bench!Threads
  PROVE  /\ IsFiniteSet(Busy(t)) /\ Cardinality(Busy(t)) \in Nat
         /\ \A co : /\ co \notin Busy(t) => Cardinality(Busy(t) \cup {co}) = Cardinality(Busy(t)) + 1
                    /\ co \in Busy(t) => Cardinality(Busy(t) \ {co}) = Cardinality(Busy(t)) - 1
<1>1. Busy(t) \in SUBSET Bench!Conns(t)
  BY DEF Busy
<1>2. IsFiniteSet(Busy(t))
  BY <1>1, ConnsOf, FS_Subset
<1> QED
  BY <1>2, FS_CardinalityType, FS_AddElement, FS_RemoveElement

\* What a thread has is kept by a step that changes no more of its connections than

\* the bytes on their way.
LEMMA OtherThread ==
  ASSUME Bench!BenchAssumption, NEW t \in Bench!Threads, QueueOf(t), CountOf(t),
         bench_pc'[t] = bench_pc[t], q'[t] = q[t], msgs_pending'[t] = msgs_pending[t],
         next_key'[t] = next_key[t],
         \A co \in Bench!Conns(t) :
            /\ bench_conn'[co].state = bench_conn[co].state
            /\ bench_conn'[co].ep_wr = bench_conn[co].ep_wr
            /\ bench_conn'[co].pending = bench_conn[co].pending
            /\ bench_conn'[co].tx = bench_conn[co].tx
  PROVE  QueueOf(t)' /\ CountOf(t)'
<1>1. Bench!Conns(t)' = Bench!Conns(t)
  BY DEF Bench!Conns
<1>2. Busy(t)' = Busy(t)
  BY <1>1 DEF Busy
<1>3. QueueOf(t)'
  BY <1>1 DEF QueueOf
<1>4. CountOf(t)'
  BY <1>1, <1>2 DEF CountOf, Bench!Loading
<1> QED
  BY <1>3, <1>4

\* The busy connections after a step of one connection.
LEMMA BusyStep ==
  ASSUME Bench!BenchAssumption, BenchTypes, NEW t \in Bench!Threads, NEW co \in Bench!Conns(t),
         NEW c \in ConnState, bench_conn' = [bench_conn EXCEPT ![co] = c]
  PROVE  Cardinality(Busy(t)') = Cardinality(Busy(t)) + c.pending - bench_conn[co].pending
<1>1. co \in Bench!AllConns /\ Bench!Conns(t) \subseteq Bench!AllConns
  BY ConnsOf
<1>2. \A e \in Bench!Conns(t) : bench_conn'[e] = IF e = co THEN c ELSE bench_conn[e]
  BY <1>1 DEF BenchTypes
<1>3. Busy(t)' = {e \in Bench!Conns(t) : bench_conn'[e].pending = 1}
  BY DEF Busy, Bench!Conns
<1>4. bench_conn[co].pending \in {0, 1} /\ c.pending \in {0, 1}
  BY <1>1 DEF BenchTypes, ConnState
<1>5. Cardinality(Busy(t)) \in Nat
  BY BusySets
<1>6. CASE c.pending = bench_conn[co].pending
  <2>1. Busy(t)' = Busy(t)
    BY <1>2, <1>3, <1>6 DEF Busy
  <2> QED
    BY <1>4, <1>5, <1>6, <2>1
<1>7. CASE c.pending = 1 /\ bench_conn[co].pending = 0
  <2>1. Busy(t)' = Busy(t) \cup {co} /\ co \notin Busy(t)
    BY <1>2, <1>3, <1>7 DEF Busy
  <2> QED
    BY <1>5, <1>7, <2>1, BusySets
<1>8. CASE c.pending = 0 /\ bench_conn[co].pending = 1
  <2>1. Busy(t)' = Busy(t) \ {co} /\ co \in Busy(t)
    BY <1>2, <1>3, <1>8 DEF Busy
  <2> QED
    BY <1>5, <1>8, <2>1, BusySets
<1> QED
  BY <1>4, <1>6, <1>7, <1>8

\* A step of one connection and of the queue and the counters of its thread.
LEMMA ConnStep ==
  ASSUME Bench!BenchAssumption, BenchInv, NEW t \in Bench!Threads, NEW co \in Bench!Conns(t),
         NEW c \in ConnState, Pieces(c), bench_conn' = [bench_conn EXCEPT ![co] = c],
         q' \in [Bench!Threads -> Seq(Bench!AllConns)],
         next_key' \in [Bench!Threads -> Nat], msgs_pending' \in [Bench!Threads -> Int],
         phase' = phase, init_count' = init_count, bench_pc' = bench_pc,
         \A u \in Bench!Threads \ {t} : /\ q'[u] = q[u] /\ next_key'[u] = next_key[u]
                                        /\ msgs_pending'[u] = msgs_pending[u],
         QueueOf(t)', CountOf(t)'
  PROVE  BenchInv'
<1>1. co \in Bench!AllConns /\ co[1] = t
  BY ConnsOf
<1>2. /\ bench_conn' \in [Bench!AllConns -> ConnState]
      /\ \A e \in Bench!AllConns : bench_conn'[e] = IF e = co THEN c ELSE bench_conn[e]
  BY <1>1 DEF BenchInv, BenchTypes
<1>3. BenchTypes'
  BY <1>2 DEF BenchInv, BenchTypes, Bench!Threads, Bench!AllConns
<1>4. \A e \in Bench!AllConns : Pieces(bench_conn'[e])
  BY <1>2 DEF BenchInv
<1>5. ASSUME NEW u \in Bench!Threads \ {t}
      PROVE  QueueOf(u)' /\ CountOf(u)'
  <2>1. QueueOf(u) /\ CountOf(u)
    BY DEF BenchInv
  <2>2. \A e \in Bench!Conns(u) : bench_conn'[e] = bench_conn[e]
    BY <1>1, <1>2, ConnsOf
  <2> QED
    BY <2>1, <2>2, OtherThread
<1>6. PhasesInv'
  BY DEF BenchInv, PhasesInv, Bench!Threads
<1>7. /\ Bench!AllConns' = Bench!AllConns /\ Bench!Threads' = Bench!Threads
      /\ \A e \in Bench!AllConns : Pieces(bench_conn'[e]) <=> Pieces(bench_conn[e])'
  BY DEF Bench!AllConns, Bench!Threads, Pieces
<1> QED
  BY <1>3, <1>4, <1>5, <1>6, <1>7 DEF BenchInv

\* The benchmark starts.
LEMMA BenchInit == Bench!BenchAssumption /\ Bench!Init => BenchInv
<1> SUFFICES ASSUME Bench!BenchAssumption, Bench!Init PROVE BenchInv
  OBVIOUS
<1>1. /\ phase = "INIT" /\ init_count = 0
      /\ bench_pc = [t \in Bench!Threads |-> "connect"]
      /\ next_key = [t \in Bench!Threads |-> t] /\ msgs_pending = [t \in Bench!Threads |-> 0]
      /\ q = [t \in Bench!Threads |-> <<>>]
      /\ bench_conn = [co \in Bench!AllConns |-> Bench!NewConn]
  BY DEF Bench!Init
<1>2. Bench!NewConn \in ConnState /\ Pieces(Bench!NewConn) /\ Bench!NewConn.pending = 0
      /\ Bench!NewConn.state = "closed"
  BY DEF Bench!NewConn, ConnState, Pieces
<1>3. \A t \in Bench!Threads : t \in Nat
  BY DEF Bench!Threads, Bench!BenchAssumption
<1>4. BenchTypes
  BY <1>1, <1>2, <1>3 DEF BenchTypes, BenchPlaces
<1>5. ASSUME NEW t \in Bench!Threads
      PROVE  QueueOf(t) /\ CountOf(t)
  <2>1. \A co \in Bench!Conns(t) : bench_conn[co] = Bench!NewConn
    BY <1>1, ConnsOf
  <2>2. Busy(t) = {}
    BY <1>2, <2>1 DEF Busy
  <2>3. q[t] = <<>> /\ bench_pc[t] = "connect" /\ msgs_pending[t] = 0
    BY <1>1
  <2>4. Range(q[t]) = {} /\ NoTwice(q[t])
    BY <2>3 DEF Range, NoTwice
  <2> QED
    BY <1>2, <2>1, <2>2, <2>3, <2>4, FS_EmptySet DEF QueueOf, CountOf
<1>6. PhasesInv
  <2>1. {t \in Bench!Threads : bench_pc[t] \in Started} = {}
    BY <1>1 DEF Started
  <2> QED
    BY <1>1, <2>1, FS_EmptySet DEF PhasesInv
<1> QED
  BY <1>1, <1>2, <1>4, <1>5, <1>6 DEF BenchInv

\* The constants of the benchmark.
LEMMA BenchSizes ==
  ASSUME Bench!BenchAssumption
  PROVE  /\ threads \in Nat \ {0} /\ conns \in Nat \ {0} /\ MaxPending \in Nat \ {0}
         /\ keys_num \in Nat /\ MsgLen \in Nat \ {0}
  BY DEF Bench!BenchAssumption

\* What a step of a connection starts from.
LEMMA ConnIs ==
  ASSUME Bench!BenchAssumption, BenchInv, NEW t \in Bench!Threads, NEW co \in Bench!Conns(t)
  PROVE  /\ co \in Bench!AllConns /\ co[1] = t
         /\ bench_conn[co] \in ConnState /\ Pieces(bench_conn[co])
         /\ QueueOf(t) /\ CountOf(t)
         /\ q[t] \in Seq(Bench!AllConns) /\ bench_pc[t] \in BenchPlaces
         /\ next_key[t] \in Nat /\ msgs_pending[t] \in Int
<1>1. co \in Bench!AllConns /\ co[1] = t
  BY ConnsOf
<1> QED
  BY <1>1 DEF BenchInv, BenchTypes

\* The server sends a part of a response.
LEMMA DeliverStep ==
  ASSUME Bench!BenchAssumption, BenchInv, NEW co \in Bench!AllConns, Bench!Deliver(co)
  PROVE  BenchInv'
<1>1. PICK t \in Bench!Threads : co \in Bench!Conns(t)
  BY DEF Bench!AllConns, Bench!Conns
<1>2. PICK b \in ConnState : b = bench_conn[co]
  BY <1>1, ConnIs
<1>3. PICK n \in 1 .. b.owed :
        bench_conn' = [bench_conn EXCEPT ![co].owed = @ - n, ![co].down = @ + n]
  BY <1>2 DEF Bench!Deliver
<1> DEFINE c == [b EXCEPT !.owed = @ - n, !.down = @ + n]
<1>4. bench_conn' = [bench_conn EXCEPT ![co] = c]
  BY <1>1, <1>2, <1>3, ConnIs DEF BenchInv, BenchTypes
<1>5. /\ c.pending = b.pending /\ c.tx = b.tx /\ c.state = b.state /\ c.ep_wr = b.ep_wr
      /\ c.owed = b.owed - n /\ c.down = b.down + n /\ c.rx = b.rx
      /\ n \in Nat /\ b.owed - n \in Nat /\ n > 0
  BY DEF ConnState
<1>6. c \in ConnState /\ Pieces(c)
  <2>1. c \in ConnState
    <3>1. b.owed - n \in Nat /\ b.down + n \in Nat
      BY <1>5 DEF ConnState
    <3> QED
      BY <3>1 DEF ConnState
  <2>2. Pieces(b)
    BY <1>1, <1>2, ConnIs
  <2>3. /\ b.owed \in Nat /\ b.down \in Nat /\ b.rx \in Nat /\ b.tx \in Nat /\ b.pending \in {0, 1}
    BY DEF ConnState
  <2> HIDE DEF c
  <2> QED
    BY <1>5, <2>1, <2>2, <2>3, BenchSizes DEF Pieces
<1>7. UNCHANGED <<phase, init_count, bench_pc, next_key, msgs_pending, q>>
  BY DEF Bench!Deliver
<1>8. QueueOf(t)' /\ CountOf(t)'
  <2>1. \A e \in Bench!Conns(t) : bench_conn'[e] = IF e = co THEN c ELSE bench_conn[e]
    BY <1>4, ConnsOf DEF BenchInv, BenchTypes
  <2> QED
    BY <1>1, <1>2, <1>5, <1>7, <2>1, ConnIs, OtherThread
<1>9. /\ q' \in [Bench!Threads -> Seq(Bench!AllConns)] /\ next_key' \in [Bench!Threads -> Nat]
      /\ msgs_pending' \in [Bench!Threads -> Int]
  BY <1>7 DEF BenchInv, BenchTypes
<1> HIDE DEF c
<1> QED
  BY <1>1, <1>4, <1>6, <1>7, <1>8, <1>9, ConnStep

\* A connection is opened, ...
LEMMA ConnectStep ==
  ASSUME Bench!BenchAssumption, BenchInv, NEW t \in Bench!Threads, NEW co \in Bench!Conns(t),
         Bench!conn_connect(co)
  PROVE  BenchInv'
<1>1. PICK b \in ConnState : b = bench_conn[co]
  BY ConnIs
<1>2. co[1] = t
  BY ConnIs
<1>3. PICK s \in {"open", "connecting"} :
        bench_conn' = [bench_conn EXCEPT ![co].state = s, ![co].ep_wr = TRUE]
  BY DEF Bench!conn_connect
<1> DEFINE c == [b EXCEPT !.state = s, !.ep_wr = TRUE]
<1>4. bench_conn' = [bench_conn EXCEPT ![co] = c]
  BY <1>1, <1>3, ConnIs DEF BenchInv, BenchTypes
<1>5. /\ c \in ConnState /\ Pieces(c)
      /\ c.pending = b.pending /\ c.tx = b.tx /\ c.state = s /\ c.ep_wr = TRUE
  <2>1. /\ c \in ConnState
        /\ c.pending = b.pending /\ c.tx = b.tx /\ c.state = s /\ c.ep_wr = TRUE
        /\ c.owed = b.owed /\ c.down = b.down /\ c.rx = b.rx
    BY DEF ConnState
  <2>2. Pieces(b)
    BY <1>1, ConnIs
  <2> HIDE DEF c
  <2> QED
    BY <2>1, <2>2 DEF Pieces
<1>6. /\ UNCHANGED <<phase, init_count, bench_pc, next_key, msgs_pending, q>>
      /\ bench_pc[t] = "connect" /\ b.state = "closed"
  BY <1>1, <1>2 DEF Bench!conn_connect
<1> HIDE DEF c
<1>7. \A e \in Bench!Conns(t) : bench_conn'[e] = IF e = co THEN c ELSE bench_conn[e]
  BY <1>4, ConnsOf DEF BenchInv, BenchTypes
<1>8. Bench!Conns(t)' = Bench!Conns(t)
  BY DEF Bench!Conns
<1>9. QueueOf(t)'
  BY <1>1, <1>5, <1>6, <1>7, <1>8, ConnIs DEF QueueOf
<1>10. Busy(t)' = Busy(t)
  BY <1>1, <1>5, <1>7, <1>8 DEF Busy
<1>11. CountOf(t)'
  BY <1>6, <1>10, ConnIs DEF CountOf
<1>12. /\ q' \in [Bench!Threads -> Seq(Bench!AllConns)] /\ next_key' \in [Bench!Threads -> Nat]
       /\ msgs_pending' \in [Bench!Threads -> Int]
  BY <1>6 DEF BenchInv, BenchTypes
<1> QED
  BY <1>4, <1>5, <1>6, <1>9, <1>11, <1>12, ConnStep

\* ... and found open.
LEMMA OpenStep ==
  ASSUME Bench!BenchAssumption, BenchInv, NEW t \in Bench!Threads, NEW co \in Bench!Conns(t),
         Bench!poll_conns(co)
  PROVE  BenchInv'
<1>1. PICK b \in ConnState : b = bench_conn[co]
  BY ConnIs
<1>2. co[1] = t /\ co \in Bench!AllConns
  BY ConnIs
<1> DEFINE c == [b EXCEPT !.state = "open", !.ep_wr = FALSE]
<1>3. /\ bench_conn' = [bench_conn EXCEPT ![co].state = "open", ![co].ep_wr = FALSE]
      /\ q' = [q EXCEPT ![t] = Append(@, co)]
      /\ UNCHANGED <<phase, init_count, bench_pc, next_key, msgs_pending>>
      /\ bench_pc[t] = "connect" /\ b.ep_wr
  BY <1>1, <1>2 DEF Bench!poll_conns
<1>4. bench_conn' = [bench_conn EXCEPT ![co] = c]
  BY <1>1, <1>3, ConnIs DEF BenchInv, BenchTypes
<1>5. /\ c \in ConnState /\ Pieces(c)
      /\ c.pending = b.pending /\ c.tx = b.tx /\ c.state = "open" /\ c.ep_wr = FALSE
  <2>1. /\ c \in ConnState
        /\ c.pending = b.pending /\ c.tx = b.tx /\ c.state = "open" /\ c.ep_wr = FALSE
        /\ c.owed = b.owed /\ c.down = b.down /\ c.rx = b.rx
    BY DEF ConnState
  <2>2. Pieces(b)
    BY <1>1, ConnIs
  <2> HIDE DEF c
  <2> QED
    BY <2>1, <2>2 DEF Pieces
<1> HIDE DEF c
<1>6. \A e \in Bench!Conns(t) : bench_conn'[e] = IF e = co THEN c ELSE bench_conn[e]
  BY <1>4, ConnsOf DEF BenchInv, BenchTypes
<1>7. Bench!Conns(t)' = Bench!Conns(t)
  BY DEF Bench!Conns
<1>8. /\ q'[t] = Append(q[t], co) /\ q' \in [Bench!Threads -> Seq(Bench!AllConns)]
      /\ \A u \in Bench!Threads \ {t} : q'[u] = q[u]
  BY <1>2, <1>3 DEF BenchInv, BenchTypes
<1>9. co \notin Range(q[t]) /\ NoTwice(q[t])
  BY <1>1, <1>3, ConnIs DEF QueueOf
<1>10. NoTwice(q'[t]) /\ Range(q'[t]) = Range(q[t]) \cup {co}
  <2>1. q[t] \in Seq(Bench!AllConns)
    BY ConnIs
  <2>2. NoTwice(Append(q[t], co)) /\ Range(Append(q[t], co)) = Range(q[t]) \cup {co}
    BY <1>2, <1>9, <2>1, NoTwiceAppend
  <2> QED
    BY <1>8, <2>2
<1>11. QueueOf(t)'
  <2>1. QueueOf(t)
    BY ConnIs
  <2>2. bench_pc'[t] = "connect"
    BY <1>3
  <2>3. \A e \in Bench!Conns(t) :
          /\ bench_conn'[e].pending = 0
          /\ e \in Range(q'[t]) <=> (bench_conn'[e].state # "closed" /\ ~bench_conn'[e].ep_wr)
    BY <1>1, <1>3, <1>5, <1>6, <1>10, <2>1 DEF QueueOf
  <2>4. Range(q'[t]) \subseteq Bench!Conns(t)
    BY <1>10, <2>1 DEF QueueOf
  <2> QED
    BY <1>7, <1>10, <2>2, <2>3, <2>4 DEF QueueOf
<1>12. Busy(t)' = Busy(t)
  BY <1>1, <1>5, <1>6, <1>7 DEF Busy
<1>13. CountOf(t)'
  BY <1>3, <1>12, ConnIs DEF CountOf
<1>14. /\ next_key' \in [Bench!Threads -> Nat] /\ msgs_pending' \in [Bench!Threads -> Int]
  BY <1>3 DEF BenchInv, BenchTypes
<1> QED
  BY <1>3, <1>4, <1>5, <1>8, <1>11, <1>13, <1>14, ConnStep

\* A thread goes to another place.
LEMMA PlaceStep ==
  ASSUME Bench!BenchAssumption, BenchInv, NEW t \in Bench!Threads, NEW p \in BenchPlaces,
         bench_pc' = [bench_pc EXCEPT ![t] = p],
         UNCHANGED <<phase, next_key, msgs_pending, q>>,
         bench_conn' \in [Bench!AllConns -> ConnState],
         \A e \in Bench!AllConns : Pieces(bench_conn'[e]),
         \A e \in Bench!AllConns \ Bench!Conns(t) : bench_conn'[e] = bench_conn[e],
         QueueOf(t)', CountOf(t)', PhasesInv'
  PROVE  BenchInv'
<1>1. BenchTypes'
  BY DEF BenchInv, BenchTypes, Bench!Threads, Bench!AllConns
<1>2. ASSUME NEW u \in Bench!Threads \ {t}
      PROVE  QueueOf(u)' /\ CountOf(u)'
  <2>1. QueueOf(u) /\ CountOf(u)
    BY DEF BenchInv
  <2>2. \A e \in Bench!Conns(u) : bench_conn'[e] = bench_conn[e]
    BY ConnsOf
  <2>3. bench_pc'[u] = bench_pc[u]
    BY DEF BenchInv, BenchTypes
  <2> QED
    BY <2>1, <2>2, <2>3, OtherThread
<1>3. /\ Bench!AllConns' = Bench!AllConns /\ Bench!Threads' = Bench!Threads
      /\ \A e \in Bench!AllConns : Pieces(bench_conn'[e]) <=> Pieces(bench_conn[e])'
  BY DEF Bench!AllConns, Bench!Threads, Pieces
<1> QED
  BY <1>1, <1>2, <1>3 DEF BenchInv

\* It is no step of loading keys.
LEMMA SamePhase ==
  ASSUME BenchInv, NEW t \in Bench!Threads, NEW p \in BenchPlaces,
         bench_pc' = [bench_pc EXCEPT ![t] = p], phase' = phase, init_count' = init_count,
         p \in Started <=> bench_pc[t] \in Started,
         p \in {"send", "poll"} => bench_pc[t] \in {"send", "poll"} \/ phase = "RUNNING"
  PROVE  PhasesInv'
<1>1. \A u \in Bench!Threads : bench_pc'[u] = IF u = t THEN p ELSE bench_pc[u]
  BY DEF BenchInv, BenchTypes
<1>2. {u \in Bench!Threads : bench_pc'[u] \in Started} = {u \in Bench!Threads : bench_pc[u] \in Started}
  BY <1>1
<1> QED
  BY <1>1, <1>2 DEF BenchInv, PhasesInv, Bench!Threads

\* All connections are open, and all of them are in the queue.
LEMMA WaitStep ==
  ASSUME Bench!BenchAssumption, BenchInv, NEW t \in Bench!Threads, Bench!wait_conns(t)
  PROVE  BenchInv'
<1>1. /\ bench_pc[t] = "connect" /\ Len(q[t]) = conns
      /\ bench_pc' = [bench_pc EXCEPT ![t] = "loading"]
      /\ bench_conn' = [co \in Bench!AllConns |->
             IF co \in Bench!Conns(t) THEN [bench_conn[co] EXCEPT !.ep_wr = TRUE]
             ELSE bench_conn[co]]
      /\ UNCHANGED <<phase, init_count, next_key, msgs_pending, q>>
  BY DEF Bench!wait_conns
<1>2. QueueOf(t) /\ CountOf(t) /\ q[t] \in Seq(Bench!AllConns)
  BY DEF BenchInv, BenchTypes
<1>3. Range(q[t]) = Bench!Conns(t)
  <2>1. Cardinality(Range(q[t])) = conns
    BY <1>1, <1>2, NoTwiceLen DEF QueueOf
  <2>2. Range(q[t]) \in SUBSET Bench!Conns(t)
    BY <1>2 DEF QueueOf
  <2> QED
    BY <2>1, <2>2, ConnsOf, FS_Subset
<1>4. ASSUME NEW e \in Bench!AllConns
      PROVE  /\ bench_conn'[e] \in ConnState /\ Pieces(bench_conn'[e])
             /\ bench_conn'[e].pending = bench_conn[e].pending
             /\ e \notin Bench!Conns(t) => bench_conn'[e] = bench_conn[e]
  <2>1. PICK b \in ConnState : b = bench_conn[e] /\ Pieces(b)
    BY DEF BenchInv, BenchTypes
  <2> DEFINE c == [b EXCEPT !.ep_wr = TRUE]
  <2>2. /\ c \in ConnState /\ c.pending = b.pending /\ c.tx = b.tx /\ c.owed = b.owed
        /\ c.down = b.down /\ c.rx = b.rx
    BY DEF ConnState
  <2>3. bench_conn'[e] = IF e \in Bench!Conns(t) THEN c ELSE b
    BY <1>1, <2>1
  <2> HIDE DEF c
  <2> QED
    BY <2>1, <2>2, <2>3 DEF Pieces
<1>5. bench_conn' \in [Bench!AllConns -> ConnState]
  <2>1. bench_conn' = [e \in Bench!AllConns |-> bench_conn'[e]]
    BY <1>1
  <2> QED
    BY <1>4, <2>1
<1>6. bench_pc'[t] = "loading"
  BY <1>1 DEF BenchInv, BenchTypes
<1>7. \A e \in Bench!Conns(t) : bench_conn'[e].pending = 0
  BY <1>1, <1>2, <1>4, ConnsOf DEF QueueOf
<1>8. Bench!Conns(t)' = Bench!Conns(t)
  BY DEF Bench!Conns
<1>9. QueueOf(t)'
  BY <1>1, <1>2, <1>3, <1>6, <1>8 DEF QueueOf
<1>10. Busy(t)' = Busy(t)
  BY <1>4, <1>8, ConnsOf DEF Busy
<1>11. CountOf(t)'
  BY <1>1, <1>2, <1>6, <1>7, <1>8, <1>10 DEF CountOf
<1>12. PhasesInv'
  BY <1>1, SamePhase DEF BenchPlaces, Started
<1> QED
  BY <1>1, <1>4, <1>5, <1>9, <1>11, <1>12, PlaceStep DEF BenchPlaces

\* A batch of events begins or ends.
LEMMA BatchStep ==
  ASSUME Bench!BenchAssumption, BenchInv, NEW t \in Bench!Threads,
         Bench!LoadWait(t) \/ Bench!Poll(t) \/ Bench!EventsDone(t)
  PROVE  BenchInv'
<1>1. UNCHANGED <<phase, init_count, next_key, msgs_pending, q, bench_conn>>
  BY DEF Bench!LoadWait, Bench!Poll, Bench!EventsDone
<1>2. PICK p \in BenchPlaces :
         /\ bench_pc' = [bench_pc EXCEPT ![t] = p]
         /\ p = bench_pc[t] \/ (p \in {"send", "poll"} /\ bench_pc[t] \in {"send", "poll"})
  <2>1. CASE Bench!LoadWait(t)
    BY <2>1 DEF Bench!LoadWait, BenchInv, BenchTypes
  <2>2. CASE Bench!Poll(t)
    BY <2>2 DEF Bench!Poll, BenchPlaces
  <2>3. CASE Bench!EventsDone(t)
    BY <2>3 DEF Bench!EventsDone, BenchPlaces
  <2> QED
    BY <2>1, <2>2, <2>3
<1>3. bench_pc'[t] = p
  BY <1>2 DEF BenchInv, BenchTypes
<1>4. QueueOf(t) /\ CountOf(t)
  BY DEF BenchInv
<1>5. Bench!Conns(t)' = Bench!Conns(t) /\ Busy(t)' = Busy(t)
  BY <1>1 DEF Bench!Conns, Busy
<1>6. QueueOf(t)'
  BY <1>1, <1>2, <1>3, <1>4, <1>5 DEF QueueOf
<1>7. CountOf(t)'
  BY <1>1, <1>2, <1>3, <1>4, <1>5 DEF CountOf, Bench!Loading
<1>8. PhasesInv'
  BY <1>1, <1>2, SamePhase DEF Started
<1>9. bench_conn' \in [Bench!AllConns -> ConnState] /\ \A e \in Bench!AllConns : Pieces(bench_conn'[e])
  BY <1>1 DEF BenchInv, BenchTypes
<1> QED
  BY <1>1, <1>2, <1>6, <1>7, <1>8, <1>9, PlaceStep

\* The threads of the benchmark.
LEMMA ThreadsAre ==
  ASSUME Bench!BenchAssumption
  PROVE  IsFiniteSet(Bench!Threads) /\ Cardinality(Bench!Threads) = threads
<1>1. 0 \in Int /\ threads - 1 \in Int /\ threads \in Nat \ {0}
  BY BenchSizes
<1>2. /\ IsFiniteSet(0 .. threads - 1)
      /\ Cardinality(0 .. threads - 1) = IF 0 > threads - 1 THEN 0 ELSE threads - 1 - 0 + 1
  BY <1>1, FS_Interval, Zenon
<1> QED
  BY <1>1, <1>2 DEF Bench!Threads

\* A thread has stored its keys: no response is outstanding.
LEMMA LoadedStep ==
  ASSUME Bench!BenchAssumption, BenchInv, NEW t \in Bench!Threads, Bench!LoadDone(t)
  PROVE  BenchInv'
<1>1. /\ bench_pc[t] = "loading" /\ ~Bench!Loading(t)
      /\ bench_pc' = [bench_pc EXCEPT ![t] = "loaded"] /\ init_count' = init_count + 1
      /\ UNCHANGED <<phase, next_key, msgs_pending, q, bench_conn>>
  BY DEF Bench!LoadDone
<1>2. \A u \in Bench!Threads : bench_pc'[u] = IF u = t THEN "loaded" ELSE bench_pc[u]
  BY <1>1 DEF BenchInv, BenchTypes
<1>3. QueueOf(t) /\ CountOf(t)
  BY DEF BenchInv
<1>4. Bench!Conns(t)' = Bench!Conns(t) /\ Busy(t)' = Busy(t)
  BY <1>1 DEF Bench!Conns, Busy
<1>5. QueueOf(t)'
  BY <1>1, <1>2, <1>3, <1>4 DEF QueueOf
<1>6. CountOf(t)'
  BY <1>1, <1>2, <1>3, <1>4 DEF CountOf, Bench!Loading
<1>7. PhasesInv'
  <2> DEFINE S == {u \in Bench!Threads : bench_pc[u] \in Started}
  <2>1. S \in SUBSET Bench!Threads /\ t \notin S
    BY <1>1 DEF Started
  <2>2. IsFiniteSet(S)
    BY <2>1, ThreadsAre, FS_Subset
  <2>3. Cardinality(S \cup {t}) = Cardinality(S) + 1
    BY <2>1, <2>2, FS_AddElement
  <2>4. {u \in Bench!Threads : bench_pc'[u] \in Started} = S \cup {t}
    BY <1>1, <1>2 DEF Started
  <2>5. init_count = Cardinality(S)
    BY DEF BenchInv, PhasesInv
  <2>6. init_count' = Cardinality({u \in Bench!Threads : bench_pc'[u] \in Started})
    BY <1>1, <2>3, <2>4, <2>5
  <2> HIDE DEF S
  <2> QED
    BY <1>1, <1>2, <2>6 DEF BenchInv, PhasesInv, Bench!Threads, Started
<1>8. bench_conn' \in [Bench!AllConns -> ConnState] /\ \A e \in Bench!AllConns : Pieces(bench_conn'[e])
  BY <1>1 DEF BenchInv, BenchTypes
<1> QED
  BY <1>1, <1>5, <1>6, <1>7, <1>8, PlaceStep DEF BenchPlaces

\* It starts to send: all its connections are in the queue and without a request.
LEMMA RunStep ==
  ASSUME Bench!BenchAssumption, BenchInv, NEW t \in Bench!Threads, Bench!Run(t)
  PROVE  BenchInv'
<1>1. /\ bench_pc[t] = "loaded" /\ phase = "RUNNING"
      /\ bench_pc' = [bench_pc EXCEPT ![t] = "send"]
      /\ UNCHANGED <<phase, init_count, next_key, msgs_pending, q, bench_conn>>
  BY DEF Bench!Run
<1>2. bench_pc'[t] = "send"
  BY <1>1 DEF BenchInv, BenchTypes
<1>3. QueueOf(t) /\ CountOf(t) /\ msgs_pending[t] \in Int
  BY DEF BenchInv, BenchTypes
<1>4. Busy(t) = {} /\ msgs_pending[t] = 0
  <2>1. ~(msgs_pending[t] > 0) /\ msgs_pending[t] = Cardinality(Busy(t))
    BY <1>1, <1>3 DEF CountOf, Bench!Loading
  <2>2. IsFiniteSet(Busy(t)) /\ Cardinality(Busy(t)) \in Nat
    BY BusySets
  <2>3. Cardinality(Busy(t)) = 0
    BY <2>1, <2>2
  <2> QED
    BY <2>1, <2>2, <2>3, FS_EmptySet
<1>5. \A e \in Bench!Conns(t) : bench_conn[e].pending = 0
  <2>1. \A e \in Bench!Conns(t) : bench_conn[e].pending \in {0, 1}
    BY ConnsOf DEF BenchInv, BenchTypes, ConnState
  <2> QED
    BY <1>4, <2>1 DEF Busy
<1>6. Bench!Conns(t)' = Bench!Conns(t) /\ Busy(t)' = Busy(t)
  BY <1>1 DEF Bench!Conns, Busy
<1>7. QueueOf(t)'
  BY <1>1, <1>2, <1>3, <1>5, <1>6 DEF QueueOf
<1>8. CountOf(t)'
  BY <1>1, <1>2, <1>3, <1>4, <1>6, BenchSizes DEF CountOf
<1>9. PhasesInv'
  BY <1>1, SamePhase DEF Started, BenchPlaces
<1>10. bench_conn' \in [Bench!AllConns -> ConnState] /\ \A e \in Bench!AllConns : Pieces(bench_conn'[e])
  BY <1>1 DEF BenchInv, BenchTypes
<1> QED
  BY <1>1, <1>7, <1>8, <1>9, <1>10, PlaceStep DEF BenchPlaces

\* The run begins when as many threads as there are have stored their keys.
LEMMA PhaseStep ==
  ASSUME Bench!BenchAssumption, BenchInv, Bench!Phase
  PROVE  BenchInv'
<1>1. /\ phase # "RUNNING" /\ (phase = "WARMUP" => init_count >= threads)
      /\ phase' \in {"PRELOAD", "WARMUP", "RUNNING"}
      /\ phase' = "RUNNING" => phase = "WARMUP"
      /\ UNCHANGED <<init_count, bench_pc, next_key, msgs_pending, q, bench_conn>>
  BY DEF Bench!Phase, BenchInv, BenchTypes
<1>2. BenchTypes'
  BY <1>1 DEF BenchInv, BenchTypes, Bench!Threads, Bench!AllConns
<1>3. ASSUME NEW t \in Bench!Threads PROVE QueueOf(t)' /\ CountOf(t)'
  <2>1. QueueOf(t) /\ CountOf(t)
    BY DEF BenchInv
  <2> QED
    BY <1>1, <2>1, OtherThread
<1>4. ASSUME phase' = "RUNNING" PROVE \A t \in Bench!Threads : bench_pc[t] \in Started
  <2> DEFINE S == {u \in Bench!Threads : bench_pc[u] \in Started}
  <2>1. S \in SUBSET Bench!Threads /\ Cardinality(S) >= threads
    BY <1>1, <1>4 DEF BenchInv, PhasesInv
  <2>2. Cardinality(S) <= Cardinality(Bench!Threads) /\ IsFiniteSet(S)
    BY <2>1, ThreadsAre, FS_Subset
  <2>3. Cardinality(S) = Cardinality(Bench!Threads)
    BY <2>1, <2>2, ThreadsAre, BenchSizes, FS_CardinalityType
  <2>4. S = Bench!Threads
    BY <2>1, <2>3, ThreadsAre, FS_Subset
  <2> QED
    BY <2>4
<1>5. PhasesInv'
  BY <1>1, <1>4 DEF BenchInv, PhasesInv, Bench!Threads
<1>6. /\ Bench!AllConns' = Bench!AllConns /\ Bench!Threads' = Bench!Threads
      /\ \A e \in Bench!AllConns : Pieces(bench_conn[e])'
  BY <1>1 DEF BenchInv, Bench!AllConns, Bench!Threads, Pieces
<1> QED
  BY <1>2, <1>3, <1>5, <1>6 DEF BenchInv

\* The responses of a connection are read, and none is there before its request has
\* been sent in full.
LEMMA ReadIs ==
  ASSUME Bench!BenchAssumption, NEW b \in ConnState, Pieces(b)
  PROVE  /\ Bench!Read(b) \in ConnState /\ Pieces(Bench!Read(b))
         /\ Bench!Read(b).pending = b.pending /\ Bench!Read(b).tx = b.tx
         /\ Bench!Read(b).ep_wr = b.ep_wr
         /\ b.tx > 0 => b.pending = 1 /\ b.rx = 0 /\ b.down = 0 /\ b.owed = 0
         /\ b.down > 0 \/ Bench!Answered(b) => b.pending = 1 /\ b.tx = 0
         /\ Bench!Answered(b) =>
              /\ Bench!Answer(b) \in ConnState /\ Pieces(Bench!Answer(b))
              /\ Bench!Answer(b).pending = 0 /\ Bench!Answer(b).tx = 0
<1>1. /\ b.owed \in Nat /\ b.down \in Nat /\ b.rx \in Nat /\ b.tx \in Nat /\ b.pending \in {0, 1}
      /\ b.ep_wr \in BOOLEAN /\ b.state \in {"closed", "connecting", "open"}
  BY DEF ConnState
<1>2. PICK r \in ConnState :
        /\ r = Bench!Read(b) /\ r.pending = b.pending /\ r.tx = b.tx /\ r.ep_wr = b.ep_wr
        /\ r.owed = b.owed /\ r.down = 0 /\ r.rx = b.rx + b.down /\ r.state = b.state
  <2>1. PICK v \in Nat : v = b.rx + b.down
    BY <1>1
  <2> DEFINE r == [b EXCEPT !.rx = v, !.down = 0]
  <2>2. /\ r \in ConnState /\ r.pending = b.pending /\ r.tx = b.tx /\ r.ep_wr = b.ep_wr
        /\ r.owed = b.owed /\ r.down = 0 /\ r.rx = v /\ r.state = b.state
    BY DEF ConnState
  <2>3. r = Bench!Read(b)
    BY <2>1 DEF Bench!Read, ConnState
  <2> HIDE DEF r
  <2> QED
    BY <2>1, <2>2, <2>3
<1>3. Pieces(r)
  BY <1>1, <1>2 DEF Pieces
<1>4. b.tx > 0 => b.pending = 1 /\ b.rx = 0 /\ b.down = 0 /\ b.owed = 0
  BY <1>1 DEF Pieces
<1>5. Bench!Answered(b) <=> r.rx >= MsgLen
  BY <1>2 DEF Bench!Answered
<1>6. b.down > 0 \/ Bench!Answered(b) => b.pending = 1 /\ b.tx = 0
  BY <1>1, <1>2, <1>5, BenchSizes DEF Pieces
<1>7. ASSUME Bench!Answered(b)
      PROVE  /\ Bench!Answer(b) \in ConnState /\ Pieces(Bench!Answer(b))
             /\ Bench!Answer(b).pending = 0 /\ Bench!Answer(b).tx = 0
  <2>1. r.rx = MsgLen /\ r.owed = 0 /\ r.down = 0 /\ r.tx = 0 /\ r.pending = 1
    BY <1>1, <1>2, <1>5, <1>6, <1>7, BenchSizes DEF Pieces
  <2> DEFINE a1 == [r EXCEPT !.rx = 0, !.pending = 0]
  <2>2. r.rx - MsgLen = 0 /\ r.pending - 1 = 0
    BY <2>1, BenchSizes
  <2>3. /\ a1 \in ConnState /\ a1.rx = 0 /\ a1.pending = 0 /\ a1.tx = r.tx /\ a1.owed = r.owed
        /\ a1.down = r.down
    BY DEF ConnState
  <2>4. Bench!Answer(b) = a1
    BY <1>2, <2>2 DEF Bench!Answer
  <2> HIDE DEF a1
  <2> QED
    BY <2>1, <2>3, <2>4 DEF Pieces
<1> QED
  BY <1>2, <1>3, <1>4, <1>6, <1>7

\* A socket takes n bytes of a request.
LEMMA SentIs ==
  ASSUME Bench!BenchAssumption, NEW b \in ConnState, b.pending = 1, b.tx > 0, b.rx = 0, b.down = 0,
         b.owed = 0, NEW n \in 0 .. b.tx
  PROVE  /\ Bench!Sent(b, n) \in ConnState /\ Pieces(Bench!Sent(b, n))
         /\ Bench!Sent(b, n).pending = 1 /\ Bench!Sent(b, n).tx = b.tx - n
<1>1. b.tx \in Nat /\ n \in Nat /\ b.tx - n \in Nat /\ b.owed + MsgLen = MsgLen /\ MsgLen \in Nat
  BY BenchSizes DEF ConnState
<1>2. PICK s \in ConnState :
        /\ s = Bench!Sent(b, n) /\ s.tx = b.tx - n /\ s.pending = b.pending /\ s.rx = b.rx
        /\ s.down = b.down /\ s.owed = IF b.tx = n THEN MsgLen ELSE b.owed
  <2>1. PICK v \in Nat : v = b.tx - n
    BY <1>1
  <2>2. PICK w \in Nat : w = IF b.tx = n THEN MsgLen ELSE b.owed
    BY <1>1 DEF ConnState
  <2> DEFINE s == [b EXCEPT !.tx = v, !.owed = w]
  <2>3. /\ s \in ConnState /\ s.tx = v /\ s.pending = b.pending /\ s.rx = b.rx
        /\ s.down = b.down /\ s.owed = w
    BY DEF ConnState
  <2>4. s = Bench!Sent(b, n)
    BY <1>1, <2>1, <2>2 DEF Bench!Sent, ConnState
  <2> HIDE DEF s
  <2> QED
    BY <2>1, <2>2, <2>3, <2>4
<1>3. Pieces(s)
  BY <1>1, <1>2, BenchSizes DEF Pieces
<1> QED
  BY <1>2, <1>3

\* Whether a connection waits for room in its socket says nothing of its bytes.
LEMMA WaitsIs ==
  ASSUME NEW b \in ConnState, Pieces(b), NEW w \in BOOLEAN
  PROVE  LET c == [b EXCEPT !.ep_wr = w]
         IN /\ c \in ConnState /\ Pieces(c) /\ c.ep_wr = w
            /\ c.pending = b.pending /\ c.tx = b.tx
<1> DEFINE c == [b EXCEPT !.ep_wr = w]
<1>1. /\ c \in ConnState /\ c.ep_wr = w /\ c.pending = b.pending /\ c.tx = b.tx /\ c.rx = b.rx
      /\ c.owed = b.owed /\ c.down = b.down
  BY DEF ConnState
<1>2. Pieces(c)
  <2> HIDE DEF c
  <2> QED
    BY <1>1 DEF Pieces
<1> QED
  BY <1>1, <1>2

\* A connection that is handled while keys are stored: a request that waits to be
\* sent is not yet sent in full.
LEMMA LoadConn ==
  ASSUME Bench!BenchAssumption, BenchInv, NEW t \in Bench!Threads, NEW co \in Bench!Conns(t),
         NEW c \in ConnState, Pieces(c), bench_conn' = [bench_conn EXCEPT ![co] = c],
         bench_pc[t] = "loading", c.ep_wr => c.tx > 0 \/ c.pending = 0,
         next_key' \in [Bench!Threads -> Nat], msgs_pending' \in [Bench!Threads -> Int],
         \A u \in Bench!Threads \ {t} : /\ next_key'[u] = next_key[u]
                                        /\ msgs_pending'[u] = msgs_pending[u],
         msgs_pending'[t] = msgs_pending[t] + c.pending - bench_conn[co].pending,
         phase' = phase, init_count' = init_count, bench_pc' = bench_pc, q' = q
  PROVE  BenchInv'
<1>1. q' \in [Bench!Threads -> Seq(Bench!AllConns)]
  BY DEF BenchInv, BenchTypes
<1>2. \A e \in Bench!Conns(t) : bench_conn'[e] = IF e = co THEN c ELSE bench_conn[e]
  BY ConnsOf DEF BenchInv, BenchTypes
<1>3. Bench!Conns(t)' = Bench!Conns(t)
  BY DEF Bench!Conns
<1>4. QueueOf(t)'
  BY <1>3, ConnIs DEF QueueOf
<1>5. CountOf(t)'
  <2>1. msgs_pending'[t] = Cardinality(Busy(t)')
    <3>1. msgs_pending[t] = Cardinality(Busy(t))
      BY ConnIs DEF CountOf
    <3>2. Cardinality(Busy(t)') = Cardinality(Busy(t)) + c.pending - bench_conn[co].pending
      BY BusyStep DEF BenchInv
    <3> QED
      BY <1>1, <3>1, <3>2
  <2>2. \A e \in Bench!Conns(t) : bench_conn'[e].ep_wr => bench_conn'[e].tx > 0 \/ bench_conn'[e].pending = 0
    BY <1>2, ConnIs DEF CountOf
  <2> QED
    BY <1>3, <2>1, <2>2 DEF CountOf
<1> QED
  BY <1>1, <1>4, <1>5, ConnStep

\* A connection that is handled while the benchmark runs: it is in the queue if its

\* request has been answered.
LEMMA RunConn ==
  ASSUME Bench!BenchAssumption, BenchInv, NEW t \in Bench!Threads, NEW co \in Bench!Conns(t),
         NEW c \in ConnState, Pieces(c), bench_conn' = [bench_conn EXCEPT ![co] = c],
         bench_pc[t] \in {"send", "poll"},
         q' \in [Bench!Threads -> Seq(Bench!AllConns)], NoTwice(q'[t]),
         Range(q'[t]) = IF c.pending = 0 THEN Range(q[t]) \cup {co} ELSE Range(q[t]) \ {co},
         msgs_pending' \in [Bench!Threads -> Int],
         \A u \in Bench!Threads \ {t} : q'[u] = q[u] /\ msgs_pending'[u] = msgs_pending[u],
         msgs_pending'[t] = msgs_pending[t] + c.pending - bench_conn[co].pending,
         msgs_pending'[t] <= MaxPending,
         phase' = phase, init_count' = init_count, bench_pc' = bench_pc, next_key' = next_key
  PROVE  BenchInv'
<1>1. next_key' \in [Bench!Threads -> Nat]
  BY DEF BenchInv, BenchTypes
<1>2. \A e \in Bench!Conns(t) : bench_conn'[e] = IF e = co THEN c ELSE bench_conn[e]
  BY ConnsOf DEF BenchInv, BenchTypes
<1>3. Bench!Conns(t)' = Bench!Conns(t)
  BY DEF Bench!Conns
<1>4. QueueOf(t)'
  <2>1. /\ Range(q[t]) \subseteq Bench!Conns(t)
        /\ \A e \in Bench!Conns(t) : e \in Range(q[t]) <=> bench_conn[e].pending = 0
    BY ConnIs DEF QueueOf
  <2>2. Range(q'[t]) \subseteq Bench!Conns(t)
    BY <2>1
  <2>3. \A e \in Bench!Conns(t) : e \in Range(q'[t]) <=> bench_conn'[e].pending = 0
    BY <1>2, <2>1
  <2> QED
    BY <1>3, <2>2, <2>3 DEF QueueOf
<1>5. CountOf(t)'
  <2>1. msgs_pending'[t] = Cardinality(Busy(t)')
    <3>1. msgs_pending[t] = Cardinality(Busy(t))
      BY ConnIs DEF CountOf
    <3>2. Cardinality(Busy(t)') = Cardinality(Busy(t)) + c.pending - bench_conn[co].pending
      BY BusyStep DEF BenchInv
    <3> QED
      BY <1>1, <3>1, <3>2
  <2> QED
    BY <1>1, <2>1 DEF CountOf
<1> QED
  BY <1>1, <1>4, <1>5, ConnStep

\* A part of a response arrives while keys are stored.
LEMMA LoadRecvStep ==
  ASSUME Bench!BenchAssumption, BenchInv, NEW t \in Bench!Threads, NEW co \in Bench!Conns(t),
         Bench!LoadRecv(co)
  PROVE  BenchInv'
<1>1. PICK b \in ConnState : b = bench_conn[co] /\ Pieces(b)
  BY ConnIs
<1>2. co[1] = t /\ msgs_pending[t] \in Int
  BY ConnIs
<1>3. /\ bench_pc[t] = "loading" /\ b.down > 0
      /\ UNCHANGED <<phase, init_count, bench_pc, next_key, q>>
  BY <1>1, <1>2 DEF Bench!LoadRecv, Bench!Readable
<1>4. b.pending = 1 /\ b.tx = 0 /\ ~b.ep_wr
  <2>1. b.pending = 1 /\ b.tx = 0
    BY <1>1, <1>3, ReadIs
  <2> QED
    BY <1>1, <1>3, <2>1, ConnIs DEF CountOf
<1>5. next_key' \in [Bench!Threads -> Nat]
  BY <1>3 DEF BenchInv, BenchTypes
<1>6. PICK c \in ConnState :
        /\ Pieces(c) /\ bench_conn' = [bench_conn EXCEPT ![co] = c]
        /\ c.ep_wr => c.tx > 0 \/ c.pending = 0
        /\ msgs_pending' = [msgs_pending EXCEPT ![t] = msgs_pending[t] + c.pending - b.pending]
  <2>1. CASE Bench!Answered(b)
    <3> DEFINE ans == Bench!Answer(b)
               c == [ans EXCEPT !.ep_wr = TRUE]
    <3>1. ans \in ConnState /\ Pieces(ans) /\ ans.pending = 0 /\ ans.tx = 0
      BY <1>1, <2>1, ReadIs
    <3>2. bench_conn' = [bench_conn EXCEPT ![co] = c]
          /\ msgs_pending' = [msgs_pending EXCEPT ![t] = msgs_pending[t] - 1]
      BY <1>1, <1>2, <2>1 DEF Bench!LoadRecv
    <3> HIDE DEF ans
    <3>3. c \in ConnState /\ Pieces(c) /\ c.ep_wr = TRUE /\ c.pending = 0 /\ c.tx = 0
      BY <3>1, WaitsIs
    <3> HIDE DEF c
    <3>4. msgs_pending[t] - 1 = msgs_pending[t] + c.pending - b.pending
      BY <1>2, <1>4, <3>3
    <3> QED
      BY <3>2, <3>3, <3>4
  <2>2. CASE ~Bench!Answered(b)
    <3> DEFINE c == Bench!Read(b)
    <3>1. bench_conn' = [bench_conn EXCEPT ![co] = c] /\ msgs_pending' = msgs_pending
      BY <1>1, <1>2, <2>2 DEF Bench!LoadRecv
    <3>2. c \in ConnState /\ Pieces(c) /\ c.pending = b.pending /\ c.tx = b.tx /\ c.ep_wr = b.ep_wr
      BY <1>1, ReadIs
    <3> HIDE DEF c
    <3>3. msgs_pending' = [msgs_pending EXCEPT ![t] = msgs_pending[t]]
      BY <3>1 DEF BenchInv, BenchTypes
    <3>4. msgs_pending[t] = msgs_pending[t] + c.pending - b.pending
      BY <1>2, <1>4, <3>2
    <3> QED
      BY <1>4, <3>1, <3>2, <3>3, <3>4
  <2> QED
    BY <2>1, <2>2
<1>7. msgs_pending[t] + c.pending - b.pending \in Int
  BY <1>2, <1>4 DEF ConnState
<1>8. /\ msgs_pending' \in [Bench!Threads -> Int]
      /\ msgs_pending'[t] = msgs_pending[t] + c.pending - b.pending
      /\ \A u \in Bench!Threads \ {t} : msgs_pending'[u] = msgs_pending[u]
  BY <1>6, <1>7 DEF BenchInv, BenchTypes
<1> QED
  BY <1>1, <1>3, <1>5, <1>6, <1>8, LoadConn

\* A connection is given a request.
LEMMA AskIs ==
  ASSUME Bench!BenchAssumption, NEW b \in ConnState, Pieces(b), b.pending = 0
  PROVE  LET c == [b EXCEPT !.tx = MsgLen, !.pending = @ + 1]
         IN /\ c \in ConnState /\ c.pending = 1 /\ c.tx = MsgLen /\ c.tx > 0
            /\ c.rx = 0 /\ c.down = 0 /\ c.owed = 0
<1> DEFINE d == [b EXCEPT !.tx = MsgLen, !.pending = 1]
<1>1. MsgLen \in Nat /\ MsgLen > 0 /\ b.pending + 1 = 1
  BY BenchSizes
<1>2. /\ d \in ConnState /\ d.pending = 1 /\ d.tx = MsgLen
      /\ d.rx = b.rx /\ d.down = b.down /\ d.owed = b.owed
  BY <1>1 DEF ConnState
<1>3. [b EXCEPT !.tx = MsgLen, !.pending = @ + 1] = d
  BY <1>1
<1> HIDE DEF d
<1> QED
  BY <1>1, <1>2, <1>3 DEF Pieces

\* A connection that may write gets the next request, or sends more of the one it has.
LEMMA LoadSendStep ==
  ASSUME Bench!BenchAssumption, BenchInv, NEW t \in Bench!Threads, NEW co \in Bench!Conns(t),
         Bench!LoadSend(co)
  PROVE  BenchInv'
<1>1. PICK b \in ConnState : b = bench_conn[co] /\ Pieces(b)
  BY ConnIs
<1>2. co[1] = t /\ msgs_pending[t] \in Int /\ next_key[t] \in Nat /\ b.tx \in Nat /\ b.pending \in {0, 1}
  BY ConnIs DEF ConnState
<1> DEFINE new == b.tx = 0 /\ next_key[t] < keys_num
           out == IF new THEN [b EXCEPT !.tx = MsgLen, !.pending = @ + 1] ELSE b
<1>3. /\ bench_pc[t] = "loading" /\ b.ep_wr
      /\ IF out.tx = 0 THEN bench_conn' = [bench_conn EXCEPT ![co].ep_wr = FALSE]
         ELSE \E n \in 1 .. out.tx :
                bench_conn' = [bench_conn EXCEPT ![co] = [Bench!Sent(out, n) EXCEPT !.ep_wr = (n < out.tx)]]
      /\ next_key' = [next_key EXCEPT ![t] = IF new THEN next_key[t] + threads ELSE next_key[t]]
      /\ msgs_pending' = [msgs_pending EXCEPT ![t] = IF new THEN msgs_pending[t] + 1 ELSE msgs_pending[t]]
      /\ UNCHANGED <<phase, init_count, bench_pc, q>>
  BY <1>1, <1>2 DEF Bench!LoadSend
<1>4. b.tx > 0 \/ b.pending = 0
  BY <1>1, <1>3, ConnIs DEF CountOf
<1>5. /\ out \in ConnState
      /\ out.pending = b.pending + IF new THEN 1 ELSE 0
      /\ out.tx > 0 => out.pending = 1 /\ out.rx = 0 /\ out.down = 0 /\ out.owed = 0
      /\ out.tx = 0 => out = b
  <2>1. CASE new
    <3>1. b.pending = 0
      BY <1>2, <1>4, <2>1
    <3>2. out = [b EXCEPT !.tx = MsgLen, !.pending = @ + 1]
      BY <2>1
    <3> HIDE DEF out
    <3>3. out \in ConnState /\ out.pending = 1 /\ out.tx > 0 /\ out.rx = 0 /\ out.down = 0 /\ out.owed = 0
      BY <1>1, <3>1, <3>2, AskIs, Zenon
    <3>4. out.tx # 0
      BY <3>3
    <3> QED
      BY <2>1, <3>1, <3>3, <3>4
  <2>2. CASE ~new
    <3>1. out = b
      BY <2>2
    <3> HIDE DEF out
    <3>2. b.tx > 0 => b.pending = 1 /\ b.rx = 0 /\ b.down = 0 /\ b.owed = 0
      BY <1>1, ReadIs
    <3> QED
      BY <1>2, <2>2, <3>1, <3>2
  <2> QED
    BY <2>1, <2>2
<1>6. PICK c \in ConnState :
        /\ Pieces(c) /\ bench_conn' = [bench_conn EXCEPT ![co] = c]
        /\ c.ep_wr => c.tx > 0 \/ c.pending = 0
        /\ c.pending = out.pending
  <2>1. CASE out.tx = 0
    <3> DEFINE c == [b EXCEPT !.ep_wr = FALSE]
    <3>1. bench_conn' = [bench_conn EXCEPT ![co] = c]
      BY <1>1, <1>3, <2>1, ConnIs DEF BenchInv, BenchTypes
    <3>2. c \in ConnState /\ Pieces(c) /\ c.ep_wr = FALSE /\ c.pending = b.pending
      BY <1>1, WaitsIs
    <3> HIDE DEF c
    <3> QED
      BY <1>5, <2>1, <3>1, <3>2
  <2>2. CASE out.tx # 0
    <3>1. PICK n \in 1 .. out.tx :
            bench_conn' = [bench_conn EXCEPT ![co] = [Bench!Sent(out, n) EXCEPT !.ep_wr = (n < out.tx)]]
      BY <1>3, <2>2
    <3> HIDE DEF out
    <3>2. out.tx \in Nat
      BY <1>5 DEF ConnState
    <3>3. out.tx > 0 /\ n \in 0 .. out.tx
      BY <2>2, <3>2
    <3>4. PICK w \in BOOLEAN : w <=> n < out.tx
      OBVIOUS
    <3> DEFINE s == Bench!Sent(out, n)
               c == [s EXCEPT !.ep_wr = w]
    <3>5. s \in ConnState /\ Pieces(s) /\ s.pending = 1 /\ s.tx = out.tx - n
      BY <1>5, <3>3, SentIs
    <3>6. bench_conn' = [bench_conn EXCEPT ![co] = c]
      <4>1. w = (n < out.tx)
        BY <3>4
      <4> QED
        BY <3>1, <4>1
    <3> HIDE DEF s
    <3>7. c \in ConnState /\ Pieces(c) /\ c.ep_wr = w /\ c.pending = s.pending /\ c.tx = s.tx
      BY <3>5, WaitsIs
    <3> HIDE DEF c
    <3>8. c.ep_wr => c.tx > 0
      BY <3>2, <3>3, <3>5, <3>7, <3>4
    <3>9. c.pending = out.pending
      BY <1>5, <3>3, <3>5, <3>7
    <3> QED
      BY <3>5, <3>6, <3>7, <3>8, <3>9
  <2> QED
    BY <2>1, <2>2
<1> HIDE DEF new, out
<1>7. PICK m \in Int : /\ m = msgs_pending[t] + c.pending - b.pending
                       /\ msgs_pending' = [msgs_pending EXCEPT ![t] = m]
  <2>1. (IF new THEN msgs_pending[t] + 1 ELSE msgs_pending[t]) = msgs_pending[t] + c.pending - b.pending
    BY <1>2, <1>5, <1>6
  <2>2. msgs_pending[t] + c.pending - b.pending \in Int
    BY <1>2 DEF ConnState
  <2> QED
    BY <1>3, <2>1, <2>2
<1>8. PICK k \in Nat : next_key' = [next_key EXCEPT ![t] = k]
  <2>1. next_key[t] + threads \in Nat
    BY <1>2, BenchSizes
  <2> QED
    BY <1>2, <1>3, <2>1
<1>9. /\ msgs_pending' \in [Bench!Threads -> Int]
      /\ msgs_pending'[t] = msgs_pending[t] + c.pending - b.pending
      /\ next_key' \in [Bench!Threads -> Nat]
      /\ \A u \in Bench!Threads \ {t} : /\ next_key'[u] = next_key[u]
                                        /\ msgs_pending'[u] = msgs_pending[u]
  BY <1>7, <1>8 DEF BenchInv, BenchTypes
<1> QED
  BY <1>1, <1>3, <1>6, <1>9, LoadConn

\* send_pending: the first connection of the queue has no request, so the assertions
\* hold, and it is given one.
LEMMA SendPendingStep ==
  ASSUME Bench!BenchAssumption, BenchInv, NEW t \in Bench!Threads, Bench!send_pending(t)
  PROVE  BenchInv'
<1> DEFINE co == Head(q[t])
<1>1. /\ q[t] \in Seq(Bench!AllConns) /\ QueueOf(t) /\ msgs_pending[t] \in Int
      /\ bench_pc[t] = "send" /\ q[t] # <<>> /\ msgs_pending[t] < MaxPending
  BY DEF BenchInv, BenchTypes, Bench!send_pending, Bench!MaySend
<1>2. /\ q' = [q EXCEPT ![t] = Tail(q[t])]
      /\ msgs_pending' = [msgs_pending EXCEPT ![t] = msgs_pending[t] + 1]
      /\ UNCHANGED <<phase, init_count, bench_pc, next_key>>
      /\ \E n \in 0 .. MsgLen :
           bench_conn' = [bench_conn EXCEPT ![co] =
              [Bench!Sent([bench_conn[co] EXCEPT !.tx = MsgLen, !.pending = @ + 1], n)
                 EXCEPT !.ep_wr = (n < MsgLen)]]
  BY DEF Bench!send_pending
<1>3. PICK n \in 0 .. MsgLen :
        bench_conn' = [bench_conn EXCEPT ![co] =
           [Bench!Sent([bench_conn[co] EXCEPT !.tx = MsgLen, !.pending = @ + 1], n)
              EXCEPT !.ep_wr = (n < MsgLen)]]
  BY <1>2
<1>4. NoTwice(q[t])
  BY <1>1 DEF QueueOf
<1>5. /\ co \in Range(q[t]) /\ Tail(q[t]) \in Seq(Bench!AllConns)
      /\ NoTwice(Tail(q[t])) /\ Range(Tail(q[t])) = Range(q[t]) \ {co}
  BY <1>1, <1>4, NoTwiceTail
<1>6. co \in Bench!Conns(t) /\ bench_conn[co].pending = 0
  BY <1>1, <1>5 DEF QueueOf
<1> HIDE DEF co
<1>7. PICK b \in ConnState : b = bench_conn[co] /\ Pieces(b) /\ b.pending = 0
  BY <1>6, ConnIs
<1>8. PICK d \in ConnState : /\ d = [b EXCEPT !.tx = MsgLen, !.pending = @ + 1]
                             /\ d.pending = 1 /\ d.tx = MsgLen /\ d.tx > 0
                             /\ d.rx = 0 /\ d.down = 0 /\ d.owed = 0
  BY <1>7, AskIs
<1> DEFINE s == Bench!Sent(d, n)
<1>9. s \in ConnState /\ Pieces(s) /\ s.pending = 1
  <2>1. n \in 0 .. d.tx
    BY <1>8
  <2>2. d.pending = 1 /\ d.tx > 0 /\ d.rx = 0 /\ d.down = 0 /\ d.owed = 0
    BY <1>8
  <2> QED
    BY <2>1, <2>2, SentIs
<1>10. PICK w \in BOOLEAN : w <=> n < MsgLen
  OBVIOUS
<1> DEFINE c == [s EXCEPT !.ep_wr = w]
<1>11. bench_conn' = [bench_conn EXCEPT ![co] = c]
  <2>1. w = (n < MsgLen)
    BY <1>10
  <2> QED
    BY <1>3, <1>7, <1>8, <2>1
<1> HIDE DEF s
<1>12. c \in ConnState /\ Pieces(c) /\ c.pending = s.pending
  BY <1>9, WaitsIs
<1> HIDE DEF c
<1>13. /\ msgs_pending[t] + 1 = msgs_pending[t] + c.pending - bench_conn[co].pending
       /\ msgs_pending[t] + 1 <= MaxPending /\ msgs_pending[t] + 1 \in Int
  BY <1>1, <1>7, <1>9, <1>12, BenchSizes
<1>14. /\ msgs_pending' \in [Bench!Threads -> Int]
       /\ msgs_pending'[t] = msgs_pending[t] + 1
       /\ q' \in [Bench!Threads -> Seq(Bench!AllConns)] /\ q'[t] = Tail(q[t])
       /\ \A u \in Bench!Threads \ {t} : q'[u] = q[u] /\ msgs_pending'[u] = msgs_pending[u]
  BY <1>2, <1>5, <1>13 DEF BenchInv, BenchTypes
<1>15. Range(q'[t]) = IF c.pending = 0 THEN Range(q[t]) \cup {co} ELSE Range(q[t]) \ {co}
  BY <1>5, <1>9, <1>12, <1>14
<1>16. /\ NoTwice(q'[t]) /\ msgs_pending'[t] <= MaxPending
       /\ msgs_pending'[t] = msgs_pending[t] + c.pending - bench_conn[co].pending
  BY <1>5, <1>13, <1>14
<1> QED
  BY <1>1, <1>2, <1>6, <1>11, <1>12, <1>14, <1>15, <1>16, RunConn

\* conn_events: the response is taken, or what is left of the request is sent, and
\* a connection whose response is complete goes to the end of the queue.
LEMMA ConnEventsStep ==
  ASSUME Bench!BenchAssumption, BenchInv, NEW t \in Bench!Threads, NEW co \in Bench!Conns(t),
         NEW n, Bench!conn_events(co, n)
  PROVE  BenchInv'
<1>1. PICK b \in ConnState : b = bench_conn[co] /\ Pieces(b)
  BY ConnIs
<1>2. /\ co[1] = t /\ msgs_pending[t] \in Int /\ q[t] \in Seq(Bench!AllConns) /\ co \in Bench!AllConns
      /\ b.tx \in Nat /\ b.pending \in {0, 1} /\ QueueOf(t) /\ CountOf(t)
  BY ConnIs DEF ConnState
<1> DEFINE full == b.pending > 0 /\ Bench!Answered(b)
           r == IF b.pending = 0 THEN b ELSE IF full THEN Bench!Answer(b) ELSE Bench!Read(b)
           s == IF b.tx = 0 THEN r ELSE Bench!Sent(r, n)
           c == [s EXCEPT !.ep_wr = (s.tx # 0)]
<1>3. /\ bench_pc[t] = "poll" /\ n \in (IF b.tx = 0 THEN {0} ELSE 1 .. b.tx)
      /\ bench_conn' = [bench_conn EXCEPT ![co] = c]
      /\ msgs_pending' = [msgs_pending EXCEPT ![t] = IF full THEN msgs_pending[t] - 1 ELSE msgs_pending[t]]
      /\ q' = [q EXCEPT ![t] = IF full /\ b.pending = 1 THEN Append(q[t], co) ELSE q[t]]
      /\ UNCHANGED <<phase, init_count, bench_pc, next_key>>
  BY <1>1, <1>2 DEF Bench!conn_events
<1>4. /\ r \in ConnState /\ Pieces(r) /\ r.tx = b.tx
      /\ r.pending = IF full THEN 0 ELSE b.pending
      /\ full => b.pending = 1
  <2>1. CASE b.pending = 0
    BY <1>1, <2>1
  <2>2. CASE b.pending = 1 /\ full
    <3>1. r = Bench!Answer(b)
      BY <2>2
    <3>2. b.tx = 0 /\ Bench!Answer(b) \in ConnState /\ Pieces(Bench!Answer(b))
          /\ Bench!Answer(b).pending = 0 /\ Bench!Answer(b).tx = 0
      BY <1>1, <2>2, ReadIs
    <3> QED
      BY <2>2, <3>1, <3>2
  <2>3. CASE b.pending = 1 /\ ~full
    <3>1. r = Bench!Read(b)
      BY <2>3
    <3>2. Bench!Read(b) \in ConnState /\ Pieces(Bench!Read(b))
          /\ Bench!Read(b).pending = b.pending /\ Bench!Read(b).tx = b.tx
      BY <1>1, ReadIs
    <3> QED
      BY <2>3, <3>1, <3>2
  <2> QED
    BY <1>2, <2>1, <2>2, <2>3
<1> HIDE DEF r
<1>5. s \in ConnState /\ Pieces(s) /\ s.pending = r.pending
  <2>1. CASE b.tx = 0
    BY <1>4, <2>1
  <2>2. CASE b.tx # 0
    <3>1. r.tx > 0 /\ n \in 0 .. r.tx
      BY <1>2, <1>3, <1>4, <2>2
    <3>2. r.pending = 1 /\ r.rx = 0 /\ r.down = 0 /\ r.owed = 0
      BY <1>4, <3>1, ReadIs
    <3>3. /\ Bench!Sent(r, n) \in ConnState /\ Pieces(Bench!Sent(r, n))
          /\ Bench!Sent(r, n).pending = 1
      BY <1>4, <3>1, <3>2, SentIs
    <3> QED
      BY <2>2, <3>2, <3>3
  <2> QED
    BY <2>1, <2>2
<1> HIDE DEF s
<1>6. PICK w \in BOOLEAN : w = (s.tx # 0)
  OBVIOUS
<1>7. c = [s EXCEPT !.ep_wr = w]
  BY <1>6
<1> HIDE DEF c
<1>8. c \in ConnState /\ Pieces(c) /\ c.pending = IF full THEN 0 ELSE b.pending
  <2>1. c \in ConnState /\ Pieces(c) /\ c.pending = s.pending
    BY <1>5, <1>7, WaitsIs
  <2> QED
    BY <1>4, <1>5, <2>1
<1> HIDE DEF full
<1>9. PICK m \in Int : /\ m = msgs_pending[t] + c.pending - b.pending /\ m <= MaxPending
                       /\ msgs_pending' = [msgs_pending EXCEPT ![t] = m]
  <2>1. msgs_pending[t] <= MaxPending
    BY <1>2, <1>3 DEF CountOf
  <2>2. (IF full THEN msgs_pending[t] - 1 ELSE msgs_pending[t]) = msgs_pending[t] + c.pending - b.pending
    BY <1>2, <1>4, <1>8
  <2>3. msgs_pending[t] + c.pending - b.pending \in Int
        /\ msgs_pending[t] + c.pending - b.pending <= MaxPending
    BY <1>2, <1>4, <1>8, <2>1, BenchSizes
  <2> QED
    BY <1>3, <2>2, <2>3
<1>10. PICK u \in Seq(Bench!AllConns) :
         /\ q' = [q EXCEPT ![t] = u] /\ NoTwice(u)
         /\ Range(u) = IF c.pending = 0 THEN Range(q[t]) \cup {co} ELSE Range(q[t]) \ {co}
  <2>1. NoTwice(q[t]) /\ (co \in Range(q[t]) <=> b.pending = 0)
    BY <1>1, <1>2, <1>3 DEF QueueOf
  <2>2. CASE full
    <3>1. NoTwice(Append(q[t], co)) /\ Range(Append(q[t], co)) = Range(q[t]) \cup {co}
          /\ Append(q[t], co) \in Seq(Bench!AllConns)
      BY <1>2, <1>4, <2>1, <2>2, NoTwiceAppend
    <3>2. q' = [q EXCEPT ![t] = Append(q[t], co)]
      BY <1>3, <1>4, <2>2
    <3> QED
      BY <1>8, <2>2, <3>1, <3>2
  <2>3. CASE ~full
    <3>1. q' = [q EXCEPT ![t] = q[t]] /\ c.pending = b.pending
      BY <1>3, <1>8, <2>3
    <3>2. Range(q[t]) = IF c.pending = 0 THEN Range(q[t]) \cup {co} ELSE Range(q[t]) \ {co}
      BY <1>2, <2>1, <3>1
    <3> QED
      BY <1>2, <2>1, <3>1, <3>2
  <2> QED
    BY <2>2, <2>3
<1>11. /\ msgs_pending' \in [Bench!Threads -> Int] /\ msgs_pending'[t] = m
       /\ q' \in [Bench!Threads -> Seq(Bench!AllConns)] /\ q'[t] = u
       /\ \A v \in Bench!Threads \ {t} : q'[v] = q[v] /\ msgs_pending'[v] = msgs_pending[v]
  BY <1>9, <1>10 DEF BenchInv, BenchTypes
<1>12. /\ NoTwice(q'[t]) /\ msgs_pending'[t] <= MaxPending
       /\ msgs_pending'[t] = msgs_pending[t] + c.pending - bench_conn[co].pending
       /\ Range(q'[t]) = IF c.pending = 0 THEN Range(q[t]) \cup {co} ELSE Range(q[t]) \ {co}
  BY <1>1, <1>9, <1>10, <1>11
<1> QED
  BY <1>3, <1>8, <1>11, <1>12, RunConn

\* Every step of the benchmark.
LEMMA BenchStepInv ==
  ASSUME Bench!BenchAssumption, BenchInv, [Bench!Next]_benchVars
  PROVE  BenchInv'
<1>1. CASE UNCHANGED benchVars
  <2>1. UNCHANGED <<phase, init_count, bench_pc, next_key, msgs_pending, q, bench_conn>>
    BY <1>1 DEF benchVars
  <2>2. BenchTypes'
    BY <2>1 DEF BenchInv, BenchTypes, Bench!Threads, Bench!AllConns
  <2>3. ASSUME NEW t \in Bench!Threads PROVE QueueOf(t)' /\ CountOf(t)'
    <3>1. QueueOf(t) /\ CountOf(t)
      BY DEF BenchInv
    <3> QED
      BY <2>1, <3>1, OtherThread
  <2>4. PhasesInv'
    BY <2>1 DEF BenchInv, PhasesInv, Bench!Threads
  <2>5. /\ Bench!AllConns' = Bench!AllConns /\ Bench!Threads' = Bench!Threads
        /\ \A e \in Bench!AllConns : Pieces(bench_conn[e])'
    BY <2>1 DEF BenchInv, Bench!AllConns, Bench!Threads, Pieces
  <2> QED
    BY <2>2, <2>3, <2>4, <2>5 DEF BenchInv
<1>2. CASE Bench!Phase
  BY <1>2, PhaseStep
<1>3. CASE \E t \in Bench!Threads : Bench!Step(t)
  <2>1. PICK t \in Bench!Threads : Bench!Step(t)
    BY <1>3
  <2>2. CASE Bench!wait_conns(t)
    BY <2>2, WaitStep
  <2>3. CASE Bench!LoadWait(t) \/ Bench!Poll(t) \/ Bench!EventsDone(t)
    BY <2>3, BatchStep
  <2>4. CASE Bench!LoadDone(t)
    BY <2>4, LoadedStep
  <2>5. CASE Bench!Run(t)
    BY <2>5, RunStep
  <2>6. CASE Bench!send_pending(t)
    BY <2>6, SendPendingStep
  <2>7. CASE \E co \in Bench!Conns(t) :
               \/ Bench!conn_connect(co) \/ Bench!poll_conns(co)
               \/ Bench!LoadRecv(co) \/ Bench!LoadSend(co)
               \/ \E n \in 0 .. MsgLen : Bench!conn_events(co, n)
    BY <2>7, ConnectStep, OpenStep, LoadRecvStep, LoadSendStep, ConnEventsStep
  <2> QED
    BY <2>1, <2>2, <2>3, <2>4, <2>5, <2>6, <2>7 DEF Bench!Step
<1>4. CASE \E co \in Bench!AllConns : Bench!Deliver(co)
  BY <1>4, DeliverStep
<1> QED
  BY <1>1, <1>2, <1>3, <1>4 DEF Bench!Next

\* The operators of the modules BenchClient extends are those of this module.
LEMMA SameOperators ==
  /\ \A S : Bench!Cardinality(S) = Cardinality(S)
  /\ \A s : Bench!Range(s) = Range(s)
<1>1. ASSUME NEW S PROVE Bench!Cardinality(S) = Cardinality(S)
  BY Zenon DEF Bench!Cardinality, Cardinality, Bench!IsFiniteSet, IsFiniteSet
<1>2. ASSUME NEW s PROVE Bench!Range(s) = Range(s)
  BY DEF Bench!Range, Range
<1> QED
  BY <1>1, <1>2

\* The invariant says what BenchSafe says.
LEMMA BenchInvSafe ==
  ASSUME Bench!BenchAssumption, BenchInv
  PROVE  Bench!BenchSafe
<1>1. ASSUME NEW co \in Bench!AllConns
      PROVE  /\ bench_conn[co].pending \in {0, 1}
             /\ (bench_conn[co].pending = 1) = Bench!InFlight(bench_conn[co])
  <2>1. PICK b \in ConnState : b = bench_conn[co] /\ Pieces(b)
    BY DEF BenchInv, BenchTypes
  <2>2. /\ b.owed \in Nat /\ b.down \in Nat /\ b.rx \in Nat /\ b.tx \in Nat /\ b.pending \in {0, 1}
    BY DEF ConnState
  <2>3. b.pending = 1 <=> (b.tx > 0 \/ b.owed + b.down + b.rx > 0)
    BY <2>1, <2>2, BenchSizes DEF Pieces
  <2> QED
    BY <2>1, <2>2, <2>3 DEF Bench!InFlight
<1>2. ASSUME NEW t \in Bench!Threads
      PROVE  msgs_pending[t] = Cardinality({co \in Bench!Conns(t) : bench_conn[co].pending = 1})
  BY DEF BenchInv, CountOf, Busy
<1>3. ASSUME NEW t \in Bench!Threads, Bench!Running(t)
      PROVE  /\ msgs_pending[t] <= MaxPending
             /\ \A co \in Bench!Conns(t) : (co \in Range(q[t])) = (bench_conn[co].pending = 0)
             /\ Len(q[t]) = Cardinality(Range(q[t]))
  <2>1. QueueOf(t) /\ CountOf(t) /\ q[t] \in Seq(Bench!AllConns) /\ bench_pc[t] \in {"send", "poll"}
    BY <1>3 DEF BenchInv, BenchTypes, Bench!Running
  <2>2. Len(q[t]) = Cardinality(Range(q[t]))
    BY <2>1, NoTwiceLen DEF QueueOf
  <2>3. \A co \in Bench!Conns(t) : co \in Range(q[t]) <=> bench_conn[co].pending = 0
    BY <2>1 DEF QueueOf
  <2> QED
    BY <2>1, <2>2, <2>3 DEF CountOf
<1>4. ASSUME NEW t \in Bench!Threads, Bench!Running(t), NEW u \in Bench!Threads
      PROVE  Bench!Running(u) \/ ~Bench!Loading(u)
  <2>1. phase = "RUNNING"
    BY <1>4 DEF BenchInv, PhasesInv, Bench!Running
  <2>2. bench_pc[u] \in Started
    BY <2>1 DEF BenchInv, PhasesInv
  <2>3. bench_pc[u] = "loaded" => ~Bench!Loading(u)
    BY DEF BenchInv, CountOf
  <2> QED
    BY <2>2, <2>3 DEF Started, Bench!Running
<1>5. ASSUME NEW t \in Bench!Threads
      PROVE  /\ msgs_pending[t] = Cardinality({co \in Bench!Conns(t) : bench_conn[co].pending = 1})
             /\ Bench!Running(t) =>
                  /\ msgs_pending[t] <= MaxPending
                  /\ \A co \in Bench!Conns(t) : (co \in Range(q[t])) = (bench_conn[co].pending = 0)
                  /\ Len(q[t]) = Cardinality(Range(q[t]))
                  /\ \A u \in Bench!Threads : Bench!Running(u) \/ ~Bench!Loading(u)
  BY <1>2, <1>3, <1>4, Zenon
<1> QED
  BY <1>1, <1>5, SameOperators, Zenon DEF Bench!BenchSafe

(***************************************************************************)
(* What the runs check: the specification of MCThreads, of which each      *)
(* behaviour runs one component.                                           *)
(***************************************************************************)

\* A step of the composition is a step of the component that runs, if any.
LEMMA OneComponent ==
  ASSUME [Next]_vars
  PROVE  /\ used' = used
         /\ [Ring!Next]_(Ring!vars) /\ [Dq!Next]_(Dq!vars)
         /\ used = "bench" => [Bench!Next]_benchVars
         /\ used = "server" => [Server!Next]_serverVars
<1>1. used' = used
  BY DEF Next, ContainerStep, ModeStep, PageStep, CopyStep, BenchStep, ServerStep, vars
<1>2. [Ring!Next]_(Ring!vars)
  BY DEF Next, ContainerStep, ModeStep, PageStep, CopyStep, BenchStep, ServerStep, vars,
         containers, ringVars, Ring!vars
<1>3. [Dq!Next]_(Dq!vars)
  BY DEF Next, ContainerStep, ModeStep, PageStep, CopyStep, BenchStep, ServerStep, vars,
         containers, dqVars, Dq!vars
<1>4. used = "bench" => [Bench!Next]_benchVars
  BY DEF Next, ContainerStep, ModeStep, PageStep, CopyStep, BenchStep, ServerStep, vars,
         benchVars
<1>5. used = "server" => [Server!Next]_serverVars
  BY DEF Next, ContainerStep, ModeStep, PageStep, CopyStep, BenchStep, ServerStep, vars,
         serverVars
<1> QED
  BY <1>1, <1>2, <1>3, <1>4, <1>5

\* The ring of neighbours shows what it will return, and mod_page_dq holds and
\* delivers the page changes in order, for every capacity, every number of changes
\* and every growth; the policy thread reads another change only from a slot that a
\* producer has filled since kdq_shift returned it.
THEOREM RingsAreRight == Spec => []RingsRight
<1> DEFINE I == RingInv /\ QueueInv /\ OrderInv
<1>1. Ring!CapacityAssumption
  BY ThreadsAssumption
<1>2. Init => I
  BY <1>1, RingInit, QueueInit DEF Init
<1>3. I /\ [Next]_vars => I'
  BY <1>1, OneComponent, RingStep, QueueStep
<1>4. I => RingsRight
  BY <1>1, PeekIsWalk, HoldsQueue DEF RingsRight, OrderInv, Dq!ProcessedInOrder
<1> QED
  BY <1>2, <1>3, <1>4, PTL DEF Spec

\* No byte of a request or of an answer is lost or made up between a client and the
\* server, in whatever pieces they come, and the worker waits for room in a socket
\* only while it has something to send: for every number of connections and
\* requests, every length of a request, and as long as fewer than 2^16 bytes have
\* been received into a buffer (when more are, conn_recv's 16-bit length wraps; the
\* run long_request shows what a longer request meets).
THEOREM ServerIsSafe == Spec => []ServerSafe
<1> DEFINE I == used = "server" /\ ~overrun => ServerInv
<1>1. Server!ServerAssumption
  BY ThreadsAssumption
<1>2. Init => I
  BY <1>1, ServerInit DEF Init
<1>3. I /\ [Next]_vars => I'
  <2> SUFFICES ASSUME I, [Next]_vars, used' = "server", ~overrun' PROVE ServerInv'
    OBVIOUS
  <2>1. used = "server" /\ [Server!Next]_serverVars
    BY OneComponent
  <2>2. ~overrun
    BY <2>1 DEF Server!Next, serverVars
  <2> QED
    BY <1>1, <2>1, <2>2, ServerStepInv
<1>4. I => ServerSafe
  BY <1>1, ServerSafeHolds DEF ServerSafe, Server!ServerSafe
<1> QED
  BY <1>2, <1>3, <1>4, PTL DEF Spec

\* However requests and responses are cut into pieces, the load generator has at
\* most one request outstanding on a connection, counts the outstanding ones, keeps
\* them below its limit, finds each connection without a request once in its queue,
\* and starts no thread before all keys are stored: for every number of threads,
\* connections, keys and outstanding requests, and every length of a message.
THEOREM BenchIsSafe == Spec => []BenchSafe
<1> DEFINE I == used = "bench" => BenchInv
<1>1. Bench!BenchAssumption
  BY ThreadsAssumption
<1>2. Init => I
  BY <1>1, BenchInit DEF Init
<1>3. I /\ [Next]_vars => I'
  BY <1>1, OneComponent, BenchStepInv
<1>4. I => BenchSafe
  BY <1>1, BenchInvSafe DEF BenchSafe
<1> QED
  BY <1>2, <1>3, <1>4, PTL DEF Spec

(***************************************************************************)
(* The page under migration (PageCopy): the inductive invariant.           *)
(***************************************************************************)

Stores == [word : PageWords, value : Values]

PageTypes == /\ data \in [Page!Frames -> [PageWords -> Values]]
             /\ mapped \in Page!Frames
             /\ protected \in BOOLEAN /\ migrating \in BOOLEAN
             /\ migrator \in {"idle", "protect", "copy", "done"}
             /\ copied \subseteq PageWords
             /\ blocked \subseteq AppThreads
             /\ handler \in {"poll", "spin", "wake"}
             /\ want \in [AppThreads -> Stores \cup {Nothing}]
             /\ got \in [AppThreads -> Stores \cup {Nothing}]

\* The page is protected exactly while the copy runs, words are copied only
\* then, and the fault thread is held back for as long as the migration lasts.
MigratingInv == /\ protected <=> migrator = "copy"
                /\ copied # {} => migrator = "copy"
                /\ migrating <=> migrator # "idle"

CopyInv == PageTypes /\ MigratingInv /\ Page!CopyFaithful

\* There are two frames, and the other one is another one.
LEMMA OtherFrame ==
  ASSUME NEW f \in Page!Frames
  PROVE  Page!Other(f) \in Page!Frames /\ Page!Other(f) # f
  BY DEF Page!Frames, Page!Other

\* At first nothing is copied.
LEMMA PageCopyInit == Page!Init => CopyInv
<1> SUFFICES ASSUME Page!Init PROVE CopyInv
  OBVIOUS
<1>1. data \in [Page!Frames -> [PageWords -> Values]]
  <2>1. PICK zero \in Values, junk \in Values :
          data = [f \in Page!Frames |-> [i \in PageWords |-> IF f = "dram" THEN zero ELSE junk]]
    BY DEF Page!Init
  <2>2. ASSUME NEW f \in Page!Frames
        PROVE  [i \in PageWords |-> IF f = "dram" THEN zero ELSE junk] \in [PageWords -> Values]
    OBVIOUS
  <2> QED
    BY <2>1, <2>2
<1>2. want \in [AppThreads -> Stores \cup {Nothing}] /\ got \in [AppThreads -> Stores \cup {Nothing}]
  BY DEF Page!Init
<1> QED
  BY <1>1, <1>2 DEF Page!Init, CopyInv, PageTypes, MigratingInv, Page!CopyFaithful, Page!Frames

\* A store changes one word of the mapped frame only, and only while the page
\* is not protected.
LEMMA StoreStep ==
  ASSUME CopyInv, NEW t \in AppThreads, Page!Store(t)
  PROVE  /\ CopyInv'
         /\ data'[mapped'] = [data[mapped] EXCEPT ![want[t].word] = want[t].value]
<1>1. want[t] \in Stores
  BY DEF Page!Store, CopyInv, PageTypes
<1>2. want[t].word \in PageWords /\ want[t].value \in Values
  BY <1>1 DEF Stores
<1>3. data' \in [Page!Frames -> [PageWords -> Values]]
  BY <1>2 DEF Page!Store, CopyInv, PageTypes
<1>4. data'[mapped'] = [data[mapped] EXCEPT ![want[t].word] = want[t].value]
  BY DEF Page!Store, CopyInv, PageTypes
<1>5. want' \in [AppThreads -> Stores \cup {Nothing}]
  BY DEF Page!Store, CopyInv, PageTypes
<1>6. migrator' = migrator /\ migrator # "copy"
  BY DEF Page!Store, CopyInv, MigratingInv, Page!migratorVars
<1> QED
  BY <1>3, <1>4, <1>5, <1>6
     DEF Page!Store, CopyInv, PageTypes, MigratingInv, Page!CopyFaithful, Page!migratorVars

\* Copying a word changes the other frame only.
LEMMA CopyWordStep ==
  ASSUME CopyInv, NEW i \in PageWords, Page!CopyWord(i)
  PROVE  CopyInv' /\ data'[mapped'] = data[mapped]
<1>1. Page!Other(mapped) \in Page!Frames /\ Page!Other(mapped) # mapped
  BY OtherFrame DEF CopyInv, PageTypes
<1>2. data[mapped][i] \in Values
  BY DEF CopyInv, PageTypes
<1>3. data' \in [Page!Frames -> [PageWords -> Values]]
  BY <1>1, <1>2 DEF Page!CopyWord, CopyInv, PageTypes
<1>4. mapped' = mapped /\ data'[mapped] = data[mapped]
  BY <1>1 DEF Page!CopyWord, CopyInv, PageTypes
<1>5. data'[Page!Other(mapped)] = [data[Page!Other(mapped)] EXCEPT ![i] = data[mapped][i]]
  BY <1>1 DEF Page!CopyWord, CopyInv, PageTypes
<1>6. ASSUME NEW j \in copied'
      PROVE  data'[Page!Other(mapped)][j] = data'[mapped][j]
  <2>1. data[Page!Other(mapped)] \in [PageWords -> Values] /\ j \in copied \cup {i}
    BY <1>1, <1>6 DEF Page!CopyWord, CopyInv, PageTypes
  <2>2. CASE j = i
    BY <1>4, <1>5, <2>1, <2>2
  <2>3. CASE j # i
    <3>1. j \in copied /\ j \in PageWords
      BY <2>1, <2>3 DEF CopyInv, PageTypes
    <3>2. data[Page!Other(mapped)][j] = data[mapped][j]
      BY <3>1 DEF CopyInv, Page!CopyFaithful, Page!CopyWord
    <3> QED
      BY <1>4, <1>5, <2>1, <2>3, <3>1, <3>2
  <2> QED
    BY <2>2, <2>3
<1>7. Page!CopyFaithful'
  BY <1>4, <1>6 DEF Page!CopyFaithful, Page!Other
<1>8. PageTypes'
  BY <1>3 DEF Page!CopyWord, CopyInv, PageTypes, Page!appVars
<1>9. MigratingInv'
  BY DEF Page!CopyWord, CopyInv, MigratingInv
<1> QED
  BY <1>4, <1>7, <1>8, <1>9 DEF CopyInv

\* When every word is copied the frames are equal: mapping the other one
\* changes nothing for a load.
LEMMA RemapStep ==
  ASSUME CopyInv, Page!arms_migrate
  PROVE  CopyInv' /\ data'[mapped'] = data[mapped]
<1>1. Page!Other(mapped) \in Page!Frames
  BY OtherFrame DEF CopyInv, PageTypes
<1>2. data[Page!Other(mapped)] \in [PageWords -> Values] /\ data[mapped] \in [PageWords -> Values]
  BY <1>1 DEF CopyInv, PageTypes
<1>3. \A i \in PageWords : data[Page!Other(mapped)][i] = data[mapped][i]
  BY DEF Page!arms_migrate, CopyInv, Page!CopyFaithful
<1>4. data[Page!Other(mapped)] = data[mapped]
  BY <1>2, <1>3
<1>5. PageTypes'
  BY <1>1 DEF Page!arms_migrate, CopyInv, PageTypes, Page!appVars
<1>6. MigratingInv' /\ Page!CopyFaithful'
  BY DEF Page!arms_migrate, CopyInv, MigratingInv, Page!CopyFaithful
<1>7. data' = data /\ mapped' = Page!Other(mapped)
  BY DEF Page!arms_migrate
<1> QED
  BY <1>4, <1>5, <1>6, <1>7 DEF CopyInv

\* The steps that touch no frame keep the invariant and what is mapped.
LEMMA OtherSteps ==
  ASSUME CopyInv,
         \/ \E t \in AppThreads : Page!BeginStore(t) \/ Page!WpFault(t) \/ Page!Load(t)
         \/ Page!HandlerNext \/ Page!BeginMigration \/ Page!arms_wp_page \/ Page!EndMigration
         \/ UNCHANGED Page!vars
  PROVE  CopyInv' /\ data'[mapped'] = data[mapped]
<1>1. ASSUME NEW t \in AppThreads, Page!BeginStore(t)
      PROVE  CopyInv' /\ data'[mapped'] = data[mapped]
  <2>1. PICK i \in PageWords, x \in Values : want' = [want EXCEPT ![t] = [word |-> i, value |-> x]]
    BY <1>1 DEF Page!BeginStore
  <2>2. [word |-> i, value |-> x] \in Stores
    BY DEF Stores
  <2>3. /\ want' \in [AppThreads -> Stores \cup {Nothing}]
        /\ got' \in [AppThreads -> Stores \cup {Nothing}]
    BY <1>1, <2>1, <2>2 DEF Page!BeginStore, CopyInv, PageTypes
  <2> QED
    BY <1>1, <2>3 DEF Page!BeginStore, CopyInv, PageTypes, MigratingInv, Page!CopyFaithful, Page!migratorVars
<1>2. ASSUME NEW t \in AppThreads, Page!Load(t)
      PROVE  CopyInv' /\ data'[mapped'] = data[mapped]
  <2>1. PICK i \in PageWords : got' = [got EXCEPT ![t] = [word |-> i, value |-> data[mapped][i]]]
    BY <1>2 DEF Page!Load
  <2>2. data[mapped][i] \in Values
    BY DEF CopyInv, PageTypes
  <2>3. [word |-> i, value |-> data[mapped][i]] \in Stores
    BY <2>2 DEF Stores
  <2>4. got' \in [AppThreads -> Stores \cup {Nothing}]
    BY <2>1, <2>3 DEF CopyInv, PageTypes
  <2> QED
    BY <1>2, <2>4 DEF Page!Load, CopyInv, PageTypes, MigratingInv, Page!CopyFaithful, Page!migratorVars
<1>3. ASSUME NEW t \in AppThreads, Page!WpFault(t)
      PROVE  CopyInv' /\ data'[mapped'] = data[mapped]
  BY <1>3 DEF Page!WpFault, CopyInv, PageTypes, MigratingInv, Page!CopyFaithful, Page!migratorVars, Page!appVars
<1>4. CASE Page!HandlerNext
  BY <1>4 DEF Page!HandlerNext, Page!ReadMessage, Page!handle_wp_fault, Page!Wake, CopyInv, PageTypes, MigratingInv,
              Page!CopyFaithful, Page!migratorVars, Page!appVars
<1>5. CASE Page!BeginMigration \/ Page!arms_wp_page \/ Page!EndMigration
  <2>1. PageTypes'
    BY <1>5 DEF Page!BeginMigration, Page!arms_wp_page, Page!EndMigration, CopyInv, PageTypes, Page!appVars
  <2>2. MigratingInv' /\ copied' = copied /\ data' = data /\ mapped' = mapped
    BY <1>5 DEF Page!BeginMigration, Page!arms_wp_page, Page!EndMigration, CopyInv, MigratingInv
  <2>3. copied # {} => migrator = "copy"
    BY DEF CopyInv, MigratingInv
  <2>4. Page!CopyFaithful'
    BY <2>2, <2>3 DEF CopyInv, Page!CopyFaithful
  <2> QED
    BY <2>1, <2>2, <2>4 DEF CopyInv
<1>6. CASE UNCHANGED Page!vars
  BY <1>6 DEF Page!vars, CopyInv, PageTypes, MigratingInv, Page!CopyFaithful, Page!migratorVars, Page!appVars
<1> QED
  BY <1>1, <1>2, <1>3, <1>4, <1>5, <1>6

\* Every step keeps the invariant.
LEMMA PageCopyStep == CopyInv /\ [Page!Next]_(Page!vars) => CopyInv'
  BY StoreStep, CopyWordStep, RemapStep, OtherSteps DEF Page!Next, Page!AppNext, Page!GoOn

\* No store reaches the page while a migration copies it: what was copied is
\* what is still there, for any number of threads and words.  It is the write
\* protection of arms_wp_page, kept until the remap, that makes it so.
THEOREM CopyIsFaithful == Page!Init /\ [][Page!Next]_(Page!vars) => []Page!CopyFaithful
<1>1. CopyInv => Page!CopyFaithful
  BY DEF CopyInv
<1> QED
  BY <1>1, PageCopyInit, PageCopyStep, PTL

(***************************************************************************)
(* PageCopy: the refinement.                                               *)
(***************************************************************************)

\* AtomicPage without its fairness.
InvisibleSafe == Page!Atomic!Init /\ [][Page!Atomic!Next]_(Page!Atomic!vars)

\* The application starts with one page of equal words.
LEMMA PageInitRefines == Page!Init => Page!Atomic!Init
<1> SUFFICES ASSUME Page!Init PROVE Page!Atomic!Init
  OBVIOUS
<1>1. PICK zero \in Values, junk \in Values :
        data = [f \in Page!Frames |-> [i \in PageWords |-> IF f = "dram" THEN zero ELSE junk]]
  BY DEF Page!Init
<1>2. data[mapped] = [i \in PageWords |-> zero]
  BY <1>1 DEF Page!Init, Page!Frames
<1>3. data[mapped] \in {[i \in PageWords |-> x] : x \in Values}
  BY <1>2
<1> QED
  BY <1>3 DEF Page!Init, Page!Atomic!Init

\* Every step is one of the abstract page or invisible.
LEMMA PageStepRefines == CopyInv /\ [Page!Next]_(Page!vars) => [Page!Atomic!Next]_(Page!Atomic!vars)
<1> SUFFICES ASSUME CopyInv, [Page!Next]_(Page!vars) PROVE [Page!Atomic!Next]_(Page!Atomic!vars)
  OBVIOUS
<1>1. ASSUME NEW t \in AppThreads, Page!Store(t)
      PROVE  Page!Atomic!EndStore(t)
  BY <1>1, StoreStep DEF Page!Store, Page!Atomic!EndStore
<1>2. ASSUME NEW t \in AppThreads, Page!BeginStore(t)
      PROVE  Page!Atomic!BeginStore(t)
  BY <1>2 DEF Page!BeginStore, Page!Atomic!BeginStore
<1>3. ASSUME NEW t \in AppThreads, Page!Load(t)
      PROVE  Page!Atomic!Load(t)
  BY <1>3 DEF Page!Load, Page!Atomic!Load
<1>4. ASSUME \/ \E t \in AppThreads : Page!WpFault(t)
             \/ Page!HandlerNext \/ Page!BeginMigration \/ Page!GoOn \/ UNCHANGED Page!vars
      PROVE  UNCHANGED Page!Atomic!vars
  <2>1. data'[mapped'] = data[mapped]
    BY <1>4, OtherSteps, CopyWordStep, RemapStep DEF Page!GoOn
  <2>2. UNCHANGED Page!appVars
    BY <1>4 DEF Page!WpFault, Page!HandlerNext, Page!ReadMessage, Page!handle_wp_fault, Page!Wake, Page!BeginMigration,
                Page!GoOn, Page!arms_wp_page, Page!arms_migrate, Page!EndMigration, Page!CopyWord, Page!vars
  <2> QED
    BY <2>1, <2>2 DEF Page!Atomic!vars, Page!appVars
<1> QED
  BY <1>1, <1>2, <1>3, <1>4 DEF Page!Next, Page!AppNext, Page!Atomic!Next

\* Whatever migrates the page and however often, a load returns what the last
\* store to its word put there, and a store takes effect once: PageCopy
\* implements AtomicPage (its liveness half is what TLC checks).
THEOREM MigrationInvisible == Page!Init /\ [][Page!Next]_(Page!vars) => InvisibleSafe
  BY PageCopyInit, PageCopyStep, PageInitRefines, PageStepRefines, PTL DEF InvisibleSafe
(***************************************************************************)
(* ParallelCopy, for any callers and not only the three of MCThreads: the  *)
(* chunks.                                                                 *)
(***************************************************************************)

CONSTANTS Callers, Writes, Reads   \* see ParallelCopy

Parallel == INSTANCE ParallelCopy

CopyTids == 0 .. MAX_COPY_THREADS - 1
CopyWords == 0 .. length - 1
\* The words of copy thread t are those from Low(t) up to High(t).
Low(t) == t * Parallel!chunk_size
High(t) == (t + 1) * Parallel!chunk_size

\* A number is a multiple of R and its remainder.
LEMMA Multiple ==
  ASSUME NEW R \in Nat \ {0}, NEW x \in Nat
  PROVE  \E k \in Nat : x \div R = k /\ R * k <= x /\ x < R * k + R
                        /\ (x % R = 0 => x = R * k)
<1>1. x \div R \in Nat
  BY SMTT(60)
<1>2. x = R * (x \div R) + (x % R)
  BY SMTT(60)
<1>3. x % R \in 0 .. R - 1
  OBVIOUS
<1>4. PICK k \in Nat, r \in 0 .. R - 1 : k = x \div R /\ r = x % R
  BY <1>1, <1>3
<1>5. x = R * k + r
  BY <1>2, <1>4, Zenon
<1>6. R * k \in Nat
  OBVIOUS
<1>7. R * k <= x /\ x < R * k + R /\ (r = 0 => x = R * k)
  BY <1>5, <1>6
<1> QED
  BY <1>4, <1>7, Zenon

\* The chunks cover the page.
LEMMA Chunks ==
  ASSUME Parallel!ParallelAssumption
  PROVE  /\ \A t \in CopyTids : /\ Low(t) \in Nat /\ High(t) \in Nat /\ Low(t) <= High(t)
                                /\ High(t) <= length
         /\ \A i \in CopyWords : \E t \in CopyTids : Low(t) <= i /\ i < High(t)
<1>1. PICK M \in Nat \ {0} : M = MAX_COPY_THREADS
  BY DEF Parallel!ParallelAssumption
<1>2. length \in Nat /\ length % M = 0
  BY <1>1 DEF Parallel!ParallelAssumption
<1>3. PICK C \in Nat : C = length \div M /\ length = M * C
  BY <1>2, Multiple
<1>4. Parallel!chunk_size = C
  BY <1>1, <1>3 DEF Parallel!chunk_size
<1>5. ASSUME NEW t \in CopyTids
      PROVE  /\ Low(t) \in Nat /\ High(t) \in Nat /\ Low(t) <= High(t)
             /\ High(t) <= length
  <2>1. t \in Nat /\ t + 1 \in Nat /\ t + 1 <= M
    BY <1>1 DEF CopyTids
  <2>2. t * C \in Nat /\ (t + 1) * C = t * C + C
    BY <2>1, SMTT(60)
  <2>3. (t + 1) * C <= M * C
    BY <2>1, SMTT(60)
  <2> QED
    BY <1>3, <1>4, <2>2, <2>3 DEF Low, High
<1>6. ASSUME NEW i \in CopyWords
      PROVE  \E t \in CopyTids : Low(t) <= i /\ i < High(t)
  <2>1. i \in Nat /\ i < M * C
    BY <1>2, <1>3 DEF CopyWords
  <2>2. C # 0
    BY <2>1
  <2>3. PICK t \in Nat : C * t <= i /\ i < C * t + C
    BY <2>1, <2>2, Multiple
  <2>4. t * C = C * t /\ (t + 1) * C = C * t + C
    BY SMTT(60)
  <2>5. t < M
    <3>1. SUFFICES ASSUME t >= M PROVE FALSE
      BY <1>1
    <3>2. C * t >= M * C
      BY <3>1, SMTT(60)
    <3>3. C * t \in Int /\ M * C \in Int
      OBVIOUS
    <3> QED
      BY <2>1, <2>3, <3>2, <3>3
  <2>6. t \in CopyTids
    BY <1>1, <2>5 DEF CopyTids
  <2> QED
    BY <1>4, <2>3, <2>4, <2>6 DEF Low, High
<1> QED
  BY <1>5, <1>6
(***************************************************************************)
(* ParallelCopy: the inductive invariant.                                  *)
(***************************************************************************)

CopyTypes ==
    /\ mem \in [Parallel!Frames -> [CopyWords -> (Parallel!Frames \X CopyWords) \cup {ZERO}]]
    /\ caller \in [Callers -> {"call", "start", "finish", "done", "returned"}]
    /\ copier \in [CopyTids -> {"start", "copy", "finish"}]
    /\ word \in [CopyTids -> Nat]

\* Whoever is between Begin and Return holds the lock, and the job is theirs.
LockInv ==
    /\ \A c \in Callers : caller[c] \in {"start", "finish", "done"} <=> lock = c
    /\ \A c \in Callers : caller[c] \in {"start", "finish"} =>
          pmemcpy = [dst |-> Writes[c], src |-> Reads[c]]

\* The copy threads are between the barriers exactly when the caller is, and
\* have moved the words of their chunks up to the next one.
ChunksInv ==
    /\ (\A c \in Callers : caller[c] # "finish") => \A t \in CopyTids : copier[t] = "start"
    /\ \A c \in Callers : caller[c] = "finish" => \A t \in CopyTids :
          /\ copier[t] # "start"
          /\ Low(t) <= word[t] /\ word[t] <= High(t)
          /\ copier[t] = "finish" => word[t] = High(t)
          /\ \A i \in CopyWords : Low(t) <= i /\ i < word[t] =>
                mem[Writes[c]][i] = Parallel!Result(c)[i]

\* What the frames hold before and after.
FramesInv == \A c \in Callers :
    /\ caller[c] \in {"done", "returned"} => mem[Writes[c]] = Parallel!Result(c)
    /\ caller[c] \in {"call", "start"} => Parallel!Untouched(Writes[c])
    /\ Reads[c] # ZERO => Parallel!Untouched(Reads[c])

JobInv == CopyTypes /\ LockInv /\ ChunksInv /\ FramesInv

\* The names of the instance's sets.
LEMMA SameSets ==
  /\ Parallel!Tids = CopyTids /\ Parallel!Words = CopyWords
  /\ \A c \in Callers : Writes[c] \in Parallel!Frames /\ Reads[c] \in Parallel!Frames
  BY DEF Parallel!Tids, CopyTids, Parallel!Words, CopyWords, Parallel!Frames

\* No job has begun.
LEMMA JobInit ==
  ASSUME Parallel!ParallelAssumption, Parallel!Init
  PROVE  JobInv
<1>1. /\ mem = [f \in Parallel!Frames |-> [i \in CopyWords |-> <<f, i>>]]
      /\ lock = "none" /\ caller = [c \in Callers |-> "call"]
      /\ copier = [t \in CopyTids |-> "start"] /\ word = [t \in CopyTids |-> 0]
  BY SameSets DEF Parallel!Init
<1>2. CopyTypes
  BY <1>1 DEF CopyTypes
<1>3. LockInv
  BY <1>1 DEF LockInv, Parallel!ParallelAssumption
<1>4. ChunksInv
  BY <1>1 DEF ChunksInv
<1>5. FramesInv
  BY <1>1, SameSets DEF FramesInv, Parallel!Untouched
<1> QED
  BY <1>2, <1>3, <1>4, <1>5 DEF JobInv

\* arms_parallel_memcpy takes the lock, so no other job is under way.
LEMMA BeginStep ==
  ASSUME Parallel!ParallelAssumption, JobInv, NEW c \in Callers, Parallel!Begin(c)
  PROVE  JobInv'
<1>1. /\ caller[c] = "call" /\ lock = "none" /\ lock' = c
      /\ pmemcpy' = [dst |-> Writes[c], src |-> Reads[c]]
      /\ caller' = [caller EXCEPT ![c] = "start"]
      /\ UNCHANGED <<mem, copier, word>>
  BY DEF Parallel!Begin
<1>2. \A d \in Callers : caller[d] \notin {"start", "finish", "done"}
  BY <1>1 DEF JobInv, LockInv, Parallel!ParallelAssumption
<1>3. \A d \in Callers : caller'[d] = IF d = c THEN "start" ELSE caller[d]
  BY <1>1 DEF JobInv, CopyTypes
<1>4. CopyTypes'
  BY <1>1 DEF JobInv, CopyTypes
<1>5. LockInv'
  BY <1>1, <1>2, <1>3 DEF LockInv
<1>6. ChunksInv'
  BY <1>1, <1>2, <1>3 DEF JobInv, ChunksInv
<1>7. FramesInv'
  <2>1. \A f : Parallel!Untouched(f)' <=> Parallel!Untouched(f)
    BY <1>1 DEF Parallel!Untouched
  <2>2. \A d \in Callers : /\ caller'[d] \in {"done", "returned"} => caller[d] = caller'[d]
                          /\ caller'[d] \in {"call", "start"} => caller[d] \in {"call", "start"}
    BY <1>1, <1>3
  <2>3. \A d \in Callers : Parallel!Result(d)' = Parallel!Result(d)
    BY DEF Parallel!Result
  <2> QED
    BY <1>1, <2>1, <2>2, <2>3 DEF JobInv, FramesInv
<1> QED
  BY <1>4, <1>5, <1>6, <1>7 DEF JobInv

\* The caller unlocks and returns.
LEMMA ReturnStep ==
  ASSUME Parallel!ParallelAssumption, JobInv, NEW c \in Callers, Parallel!Return(c)
  PROVE  JobInv'
<1>1. /\ caller[c] = "done" /\ lock' = "none"
      /\ caller' = [caller EXCEPT ![c] = "returned"]
      /\ UNCHANGED <<mem, pmemcpy, copier, word>>
  BY DEF Parallel!Return
<1>2. \A d \in Callers : caller'[d] = IF d = c THEN "returned" ELSE caller[d]
  BY <1>1 DEF JobInv, CopyTypes
<1>3. lock = c
  BY <1>1 DEF JobInv, LockInv
<1>4. CopyTypes'
  BY <1>1 DEF JobInv, CopyTypes
<1>5. LockInv'
  BY <1>1, <1>2, <1>3 DEF JobInv, LockInv, Parallel!ParallelAssumption
<1>6. ChunksInv'
  BY <1>1, <1>2 DEF JobInv, ChunksInv
<1>7. FramesInv'
  <2>1. \A f : Parallel!Untouched(f)' <=> Parallel!Untouched(f)
    BY <1>1 DEF Parallel!Untouched
  <2>2. \A d \in Callers : /\ caller'[d] \in {"done", "returned"} =>
                               caller[d] \in {"done", "returned"}
                          /\ caller'[d] \in {"call", "start"} => caller[d] \in {"call", "start"}
    BY <1>1, <1>2
  <2>3. \A d \in Callers : Parallel!Result(d)' = Parallel!Result(d)
    BY DEF Parallel!Result
  <2> QED
    BY <1>1, <2>1, <2>2, <2>3 DEF JobInv, FramesInv
<1> QED
  BY <1>4, <1>5, <1>6, <1>7 DEF JobInv

\* At the barrier are the holder of the lock and all copy threads.
LEMMA FullBarrier ==
  ASSUME Parallel!ParallelAssumption, JobInv, Parallel!Full
  PROVE  \E c \in Callers : Parallel!WaitingCallers = {c} /\ Parallel!WaitingCopiers = CopyTids
<1>1. MAX_COPY_THREADS \in Nat \ {0}
  BY DEF Parallel!ParallelAssumption
<1>2. Parallel!WaitingCallers \subseteq {lock} /\ Parallel!WaitingCopiers \subseteq CopyTids
      /\ Parallel!WaitingCallers \subseteq Callers
  BY SameSets DEF Parallel!WaitingCallers, Parallel!WaitingCopiers, JobInv, LockInv
<1>3. PICK A, B : /\ A = Parallel!WaitingCallers /\ B = Parallel!WaitingCopiers
                  /\ Cardinality(A) + Cardinality(B) = MAX_COPY_THREADS + 1
  <2>1. Cardinality(Parallel!WaitingCallers) + Cardinality(Parallel!WaitingCopiers)
          = MAX_COPY_THREADS + 1
    BY Zenon DEF Parallel!Full, Parallel!Cardinality, Cardinality
  <2> QED
    BY <2>1, Zenon
<1>4. IsFiniteSet({lock}) /\ Cardinality({lock}) = 1
  BY FS_Singleton
<1>5. IsFiniteSet(CopyTids) /\ Cardinality(CopyTids) = MAX_COPY_THREADS
  <2>1. 0 \in Int /\ MAX_COPY_THREADS - 1 \in Int /\ ~(0 > MAX_COPY_THREADS - 1)
        /\ MAX_COPY_THREADS - 1 - 0 + 1 = MAX_COPY_THREADS
    BY <1>1
  <2>2. IsFiniteSet(0 .. MAX_COPY_THREADS - 1)
        /\ Cardinality(0 .. MAX_COPY_THREADS - 1) = MAX_COPY_THREADS - 1 - 0 + 1
    BY <2>1, FS_Interval
  <2> QED
    BY <2>1, <2>2 DEF CopyTids
<1>6. /\ IsFiniteSet(A) /\ Cardinality(A) <= 1
      /\ IsFiniteSet(B) /\ Cardinality(B) <= MAX_COPY_THREADS
      /\ Cardinality(B) = MAX_COPY_THREADS => B = CopyTids
  BY <1>2, <1>3, <1>4, <1>5, FS_Subset
<1>7. Cardinality(A) \in Nat /\ Cardinality(B) \in Nat
  BY <1>6, FS_CardinalityType
<1>8. Cardinality(A) = 1 /\ Cardinality(B) = MAX_COPY_THREADS
  BY <1>1, <1>3, <1>6, <1>7
<1>9. A # {}
  BY <1>8, FS_EmptySet
<1> QED
  BY <1>2, <1>3, <1>6, <1>8, <1>9
\* The first barrier starts the copy threads at their chunks, the second one is
\* reached when all of them are done.
LEMMA BarrierStep ==
  ASSUME Parallel!ParallelAssumption, JobInv, Parallel!Barrier
  PROVE  JobInv'
<1>1. PICK c \in Callers : Parallel!WaitingCallers = {c} /\ Parallel!WaitingCopiers = CopyTids
  BY FullBarrier DEF Parallel!Barrier
<1>2. /\ caller' = [d \in Callers |-> IF d = c THEN Parallel!CallerNext(d) ELSE caller[d]]
      /\ copier' = [t \in CopyTids |-> Parallel!CopierNext(t)]
      /\ word' = [t \in CopyTids |-> IF copier[t] = "start" THEN Low(t) ELSE word[t]]
      /\ UNCHANGED <<mem, pmemcpy, lock>>
  BY <1>1, SameSets DEF Parallel!Barrier, Low
<1>3. /\ caller[c] \in {"start", "finish"} /\ lock = c
      /\ \A d \in Callers : d # c => caller[d] \notin {"start", "finish", "done"}
      /\ \A t \in CopyTids : copier[t] \in {"start", "finish"}
  <2>1. caller[c] \in {"start", "finish"} /\ \A t \in CopyTids : copier[t] \in {"start", "finish"}
    BY <1>1 DEF Parallel!WaitingCallers, Parallel!WaitingCopiers
  <2> QED
    BY <2>1 DEF JobInv, LockInv
<1>4. \A t \in CopyTids : Low(t) \in Nat /\ Low(t) <= High(t)
  BY Chunks
<1>5. CopyTypes'
  BY <1>2, <1>3, <1>4 DEF JobInv, CopyTypes, Parallel!CallerNext, Parallel!CopierNext
<1>6. LockInv'
  BY <1>2, <1>3 DEF JobInv, LockInv, Parallel!CallerNext
<1>7. \A d \in Callers : Parallel!Result(d)' = Parallel!Result(d)
  BY DEF Parallel!Result
<1>8. \A f : Parallel!Untouched(f)' <=> Parallel!Untouched(f)
  BY <1>2 DEF Parallel!Untouched
<1>9. CASE caller[c] = "start"
  <2>1. \A t \in CopyTids : copier[t] = "start"
    BY <1>3, <1>9 DEF JobInv, ChunksInv
  <2>2. /\ \A d \in Callers : caller'[d] = IF d = c THEN "finish" ELSE caller[d]
        /\ \A t \in CopyTids : copier'[t] = "copy" /\ word'[t] = Low(t)
    BY <1>2, <1>9, <2>1 DEF Parallel!CallerNext, Parallel!CopierNext
  <2>3. ChunksInv'
    <3>1. \A t \in CopyTids, i \in CopyWords : ~(Low(t) <= i /\ i < Low(t))
      BY <1>4 DEF CopyWords
    <3>2. \A d \in Callers : caller'[d] = "finish" => d = c
      BY <1>3, <2>2
    <3>3. \A t \in CopyTids : /\ copier'[t] # "start" /\ copier'[t] # "finish"
                              /\ Low(t) <= word'[t] /\ word'[t] <= High(t)
                              /\ \A i \in CopyWords : ~(Low(t) <= i /\ i < word'[t])
      BY <1>4, <2>2, <3>1
    <3>4. caller'[c] = "finish"
      BY <2>2
    <3> QED
      BY <3>2, <3>3, <3>4 DEF ChunksInv
  <2>4. FramesInv'
    <3>1. \A d \in Callers :
             /\ caller'[d] \in {"done", "returned"} => caller[d] = caller'[d]
             /\ caller'[d] \in {"call", "start"} => caller[d] = caller'[d]
      BY <2>2
    <3> QED
      BY <1>2, <1>7, <1>8, <3>1 DEF JobInv, FramesInv
  <2> QED
    BY <1>5, <1>6, <2>3, <2>4 DEF JobInv
<1>10. CASE caller[c] = "finish"
  <2>1. \A t \in CopyTids : copier[t] = "finish" /\ word[t] = High(t)
    BY <1>3, <1>10 DEF JobInv, ChunksInv
  <2>2. /\ \A d \in Callers : caller'[d] = IF d = c THEN "done" ELSE caller[d]
        /\ \A t \in CopyTids : copier'[t] = "start"
    BY <1>2, <1>10, <2>1 DEF Parallel!CallerNext, Parallel!CopierNext
  <2>3. ChunksInv'
    BY <1>3, <2>2 DEF ChunksInv
  <2>4. mem[Writes[c]] = Parallel!Result(c)
    <3>1. \A i \in CopyWords : mem[Writes[c]][i] = Parallel!Result(c)[i]
      <4> SUFFICES ASSUME NEW i \in CopyWords
                   PROVE  mem[Writes[c]][i] = Parallel!Result(c)[i]
        OBVIOUS
      <4>1. PICK t \in CopyTids : Low(t) <= i /\ i < High(t)
        BY Chunks
      <4> QED
        BY <1>10, <2>1, <4>1 DEF JobInv, ChunksInv
    <3>2. mem[Writes[c]] = [i \in CopyWords |-> mem[Writes[c]][i]]
      BY SameSets DEF JobInv, CopyTypes
    <3>3. Parallel!Result(c) = [i \in CopyWords |-> Parallel!Result(c)[i]]
      BY SameSets DEF Parallel!Result
    <3> QED
      BY <3>1, <3>2, <3>3
  <2>5. FramesInv'
    <3>1. \A d \in Callers :
             /\ caller'[d] \in {"done", "returned"} => d = c \/ caller[d] = caller'[d]
             /\ caller'[d] \in {"call", "start"} => caller[d] = caller'[d]
      BY <2>2
    <3> QED
      BY <1>2, <1>7, <1>8, <2>4, <3>1 DEF JobInv, FramesInv
  <2> QED
    BY <1>5, <1>6, <2>3, <2>5 DEF JobInv
<1> QED
  BY <1>3, <1>9, <1>10

\* A copy thread moves one word of the job's page; nobody else's frame changes.
LEMMA MoveStep ==
  ASSUME Parallel!ParallelAssumption, JobInv, NEW t \in CopyTids, Parallel!CopyWord(t)
  PROVE  JobInv'
<1>1. PICK c \in Callers : caller[c] = "finish"
  BY DEF JobInv, ChunksInv, Parallel!CopyWord
<1>2. /\ lock = c /\ pmemcpy = [dst |-> Writes[c], src |-> Reads[c]]
      /\ \A d \in Callers : d # c => caller[d] \notin {"start", "finish", "done"}
  BY <1>1 DEF JobInv, LockInv
<1>3. PICK i \in Nat : i = word[t]
  BY DEF JobInv, CopyTypes
<1>4. Low(t) <= i /\ i < High(t) /\ i \in CopyWords /\ High(t) \in Nat
  <2>1. i < High(t) /\ Low(t) <= i
    BY <1>1, <1>3 DEF Parallel!CopyWord, High, JobInv, ChunksInv
  <2>2. High(t) <= length /\ High(t) \in Nat /\ length \in Nat
    BY Chunks DEF Parallel!ParallelAssumption
  <2> QED
    BY <2>1, <2>2 DEF CopyWords
<1>5. /\ mem' = [mem EXCEPT ![Writes[c]][i] =
                    IF Reads[c] = ZERO THEN ZERO ELSE mem[Reads[c]][i]]
      /\ word' = [word EXCEPT ![t] = i + 1]
      /\ UNCHANGED <<pmemcpy, lock, caller, copier>> /\ copier[t] = "copy"
  BY <1>2, <1>3 DEF Parallel!CopyWord
<1>6. (IF Reads[c] = ZERO THEN ZERO ELSE mem[Reads[c]][i]) = Parallel!Result(c)[i]
  <2>1. Parallel!Result(c)[i] = IF Reads[c] = ZERO THEN ZERO ELSE <<Reads[c], i>>
    BY <1>4, SameSets DEF Parallel!Result
  <2>2. Reads[c] # ZERO => mem[Reads[c]] = [j \in CopyWords |-> <<Reads[c], j>>]
    BY SameSets DEF JobInv, FramesInv, Parallel!Untouched
  <2> QED
    BY <1>4, <2>1, <2>2
<1>7. mem' = [mem EXCEPT ![Writes[c]][i] = Parallel!Result(c)[i]]
  BY <1>5, <1>6
<1>8. Parallel!Result(c)[i] \in (Parallel!Frames \X CopyWords) \cup {ZERO}
  BY <1>4, SameSets DEF Parallel!Result
<1>9. /\ \A f \in Parallel!Frames : f # Writes[c] => mem'[f] = mem[f]
      /\ mem'[Writes[c]] = [mem[Writes[c]] EXCEPT ![i] = Parallel!Result(c)[i]]
  BY <1>7, SameSets DEF JobInv, CopyTypes
<1>10. CopyTypes'
  BY <1>4, <1>5, <1>7, <1>8, SameSets DEF JobInv, CopyTypes
<1>11. LockInv'
  BY <1>5 DEF JobInv, LockInv
<1>12. \A d \in Callers : Parallel!Result(d)' = Parallel!Result(d)
  BY DEF Parallel!Result
<1>13. ChunksInv'
  <2>1. \A s \in CopyTids : word'[s] = IF s = t THEN i + 1 ELSE word[s]
    BY <1>5 DEF JobInv, CopyTypes
  <2>2. \A j \in CopyWords :
           mem'[Writes[c]][j] = IF j = i THEN Parallel!Result(c)[i] ELSE mem[Writes[c]][j]
    BY <1>4, <1>9, SameSets DEF JobInv, CopyTypes
  <2>3. ASSUME NEW s \in CopyTids
        PROVE  /\ copier[s] # "start"
               /\ Low(s) <= word'[s] /\ word'[s] <= High(s)
               /\ copier[s] = "finish" => word'[s] = High(s)
               /\ \A j \in CopyWords : Low(s) <= j /\ j < word'[s] =>
                     mem'[Writes[c]][j] = Parallel!Result(c)[j]
    <3>1. /\ copier[s] # "start"
          /\ Low(s) <= word[s] /\ word[s] <= High(s)
          /\ copier[s] = "finish" => word[s] = High(s)
          /\ \A j \in CopyWords : Low(s) <= j /\ j < word[s] =>
                mem[Writes[c]][j] = Parallel!Result(c)[j]
      BY <1>1 DEF JobInv, ChunksInv
    <3>2. Low(s) \in Nat /\ High(s) \in Nat
      BY Chunks
    <3>3. CASE s # t
      BY <2>1, <2>2, <3>1, <3>3
    <3>4. CASE s = t
      <4>1. word'[t] = i + 1 /\ Low(t) <= i + 1 /\ i + 1 <= High(t)
        BY <1>4, <2>1, <3>2, <3>4
      <4>2. \A j \in CopyWords : j < i + 1 => j = i \/ j < i
        BY DEF CopyWords
      <4> QED
        BY <1>3, <1>5, <2>2, <3>1, <3>4, <4>1, <4>2
    <3> QED
      BY <3>3, <3>4
  <2>4. \A d \in Callers : caller'[d] = "finish" => d = c
    BY <1>2, <1>5
  <2> QED
    BY <1>1, <1>5, <1>12, <2>3, <2>4 DEF ChunksInv
<1>14. FramesInv'
  <2>1. \A d \in Callers : d # c => Writes[d] # Writes[c] /\ Reads[d] # Writes[c]
    BY DEF Parallel!ParallelAssumption
  <2>2. Reads[c] # Writes[c]
    BY DEF Parallel!ParallelAssumption
  <2>3. \A f \in Parallel!Frames :
           f # Writes[c] => (Parallel!Untouched(f)' <=> Parallel!Untouched(f))
    BY <1>9 DEF Parallel!Untouched
  <2>4. ASSUME NEW d \in Callers
        PROVE  /\ caller'[d] \in {"done", "returned"} => mem'[Writes[d]] = Parallel!Result(d)
               /\ caller'[d] \in {"call", "start"} => Parallel!Untouched(Writes[d])'
               /\ Reads[d] # ZERO => Parallel!Untouched(Reads[d])'
    BY <1>1, <1>5, <1>9, <2>1, <2>2, <2>3, SameSets DEF JobInv, FramesInv
  <2> QED
    BY <1>12, <2>4 DEF FramesInv
<1> QED
  BY <1>10, <1>11, <1>13, <1>14 DEF JobInv

\* A copy thread is done with its chunk.
LEMMA EndChunkStep ==
  ASSUME Parallel!ParallelAssumption, JobInv, NEW t \in CopyTids, Parallel!EndChunk(t)
  PROVE  JobInv'
<1>1. /\ copier[t] = "copy" /\ word[t] = High(t)
      /\ copier' = [copier EXCEPT ![t] = "finish"]
      /\ UNCHANGED <<mem, pmemcpy, lock, caller, word>>
  BY DEF Parallel!EndChunk, High
<1>2. \A s \in CopyTids : copier'[s] = IF s = t THEN "finish" ELSE copier[s]
  BY <1>1 DEF JobInv, CopyTypes
<1>3. CopyTypes' /\ LockInv'
  BY <1>1 DEF JobInv, CopyTypes, LockInv
<1>4. \A d \in Callers : Parallel!Result(d)' = Parallel!Result(d)
  BY DEF Parallel!Result
<1>5. ChunksInv'
  BY <1>1, <1>2, <1>4 DEF JobInv, ChunksInv
<1>6. FramesInv'
  BY <1>1 DEF JobInv, FramesInv, Parallel!Untouched, Parallel!Result
<1> QED
  BY <1>3, <1>5, <1>6 DEF JobInv

\* Every step keeps the invariant.
LEMMA JobStep ==
  ASSUME Parallel!ParallelAssumption, JobInv, [Parallel!Next]_(Parallel!vars)
  PROVE  JobInv'
<1>1. CASE UNCHANGED Parallel!vars
  <2>1. UNCHANGED <<mem, pmemcpy, lock, caller, copier, word>>
    BY <1>1 DEF Parallel!vars
  <2>2. CopyTypes' /\ LockInv' /\ ChunksInv'
    <3>1. \A c \in Callers : Parallel!Result(c)' = Parallel!Result(c)
      BY DEF Parallel!Result
    <3>2. CopyTypes' /\ LockInv'
      BY <2>1 DEF JobInv, CopyTypes, LockInv
    <3>3. ChunksInv'
      BY <2>1, <3>1 DEF JobInv, ChunksInv
    <3> QED
      BY <3>2, <3>3
  <2>3. FramesInv'
    BY <2>1 DEF JobInv, FramesInv, Parallel!Untouched, Parallel!Result
  <2> QED
    BY <2>2, <2>3 DEF JobInv
<1> QED
  BY <1>1, BarrierStep, BeginStep, ReturnStep, MoveStep, EndChunkStep, SameSets DEF Parallel!Next

\* When arms_parallel_memcpy or arms_parallel_memset returns, its whole page has
\* been copied or cleared and no copy thread is at work on it, and a frame changes
\* for its own job only: for any number of copy threads, callers and words.
THEOREM CopiesComplete ==
  ASSUME Parallel!ParallelAssumption
  PROVE  Parallel!Init /\ [][Parallel!Next]_(Parallel!vars) => []Parallel!CopyComplete
<1>1. Parallel!Init => JobInv
  BY JobInit
<1>2. JobInv /\ [Parallel!Next]_(Parallel!vars) => JobInv'
  BY JobStep
<1>3. JobInv => Parallel!CopyComplete
  <2> SUFFICES ASSUME JobInv, NEW c \in Callers
               PROVE  /\ caller[c] \in {"done", "returned"} => mem[Writes[c]] = Parallel!Result(c)
                      /\ caller[c] = "call" => Parallel!Untouched(Writes[c])
                      /\ caller[c] = "done" => \A t \in CopyTids : copier[t] # "copy"
                      /\ Reads[c] # ZERO => Parallel!Untouched(Reads[c])
    BY SameSets DEF Parallel!CopyComplete
  <2>1. caller[c] = "done" => \A d \in Callers : caller[d] # "finish"
    BY DEF JobInv, LockInv
  <2> QED
    BY <2>1 DEF JobInv, FramesInv, ChunksInv
<1> QED
  BY <1>1, <1>2, <1>3, PTL

(***************************************************************************)
(* The linked lists: a list is the walk along prev from its last entry,    *)
(* and there is one such walk only.                                        *)
(***************************************************************************)

\* A set of numbers that is not empty has a least one.
LEMMA LeastNumber ==
  ASSUME NEW T, T \subseteq Nat, T # {}
  PROVE  \E x \in T : \A y \in T : x <= y
<1>1. PICK R : R = OpToRel(<, Nat)
  OBVIOUS
<1>2. ASSUME NEW x \in Nat, NEW y \in Nat, y < x PROVE <<y, x>> \in R
  BY <1>1, <1>2 DEF OpToRel
<1>3. IsWellFoundedOn(R, Nat)
  BY <1>1, NatLessThanWellFounded
<1>4. PICK x \in T : \A y \in T : ~ (<<y, x>> \in R)
  BY <1>3, WFMin
<1>5. ASSUME NEW y \in T PROVE x <= y
  <2>1. x \in Nat /\ y \in Nat
    OBVIOUS
  <2>2. ~(y < x)
    BY <1>2, <1>4, <2>1
  <2> QED
    BY <2>1, <2>2
<1> QED
  BY <1>5

\* The walk along P from l, n entries long.
Along(n, l, P) == LET at[i \in 1 .. n] == IF i = 1 THEN l ELSE P[at[i - 1]]
                  IN [i \in 1 .. n |-> at[i]]

\* What is in a list is the walk from its last entry.
LEMMA ContentsAlong == \A l : List!Contents(l) = Along(numentries[l], last[l], prev)
BY DEF List!Contents, Along

\* s is such a walk.
IsWalk(s, n, l, P) == /\ s = [i \in 1 .. n |-> s[i]]
                      /\ n > 0 => s[1] = l
                      /\ \A i \in 1 .. n : i > 1 => s[i] = P[s[i - 1]]

\* There is one walk only.
LEMMA OneWalk ==
  ASSUME NEW n \in Nat, NEW l, NEW P, NEW s, NEW t, IsWalk(s, n, l, P), IsWalk(t, n, l, P)
  PROVE  s = t
<1>1. ASSUME NEW T, T = {i \in 1 .. n : s[i] # t[i]}, T # {} PROVE FALSE
  <2>1. T \subseteq Nat
    BY <1>1
  <2>2. PICK i \in T : \A j \in T : i <= j
    BY <1>1, <2>1, LeastNumber
  <2>3. i \in 1 .. n /\ s[i] # t[i]
    BY <1>1
  <2>4. i # 1
    BY <2>3 DEF IsWalk
  <2>5. i - 1 \in 1 .. n /\ i > 1 /\ ~(i <= i - 1)
    BY <2>3, <2>4
  <2>6. s[i - 1] = t[i - 1]
    BY <1>1, <2>2, <2>5
  <2> QED
    BY <2>3, <2>5, <2>6 DEF IsWalk
<1>2. \A i \in 1 .. n : s[i] = t[i]
  BY <1>1
<1> QED
  BY <1>2 DEF IsWalk

\* Whatever is a walk is the one Along finds.
LEMMA AlongIs ==
  ASSUME NEW n \in Nat, NEW l, NEW P, NEW s, IsWalk(s, n, l, P)
  PROVE  Along(n, l, P) = s
<1> DEFINE F(f) == f = [i \in 1 .. n |-> IF i = 1 THEN l ELSE P[f[i - 1]]]
           c == CHOOSE f : F(f)
<1>1. F(s)
  <2>1. ASSUME NEW i \in 1 .. n PROVE s[i] = IF i = 1 THEN l ELSE P[s[i - 1]]
    BY DEF IsWalk
  <2> QED
    BY <2>1 DEF IsWalk
<1>2. F(c)
  BY <1>1
<1>3. IsWalk(c, n, l, P)
  <2> HIDE DEF c
  <2>1. c = [i \in 1 .. n |-> IF i = 1 THEN l ELSE P[c[i - 1]]]
    BY <1>2
  <2>2. \A i \in 1 .. n : c[i] = IF i = 1 THEN l ELSE P[c[i - 1]]
    BY <2>1
  <2>3. c = [i \in 1 .. n |-> c[i]]
    BY <2>1, <2>2
  <2>4. n > 0 => c[1] = l
    BY <2>2
  <2>5. \A i \in 1 .. n : i > 1 => c[i] = P[c[i - 1]]
    BY <2>2
  <2> QED
    BY <2>3, <2>4, <2>5 DEF IsWalk
<1>4. Along(n, l, P) = [i \in 1 .. n |-> c[i]]
  BY DEF Along
<1>5. c = s
  BY <1>3, OneWalk
<1> QED
  BY <1>4, <1>5 DEF IsWalk

\* A list of entries s with ends f and l and length n, linked by N and P.
Linked(s, f, l, n, N, P) ==
    /\ s \in Seq(Entries) /\ Len(s) = n
    /\ \A i, j \in 1 .. n : s[i] = s[j] => i = j
    /\ n = 0 => f = NULL /\ l = NULL
    /\ n > 0 => s[1] = l /\ s[n] = f /\ N[l] = NULL /\ P[f] = NULL
    /\ \A i \in 1 .. n : i > 1 => s[i] = P[s[i - 1]] /\ N[s[i]] = s[i - 1]

Links == [Entries -> Entries \cup {NULL}]
Ends == Entries \cup {NULL}

\* A linked list is the walk from its last entry.
LEMMA LinkedWalk ==
  ASSUME NEW s, NEW f, NEW l, NEW n, NEW N, NEW P, Linked(s, f, l, n, N, P)
  PROVE  Along(n, l, P) = s
<1>1. n \in Nat /\ s = [i \in 1 .. n |-> s[i]]
  BY DEF Linked
<1>2. IsWalk(s, n, l, P)
  BY <1>1 DEF IsWalk, Linked
<1> QED
  BY <1>1, <1>2, AlongIs

\* The links of other entries do not matter.
LEMMA LinkedFrame ==
  ASSUME NEW s, NEW f, NEW l, NEW n, NEW N, NEW P, NEW M, NEW Q, Linked(s, f, l, n, N, P),
         \A i \in 1 .. n : M[s[i]] = N[s[i]] /\ Q[s[i]] = P[s[i]]
  PROVE  Linked(s, f, l, n, M, Q)
<1>1. n \in Nat /\ Len(s) = n /\ s \in Seq(Entries)
  BY DEF Linked
<1>2. n > 0 => M[l] = NULL /\ Q[f] = NULL
  <2>1. n > 0 => 1 \in 1 .. n /\ n \in 1 .. n
    BY <1>1
  <2> QED
    BY <2>1 DEF Linked
<1>3. ASSUME NEW i \in 1 .. n, i > 1 PROVE s[i] = Q[s[i - 1]] /\ M[s[i]] = s[i - 1]
  <2>1. i - 1 \in 1 .. n
    BY <1>1, <1>3
  <2> QED
    BY <1>3, <2>1 DEF Linked
<1> QED
  BY <1>1, <1>2, <1>3 DEF Linked

\* What the ends know.
LEMMA LinkedEnds ==
  ASSUME NULL \notin Entries, NEW s, NEW f, NEW l, NEW n, NEW N, NEW P, Linked(s, f, l, n, N, P)
  PROVE  /\ n \in Nat /\ (n = 0 <=> f = NULL) /\ (n = 0 <=> l = NULL)
         /\ \A i \in 1 .. n : s[i] \in Entries
         /\ \A i \in 1 .. n : /\ P[s[i]] = IF i = n THEN NULL ELSE s[i + 1]
                              /\ N[s[i]] = IF i = 1 THEN NULL ELSE s[i - 1]
<1>1. n \in Nat /\ Len(s) = n /\ s \in Seq(Entries) /\ \A i \in 1 .. n : s[i] \in Entries
  BY DEF Linked
<1>2. n > 0 => 1 \in 1 .. n /\ n \in 1 .. n
  BY <1>1
<1>3. n > 0 => f \in Entries /\ l \in Entries
  BY <1>1, <1>2 DEF Linked
<1>4. ASSUME NEW i \in 1 .. n PROVE P[s[i]] = IF i = n THEN NULL ELSE s[i + 1]
  <2>1. CASE i = n
    BY <1>1, <2>1 DEF Linked
  <2>2. CASE i # n
    <3>1. i + 1 \in 1 .. n /\ i + 1 > 1 /\ i + 1 - 1 = i
      BY <1>1, <2>2
    <3>2. s[i + 1] = P[s[i + 1 - 1]]
      BY <3>1 DEF Linked
    <3> QED
      BY <2>2, <3>1, <3>2
  <2> QED
    BY <2>1, <2>2
<1>5. ASSUME NEW i \in 1 .. n PROVE N[s[i]] = IF i = 1 THEN NULL ELSE s[i - 1]
  BY <1>1 DEF Linked
<1> QED
  BY <1>1, <1>3, <1>4, <1>5 DEF Linked

\* Pushing an entry that is not in the list.
LEMMA LinkedPush ==
  ASSUME NULL \notin Entries, NEW s, NEW f, NEW l, NEW n, NEW N \in Links, NEW P \in Links,
         Linked(s, f, l, n, N, P), NEW e \in Entries, \A i \in 1 .. n : s[i] # e, P[e] = NULL,
         NEW k, k = (IF f # NULL THEN l ELSE e),
         NEW M, M = [N EXCEPT ![e] = f],
         NEW Q, Q = (IF f # NULL THEN [P EXCEPT ![f] = e] ELSE P)
  PROVE  Linked(Append(s, e), e, k, n + 1, M, Q)
<1>1. n \in Nat /\ Len(s) = n /\ s \in Seq(Entries) /\ \A i \in 1 .. n : s[i] \in Entries
  BY DEF Linked
<1> DEFINE t == Append(s, e)
<1>2. t \in Seq(Entries) /\ Len(t) = n + 1 /\ t[n + 1] = e /\ \A i \in 1 .. n : t[i] = s[i]
  BY <1>1
<1> HIDE DEF t
<1>3. \A i, j \in 1 .. n + 1 : t[i] = t[j] => i = j
  <2> SUFFICES ASSUME NEW i \in 1 .. n + 1, NEW j \in 1 .. n + 1, t[i] = t[j] PROVE i = j
    OBVIOUS
  <2>1. CASE i \in 1 .. n /\ j \in 1 .. n
    BY <1>2, <2>1 DEF Linked
  <2>2. CASE i = n + 1 /\ j \in 1 .. n
    BY <1>2, <2>2
  <2>3. CASE j = n + 1 /\ i \in 1 .. n
    BY <1>2, <2>3
  <2> QED
    BY <1>1, <2>1, <2>2, <2>3
<1>4. /\ n = 0 <=> f = NULL
      /\ \A i \in 1 .. n : /\ P[s[i]] = IF i = n THEN NULL ELSE s[i + 1]
                           /\ N[s[i]] = IF i = 1 THEN NULL ELSE s[i - 1]
  BY LinkedEnds
<1>5. n > 0 => /\ f \in Entries /\ f = s[n] /\ l = s[1] /\ k = l
               /\ M[e] = f /\ Q = [P EXCEPT ![f] = e] /\ 1 \in 1 .. n /\ n \in 1 .. n
  BY <1>1, <1>4 DEF Linked, Links
<1>6. n = 0 => k = e /\ M[e] = NULL /\ Q = P
  BY <1>4 DEF Links
<1>7. t[1] = k /\ M[k] = NULL /\ Q[e] = NULL
  <2>1. CASE n = 0
    BY <1>2, <1>6, <2>1
  <2>2. CASE n # 0
    <3>1. n > 0
      BY <1>1, <2>2
    <3>2. f # e /\ l # e /\ N[l] = NULL
      BY <1>5, <3>1 DEF Linked
    <3>3. M[l] = N[l]
      BY <1>1, <1>5, <3>1, <3>2 DEF Links
    <3>4. Q[e] = P[e]
      BY <1>5, <3>1, <3>2 DEF Links
    <3> QED
      BY <1>2, <1>5, <3>1, <3>2, <3>3, <3>4
  <2> QED
    BY <2>1, <2>2
<1>8. ASSUME NEW i \in 1 .. n + 1, i > 1 PROVE t[i] = Q[t[i - 1]] /\ M[t[i]] = t[i - 1]
  <2>1. n > 0 /\ i - 1 \in 1 .. n
    BY <1>1, <1>8
  <2>2. t[i - 1] = s[i - 1] /\ s[i - 1] \in Entries
    BY <1>1, <1>2, <2>1
  <2>3. CASE i = n + 1
    <3>1. t[i] = e /\ t[i - 1] = f
      BY <1>1, <1>2, <1>5, <2>1, <2>3
    <3>2. Q[f] = e
      BY <1>5, <2>1 DEF Links
    <3> QED
      BY <1>5, <2>1, <3>1, <3>2
  <2>4. CASE i # n + 1
    <3>1. i \in 1 .. n /\ t[i] = s[i] /\ s[i] # e /\ s[i] \in Entries
      BY <1>1, <1>2, <2>4
    <3>2. s[i - 1] # s[n]
      <4>1. i - 1 # n
        BY <1>1, <3>1
      <4> QED
        BY <1>5, <2>1, <4>1 DEF Linked
    <3>3. Q[s[i - 1]] = P[s[i - 1]]
      BY <1>5, <2>1, <2>2, <3>2 DEF Links
    <3>4. M[s[i]] = N[s[i]]
      BY <3>1 DEF Links
    <3>5. s[i] = P[s[i - 1]] /\ N[s[i]] = s[i - 1]
      BY <1>8, <3>1 DEF Linked
    <3> QED
      BY <2>2, <3>1, <3>3, <3>4, <3>5
  <2> QED
    BY <2>3, <2>4
<1>9. Linked(t, e, k, n + 1, M, Q)
  BY <1>1, <1>2, <1>3, <1>7, <1>8 DEF Linked
<1> QED
  BY <1>9 DEF t

\* The list without its k-th entry.
Without(s, k) == [i \in 1 .. Len(s) - 1 |-> IF i < k THEN s[i] ELSE s[i + 1]]

\* Taking an entry out.
LEMMA LinkedCut ==
  ASSUME NULL \notin Entries, NEW s, NEW f, NEW l, NEW n, NEW N \in Links, NEW P \in Links,
         Linked(s, f, l, n, N, P), NEW k \in 1 .. n, NEW e, e = s[k],
         NEW g, g = (IF f = e THEN N[e] ELSE f),
         NEW h, h = (IF l = e THEN P[e] ELSE l),
         NEW M, M = [x \in Entries |-> IF x = e THEN NULL
                                       ELSE IF x = P[e] THEN N[e] ELSE N[x]],
         NEW Q, Q = [x \in Entries |-> IF x = e THEN NULL
                                       ELSE IF x = N[e] THEN P[e] ELSE P[x]]
  PROVE  Linked(Without(s, k), g, h, n - 1, M, Q)
<1> DEFINE t == Without(s, k)
<1>1. n \in Nat /\ Len(s) = n /\ s \in Seq(Entries) /\ \A i \in 1 .. n : s[i] \in Entries
  BY DEF Linked
<1>2. /\ t = [i \in 1 .. n - 1 |-> IF i < k THEN s[i] ELSE s[i + 1]]
      /\ t \in [1 .. n - 1 -> Entries]
  <2>1. \A i \in 1 .. n - 1 : (IF i < k THEN s[i] ELSE s[i + 1]) \in Entries
    BY <1>1
  <2>2. t = [i \in 1 .. n - 1 |-> IF i < k THEN s[i] ELSE s[i + 1]]
    BY <1>1 DEF Without
  <2> QED
    BY <2>1, <2>2
<1>3. /\ t \in Seq(Entries) /\ Len(t) = n - 1
      /\ \A i \in 1 .. n - 1 : t[i] = IF i < k THEN s[i] ELSE s[i + 1]
  <2>1. n - 1 \in Nat
    BY <1>1
  <2> QED
    BY <1>2, <2>1, SMT
<1> HIDE DEF t
<1>4. \A i, j \in 1 .. n : s[i] = s[j] => i = j
  BY DEF Linked
<1>5. ASSUME NEW i \in 1 .. n - 1, NEW j \in 1 .. n - 1, t[i] = t[j] PROVE i = j
  BY <1>1, <1>3, <1>4, <1>5
<1>6. \A i \in 1 .. n : /\ P[s[i]] = IF i = n THEN NULL ELSE s[i + 1]
                        /\ N[s[i]] = IF i = 1 THEN NULL ELSE s[i - 1]
  BY LinkedEnds
<1>7. /\ P[e] = IF k = n THEN NULL ELSE s[k + 1]
      /\ N[e] = IF k = 1 THEN NULL ELSE s[k - 1]
  BY <1>6
\* The links of the entries that remain.
<1>8. ASSUME NEW i \in 1 .. n, i # k
      PROVE  /\ M[s[i]] = IF i = k + 1 THEN N[e] ELSE N[s[i]]
             /\ Q[s[i]] = IF i = k - 1 THEN P[e] ELSE P[s[i]]
  <2>1. s[i] # e /\ s[i] \in Entries
    BY <1>1, <1>4, <1>8
  <2>2. s[i] = P[e] <=> i = k + 1
    <3>1. CASE k = n
      BY <1>1, <1>7, <1>8, <2>1, <3>1
    <3>2. CASE k # n
      <4>1. k + 1 \in 1 .. n
        BY <1>1, <3>2
      <4> QED
        BY <1>4, <1>7, <3>2, <4>1
    <3> QED
      BY <3>1, <3>2
  <2>3. s[i] = N[e] <=> i = k - 1
    <3>1. CASE k = 1
      BY <1>1, <1>7, <1>8, <2>1, <3>1
    <3>2. CASE k # 1
      <4>1. k - 1 \in 1 .. n
        BY <1>1, <3>2
      <4> QED
        BY <1>4, <1>7, <3>2, <4>1
    <3> QED
      BY <3>1, <3>2
  <2> QED
    BY <2>1, <2>2, <2>3
<1>9. f = s[n] /\ l = s[1] /\ 1 \in 1 .. n /\ n \in 1 .. n
  BY <1>1 DEF Linked
<1>10. (f = e <=> k = n) /\ (l = e <=> k = 1)
  BY <1>4, <1>9
<1>11. n - 1 = 0 => g = NULL /\ h = NULL
  BY <1>1, <1>7, <1>10
<1>12. n - 1 > 0 => t[1] = h /\ t[n - 1] = g /\ M[h] = NULL /\ Q[g] = NULL
  <2> SUFFICES ASSUME n - 1 > 0 PROVE t[1] = h /\ t[n - 1] = g /\ M[h] = NULL /\ Q[g] = NULL
    OBVIOUS
  <2>1. 1 \in 1 .. n - 1 /\ n - 1 \in 1 .. n - 1 /\ 2 \in 1 .. n /\ n - 1 \in 1 .. n
    BY <1>1
  <2>2. h = (IF k = 1 THEN s[2] ELSE s[1]) /\ t[1] = h
    BY <1>3, <1>7, <1>9, <1>10, <2>1
  <2>3. g = (IF k = n THEN s[n - 1] ELSE s[n]) /\ t[n - 1] = g
    BY <1>1, <1>3, <1>7, <1>9, <1>10, <2>1
  <2>4. M[h] = NULL
    BY <1>1, <1>6, <1>7, <1>8, <1>9, <2>1, <2>2
  <2>5. Q[g] = NULL
    BY <1>1, <1>6, <1>7, <1>8, <1>9, <2>1, <2>3
  <2> QED
    BY <2>2, <2>3, <2>4, <2>5
<1>13. ASSUME NEW i \in 1 .. n - 1, i > 1 PROVE t[i] = Q[t[i - 1]] /\ M[t[i]] = t[i - 1]
  <2>1. i - 1 \in 1 .. n - 1 /\ i \in 1 .. n /\ i + 1 \in 1 .. n /\ i - 1 \in 1 .. n
    BY <1>1, <1>13
  <2>2. CASE i < k
    <3>1. t[i] = s[i] /\ t[i - 1] = s[i - 1] /\ i # k /\ i - 1 # k /\ i # k + 1 /\ i - 1 # k - 1
      BY <1>3, <2>1, <2>2
    <3>2. P[s[i - 1]] = s[i] /\ N[s[i]] = s[i - 1]
      BY <1>1, <1>6, <1>13, <2>1
    <3> QED
      BY <1>8, <2>1, <3>1, <3>2
  <2>3. CASE i = k
    <3>1. t[i] = s[k + 1] /\ t[i - 1] = s[k - 1] /\ i + 1 # k /\ i - 1 # k
      BY <1>3, <2>1, <2>3
    <3>2. M[s[k + 1]] = N[e] /\ Q[s[k - 1]] = P[e]
      BY <1>8, <2>1, <2>3, <3>1
    <3> QED
      BY <1>1, <1>7, <1>13, <2>1, <2>3, <3>1, <3>2
  <2>4. CASE i > k
    <3>1. t[i] = s[i + 1] /\ t[i - 1] = s[i] /\ i # k /\ i + 1 # k /\ i + 1 # k + 1 /\ i # k - 1
      BY <1>3, <2>1, <2>4
    <3>2. P[s[i]] = s[i + 1] /\ N[s[i + 1]] = s[i]
      BY <1>1, <1>6, <1>13, <2>1
    <3> QED
      BY <1>8, <2>1, <3>1, <3>2
  <2> QED
    BY <2>1, <2>2, <2>3, <2>4
<1>14. Linked(t, g, h, n - 1, M, Q)
  BY <1>1, <1>3, <1>5, <1>11, <1>12, <1>13 DEF Linked
<1> QED
  BY <1>14 DEF t

(***************************************************************************)
(* The linked lists: the inductive invariant.                              *)
(***************************************************************************)

ListTypes ==
    /\ first \in [Lists -> Ends] /\ last \in [Lists -> Ends] /\ numentries \in [Lists -> Nat]
    /\ next \in Links /\ prev \in Links /\ list \in [Entries -> Lists \cup {NULL}]

\* Every list is linked, holds the entries that name it, and an entry on no list
\* has no links.
ListsLinked == \A l \in Lists :
    Linked(List!Contents(l), first[l], last[l], numentries[l], next, prev)
Holds(s, n, l, on) == \A e \in Entries : on[e] = l <=> \E i \in 1 .. n : s[i] = e
ListsHold == \A l \in Lists : Holds(List!Contents(l), numentries[l], l, list)
OffUnlinked == \A e \in Entries : list[e] = NULL => next[e] = NULL /\ prev[e] = NULL

\* A walk is where it has got to.
At(c, s, n) == IF c.page = NULL THEN c.seen = n ELSE c.seen \in 1 .. n /\ s[c.seen] = c.page
CursorRight == cursor.q # NULL =>
    /\ cursor.q \in Lists
    /\ At(cursor, Along(numentries[cursor.q], last[cursor.q], prev), numentries[cursor.q])

ListInv == ListTypes /\ ListsLinked /\ ListsHold /\ OffUnlinked /\ CursorRight

\* A step that changes list l only, to t.
Relinked(l, t) ==
    /\ Linked(t, first'[l], last'[l], numentries'[l], next', prev')
    /\ Holds(t, numentries'[l], l, list')
    /\ \A r \in Lists \ {l} : /\ first'[r] = first[r] /\ last'[r] = last[r]
                              /\ numentries'[r] = numentries[r]
                              /\ \A e \in Entries : list'[e] = r <=> list[e] = r
    /\ \A e \in Entries : list[e] \in Lists \ {l} => next'[e] = next[e] /\ prev'[e] = prev[e]
    /\ cursor' = IF cursor.q = l THEN List!NoCursor ELSE cursor

\* So it is in the next state.
LEMMA NextContents == \A l : List!Contents(l)' = Along(numentries'[l], last'[l], prev')
BY DEF List!Contents, Along

\* A step that relinks one list to t keeps the invariant and the other lists.
LEMMA ListsKept ==
  ASSUME List!NullAssumption, ListInv, NEW l \in Lists, NEW t, Relinked(l, t), ListTypes',
         OffUnlinked'
  PROVE  /\ ListInv'
         /\ List!Contents(l)' = t
         /\ \A r \in Lists \ {l} : List!Contents(r)' = List!Contents(r)
<1>1. List!Contents(l)' = t
  <2>1. Along(numentries'[l], last'[l], prev') = t
    BY LinkedWalk DEF Relinked
  <2> QED
    BY <2>1, NextContents
<1>2. ASSUME NEW r \in Lists \ {l}
      PROVE  /\ Linked(List!Contents(r), first'[r], last'[r], numentries'[r], next', prev')
             /\ List!Contents(r)' = List!Contents(r)
  <2> DEFINE s == List!Contents(r)
             n == numentries[r]
  <2>1. /\ Linked(s, first[r], last[r], n, next, prev)
        /\ \A e \in Entries : list[e] = r <=> \E i \in 1 .. n : s[i] = e
    BY DEF ListInv, ListsLinked, ListsHold, Holds
  <2> HIDE DEF s
  <2>2. /\ first'[r] = first[r] /\ last'[r] = last[r] /\ numentries'[r] = n
        /\ \A e \in Entries : list[e] = r => next'[e] = next[e] /\ prev'[e] = prev[e]
    BY DEF Relinked
  <2> HIDE DEF n
  <2>3. \A i \in 1 .. n : s[i] \in Entries
    BY <2>1 DEF Linked
  <2>4. \A i \in 1 .. n : next'[s[i]] = next[s[i]] /\ prev'[s[i]] = prev[s[i]]
    BY <2>1, <2>2, <2>3
  <2>5. Linked(s, first[r], last[r], n, next', prev')
    <3>1. PICK f, z, N, P, M, Q : /\ f = first[r] /\ z = last[r] /\ N = next /\ P = prev
                                  /\ M = next' /\ Q = prev'
      OBVIOUS
    <3>2. /\ Linked(s, f, z, n, N, P)
          /\ \A i \in 1 .. n : M[s[i]] = N[s[i]] /\ Q[s[i]] = P[s[i]]
      BY <2>1, <2>4, <3>1
    <3>3. Linked(s, f, z, n, M, Q)
      BY <3>2, LinkedFrame
    <3> QED
      BY <3>1, <3>3
  <2>6. Linked(s, first'[r], last'[r], numentries'[r], next', prev')
    BY <2>2, <2>5
  <2>7. Along(numentries'[r], last'[r], prev') = s
    BY <2>6, LinkedWalk
  <2>8. List!Contents(r)' = s
    BY <2>7, NextContents
  <2> QED
    BY <2>6, <2>8 DEF s
<1>3. ListsLinked'
  <2>1. ASSUME NEW r \in Lists
        PROVE  Linked(List!Contents(r)', first'[r], last'[r], numentries'[r], next', prev')
    <3>1. CASE r = l
      BY <1>1, <3>1 DEF Relinked
    <3>2. CASE r # l
      BY <1>2, <3>2
    <3> QED
      BY <3>1, <3>2
  <2> QED
    BY <2>1 DEF ListsLinked
<1>4. ListsHold'
  <2>1. ASSUME NEW r \in Lists
        PROVE  Holds(List!Contents(r)', numentries'[r], r, list')
    <3>1. CASE r = l
      BY <1>1, <3>1 DEF Relinked
    <3>2. CASE r # l
      <4>1. Holds(List!Contents(r), numentries[r], r, list)
        BY DEF ListInv, ListsHold
      <4>2. numentries'[r] = numentries[r] /\ \A e \in Entries : list'[e] = r <=> list[e] = r
        BY <3>2 DEF Relinked
      <4>3. List!Contents(r)' = List!Contents(r)
        BY <1>2, <3>2
      <4>4. Holds(List!Contents(r), numentries'[r], r, list')
        BY <4>1, <4>2 DEF Holds
      <4> QED
        BY <4>3, <4>4
    <3> QED
      BY <3>1, <3>2
  <2> QED
    BY <2>1 DEF ListsHold
<1>5. CursorRight'
  <2>1. CASE cursor.q = l
    BY <2>1 DEF Relinked, CursorRight, List!NoCursor
  <2>2. CASE cursor.q # l
    <3>1. cursor' = cursor
      BY <2>2 DEF Relinked
    <3>2. SUFFICES ASSUME cursor.q # NULL
                   PROVE  /\ cursor.q \in Lists
                          /\ At(cursor, Along(numentries'[cursor.q], last'[cursor.q], prev'),
                                numentries'[cursor.q])
      BY <3>1 DEF CursorRight
    <3>3. PICK r \in Lists \ {l} : r = cursor.q
      BY <2>2, <3>2 DEF ListInv, CursorRight
    <3>4. At(cursor, Along(numentries[r], last[r], prev), numentries[r])
      BY <3>2, <3>3 DEF ListInv, CursorRight
    <3>5. List!Contents(r)' = List!Contents(r) /\ numentries'[r] = numentries[r]
      BY <1>2 DEF Relinked
    <3> QED
      BY <3>3, <3>4, <3>5, NextContents, ContentsAlong
  <2> QED
    BY <2>1, <2>2
<1> QED
  BY <1>1, <1>2, <1>3, <1>4, <1>5 DEF ListInv

\* At first every list is empty.
LEMMA EmptyLists == ASSUME List!Init, NEW l \in Lists PROVE List!Contents(l) = <<>>
<1>1. IsWalk(<<>>, 0, last[l], prev)
  BY DEF IsWalk
<1>2. Along(0, last[l], prev) = <<>>
  BY <1>1, AlongIs
<1> QED
  BY <1>2, ContentsAlong DEF List!Init

\* The invariant holds at first.
LEMMA ListInit == List!NullAssumption /\ List!Init => ListInv
<1> SUFFICES ASSUME List!NullAssumption, List!Init PROVE ListInv
  OBVIOUS
<1>1. ListTypes /\ OffUnlinked
  BY DEF List!Init, ListTypes, OffUnlinked, Ends, Links
<1>2. ASSUME NEW l \in Lists PROVE List!Contents(l) = <<>>
  BY EmptyLists
<1>3. \A l \in Lists : Linked(<<>>, first[l], last[l], numentries[l], next, prev)
  BY DEF List!Init, Linked
<1>4. ListsLinked
  BY <1>2, <1>3 DEF ListsLinked
<1>5. ListsHold
  BY DEF List!Init, List!NullAssumption, ListsHold, Holds
<1>6. CursorRight
  BY DEF List!Init, List!NoCursor, CursorRight
<1> QED
  BY <1>1, <1>4, <1>5, <1>6 DEF ListInv

\* A list and what it is made of.
LEMMA ListIs ==
  ASSUME ListInv, NEW l \in Lists
  PROVE  \E s, f, z, n :
            /\ s = List!Contents(l) /\ f = first[l] /\ z = last[l] /\ n = numentries[l]
            /\ n \in Nat /\ s \in Seq(Entries) /\ Len(s) = n
            /\ Linked(s, f, z, n, next, prev)
            /\ \A e \in Entries : list[e] = l <=> \E i \in 1 .. n : s[i] = e
BY DEF ListInv, ListTypes, ListsLinked, ListsHold, Holds, Linked

\* enqueue_fifo appends the entry.
LEMMA EnqueueStep ==
  ASSUME List!NullAssumption, ListInv, NEW l \in Lists, NEW e \in Entries,
         List!enqueue_fifo(l, e)
  PROVE  /\ ListInv'
         /\ List!Contents(l)' = Append(List!Contents(l), e)
         /\ \A r \in Lists \ {l} : List!Contents(r)' = List!Contents(r)
<1>1. NULL \notin Entries /\ NULL \notin Lists
  BY DEF List!NullAssumption
<1>2. PICK s, f, z, n :
         /\ s = List!Contents(l) /\ f = first[l] /\ z = last[l] /\ n = numentries[l]
         /\ n \in Nat /\ s \in Seq(Entries) /\ Len(s) = n
         /\ Linked(s, f, z, n, next, prev)
         /\ \A x \in Entries : list[x] = l <=> \E i \in 1 .. n : s[i] = x
  BY ListIs
<1>3. /\ list[e] = NULL /\ next' = [next EXCEPT ![e] = f]
      /\ IF f # NULL THEN prev' = [prev EXCEPT ![f] = e] /\ last' = last
                     ELSE last' = [last EXCEPT ![l] = e] /\ prev' = prev
      /\ first' = [first EXCEPT ![l] = e] /\ list' = [list EXCEPT ![e] = l]
      /\ numentries' = [numentries EXCEPT ![l] = @ + 1]
      /\ cursor' = IF cursor.q = l THEN List!NoCursor ELSE cursor
  BY <1>2 DEF List!enqueue_fifo, List!StopWalk
<1>4. ListTypes
  BY DEF ListInv
<1>5. /\ next[e] = NULL /\ prev[e] = NULL /\ next \in Links /\ prev \in Links
      /\ \A i \in 1 .. n : s[i] # e
  BY <1>1, <1>2, <1>3, <1>4 DEF ListInv, OffUnlinked, ListTypes
<1>6. (n = 0 <=> f = NULL) /\ \A i \in 1 .. n : s[i] \in Entries
  BY <1>1, <1>2, LinkedEnds
<1>7. f # NULL => f \in Entries /\ list[f] = l
  <2> SUFFICES ASSUME f # NULL PROVE f \in Entries /\ list[f] = l
    OBVIOUS
  <2>1. n \in 1 .. n /\ f = s[n]
    BY <1>2, <1>6 DEF Linked
  <2> QED
    BY <1>2, <1>6, <2>1
<1>8. first'[l] = e /\ numentries'[l] = n + 1 /\ last'[l] = (IF f # NULL THEN z ELSE e)
  BY <1>2, <1>3, <1>4 DEF ListTypes
<1>9. PICK k, M, Q : /\ k = last'[l] /\ M = next' /\ Q = prev'
                     /\ M = [next EXCEPT ![e] = f]
                     /\ Q = IF f # NULL THEN [prev EXCEPT ![f] = e] ELSE prev
  BY <1>3
<1>10. PICK N, P : N = next /\ P = prev
  OBVIOUS
<1>11. Linked(Append(s, e), e, k, n + 1, M, Q)
  <2>1. /\ Linked(s, f, z, n, N, P) /\ N \in Links /\ P \in Links /\ P[e] = NULL
        /\ M = [N EXCEPT ![e] = f] /\ Q = (IF f # NULL THEN [P EXCEPT ![f] = e] ELSE P)
    BY <1>2, <1>5, <1>9, <1>10
  <2>2. k = IF f # NULL THEN z ELSE e
    BY <1>8, <1>9
  <2> QED
    BY <1>1, <1>5, <2>1, <2>2, LinkedPush
<1>12. ListTypes'
  <2>1. first' \in [Lists -> Ends] /\ last' \in [Lists -> Ends] /\ numentries' \in [Lists -> Nat]
    BY <1>3, <1>4 DEF ListTypes, Ends
  <2>2. next' \in Links /\ prev' \in Links /\ list' \in [Entries -> Lists \cup {NULL}]
    BY <1>3, <1>4, <1>7 DEF ListTypes, Links
  <2> QED
    BY <2>1, <2>2 DEF ListTypes
<1>13. OffUnlinked'
  <2>1. \A x \in Entries : list'[x] = NULL =>
           x # e /\ x # f /\ list[x] = NULL /\ next'[x] = next[x] /\ prev'[x] = prev[x]
    BY <1>1, <1>3, <1>4, <1>7 DEF ListTypes, Links
  <2> QED
    BY <2>1 DEF ListInv, OffUnlinked
<1>14. Holds(Append(s, e), n + 1, l, list')
  <2>1. \A i \in 1 .. n : Append(s, e)[i] = s[i]
    BY <1>2
  <2>2. Append(s, e)[n + 1] = e /\ n + 1 \in 1 .. n + 1
    BY <1>2
  <2>3. \A i \in 1 .. n + 1 : i = n + 1 \/ i \in 1 .. n
    BY <1>2
  <2>4. \A i \in 1 .. n : i \in 1 .. n + 1
    BY <1>2
  <2>5. \A x \in Entries : list'[x] = l <=> x = e \/ list[x] = l
    BY <1>3, <1>4 DEF ListTypes
  <2>6. ASSUME NEW x \in Entries, list'[x] = l
        PROVE  \E i \in 1 .. n + 1 : Append(s, e)[i] = x
    BY <1>2, <2>1, <2>2, <2>4, <2>5, <2>6
  <2>7. ASSUME NEW x \in Entries, NEW i \in 1 .. n + 1, Append(s, e)[i] = x
        PROVE  list'[x] = l
    <3>1. CASE i = n + 1
      BY <2>2, <2>5, <2>7, <3>1
    <3>2. CASE i \in 1 .. n
      BY <1>2, <2>1, <2>5, <2>7, <3>2
    <3> QED
      BY <2>3, <3>1, <3>2
  <2> QED
    BY <2>6, <2>7 DEF Holds
<1>15. Relinked(l, Append(s, e))
  <2>1. \A r \in Lists \ {l} : /\ first'[r] = first[r] /\ last'[r] = last[r]
                              /\ numentries'[r] = numentries[r]
    BY <1>3, <1>4 DEF ListTypes
  <2>2. \A r \in Lists \ {l} : \A x \in Entries : list'[x] = r <=> list[x] = r
    BY <1>1, <1>3, <1>4 DEF ListTypes
  <2>3. \A x \in Entries : list[x] \in Lists \ {l} => next'[x] = next[x] /\ prev'[x] = prev[x]
    BY <1>1, <1>3, <1>4, <1>7 DEF ListTypes, Links
  <2>4. Linked(Append(s, e), first'[l], last'[l], numentries'[l], next', prev')
    BY <1>8, <1>9, <1>11
  <2> QED
    BY <1>3, <1>8, <1>14, <2>1, <2>2, <2>3, <2>4 DEF Relinked
<1> QED
  BY <1>2, <1>12, <1>13, <1>15, ListsKept

\* Without is what SubSeq and \o make.
LEMMA WithoutIs ==
  ASSUME NEW S, NEW s \in Seq(S), NEW k \in 1 .. Len(s)
  PROVE  /\ SubSeq(s, 1, k - 1) \o SubSeq(s, k + 1, Len(s)) = Without(s, k)
         /\ Without(s, k) \in Seq(S) /\ Len(Without(s, k)) = Len(s) - 1
<1>1. PICK n \in Nat : n = Len(s) /\ k \in 1 .. n
  OBVIOUS
<1>2. /\ SubSeq(s, 1, k - 1) \in Seq(S) /\ Len(SubSeq(s, 1, k - 1)) = k - 1
      /\ \A m \in 1 .. k - 1 : SubSeq(s, 1, k - 1)[m] = s[m]
  BY <1>1
<1>3. /\ SubSeq(s, k + 1, n) \in Seq(S) /\ Len(SubSeq(s, k + 1, n)) = n - k
      /\ \A m \in 1 .. n - k : SubSeq(s, k + 1, n)[m] = s[m + k]
  BY <1>1
<1>4. PICK u \in Seq(S) :
        u = SubSeq(s, 1, k - 1) /\ Len(u) = k - 1 /\ \A m \in 1 .. k - 1 : u[m] = s[m]
  BY <1>2, Zenon
<1>5. PICK v \in Seq(S) :
        v = SubSeq(s, k + 1, n) /\ Len(v) = n - k /\ \A m \in 1 .. n - k : v[m] = s[m + k]
  BY <1>3, Zenon
<1>6. PICK t : t = u \o v
  OBVIOUS
<1>7. /\ t \in Seq(S) /\ Len(t) = Len(u) + Len(v)
      /\ \A m \in 1 .. Len(u) + Len(v) : t[m] = IF m <= Len(u) THEN u[m] ELSE v[m - Len(u)]
  BY <1>6, ConcatProperties, Zenon
<1>8. k - 1 + (n - k) = n - 1 /\ n - 1 \in Nat
  BY <1>1
<1>9. /\ Len(t) = n - 1
      /\ \A m \in 1 .. n - 1 : t[m] = IF m <= k - 1 THEN u[m] ELSE v[m - (k - 1)]
  BY <1>4, <1>5, <1>7, <1>8, Zenon
<1>10. ASSUME NEW m \in 1 .. n - 1 PROVE t[m] = IF m < k THEN s[m] ELSE s[m + 1]
  <2>1. CASE m < k
    <3>1. m \in 1 .. k - 1 /\ m <= k - 1
      BY <1>1, <2>1
    <3> QED
      BY <1>4, <1>9, <2>1, <3>1
  <2>2. CASE ~(m < k)
    <3>1. m - (k - 1) \in 1 .. n - k /\ m - (k - 1) + k = m + 1 /\ ~(m <= k - 1)
      BY <1>1, <2>2
    <3>2. v[m - (k - 1)] = s[m + 1]
      BY <1>5, <3>1
    <3> QED
      BY <1>9, <2>2, <3>1, <3>2
  <2> QED
    BY <2>1, <2>2
<1>11. t = [m \in 1 .. n - 1 |-> t[m]]
  <2>1. t = [m \in 1 .. Len(t) |-> t[m]]
    BY <1>7
  <2> QED
    BY <1>9, <2>1
<1>12. Without(s, k) = [m \in 1 .. n - 1 |-> IF m < k THEN s[m] ELSE s[m + 1]]
  BY <1>1 DEF Without
<1>13. t = Without(s, k)
  BY <1>10, <1>11, <1>12
<1> QED
  BY <1>1, <1>4, <1>5, <1>6, <1>7, <1>9, <1>13

\* page_list_remove_page takes the entry out.
LEMMA RemoveStep ==
  ASSUME List!NullAssumption, ListInv, NEW l \in Lists, NEW e \in Entries,
         List!page_list_remove_page(l, e)
  PROVE  \E k \in 1 .. numentries[l] :
            /\ ListInv' /\ List!Contents(l)[k] = e
            /\ last[l] = e => k = 1
            /\ List!Contents(l)' = Without(List!Contents(l), k)
            /\ \A r \in Lists \ {l} : List!Contents(r)' = List!Contents(r)
<1>1. NULL \notin Entries /\ NULL \notin Lists
  BY DEF List!NullAssumption
<1>2. PICK s, f, z, n :
         /\ s = List!Contents(l) /\ f = first[l] /\ z = last[l] /\ n = numentries[l]
         /\ n \in Nat /\ s \in Seq(Entries) /\ Len(s) = n
         /\ Linked(s, f, z, n, next, prev)
         /\ \A x \in Entries : list[x] = l <=> \E i \in 1 .. n : s[i] = x
  BY ListIs
<1>3. PICK N, P : N = next /\ P = prev
  OBVIOUS
<1>4. /\ list[e] = l
      /\ first' = IF f = e THEN [first EXCEPT ![l] = N[e]] ELSE first
      /\ last' = IF z = e THEN [last EXCEPT ![l] = P[e]] ELSE last
      /\ next' = [x \in Entries |-> IF x = e THEN NULL ELSE IF x = P[e] THEN N[e] ELSE N[x]]
      /\ prev' = [x \in Entries |-> IF x = e THEN NULL ELSE IF x = N[e] THEN P[e] ELSE P[x]]
      /\ numentries' = [numentries EXCEPT ![l] = n - 1]
      /\ list' = [list EXCEPT ![e] = NULL]
      /\ cursor' = IF cursor.q = l THEN List!NoCursor ELSE cursor
  BY <1>2, <1>3 DEF List!page_list_remove_page, List!StopWalk
<1>5. ListTypes
  BY DEF ListInv
<1>6. PICK k \in 1 .. n : s[k] = e
  BY <1>2, <1>4
<1>7. N \in Links /\ P \in Links /\ Linked(s, f, z, n, N, P)
  BY <1>2, <1>3, <1>5 DEF ListTypes
<1>8. /\ \A i \in 1 .. n : s[i] \in Entries
      /\ P[e] = IF k = n THEN NULL ELSE s[k + 1]
      /\ N[e] = IF k = 1 THEN NULL ELSE s[k - 1]
  BY <1>1, <1>6, <1>7, LinkedEnds
<1>9. /\ P[e] \in Ends /\ N[e] \in Ends
      /\ P[e] # NULL => P[e] \in Entries /\ list[P[e]] = l
      /\ N[e] # NULL => N[e] \in Entries /\ list[N[e]] = l
  <2>1. k # n => k + 1 \in 1 .. n
    BY <1>2
  <2>2. k # 1 => k - 1 \in 1 .. n
    BY <1>2
  <2> QED
    BY <1>2, <1>8, <2>1, <2>2 DEF Ends
<1>10. /\ first'[l] = (IF f = e THEN N[e] ELSE f) /\ last'[l] = (IF z = e THEN P[e] ELSE z)
       /\ numentries'[l] = n - 1
  BY <1>2, <1>4, <1>5 DEF ListTypes
<1>11. PICK g, h, M, Q : g = first'[l] /\ h = last'[l] /\ M = next' /\ Q = prev'
  OBVIOUS
<1>12. PICK t : t = Without(s, k)
  OBVIOUS
<1>13. Linked(t, g, h, n - 1, M, Q)
  <2>1. /\ g = (IF f = e THEN N[e] ELSE f) /\ h = (IF z = e THEN P[e] ELSE z)
        /\ M = [x \in Entries |-> IF x = e THEN NULL ELSE IF x = P[e] THEN N[e] ELSE N[x]]
        /\ Q = [x \in Entries |-> IF x = e THEN NULL ELSE IF x = N[e] THEN P[e] ELSE P[x]]
    BY <1>4, <1>10, <1>11
  <2>2. Linked(Without(s, k), g, h, n - 1, M, Q)
    BY <1>1, <1>6, <1>7, <2>1, LinkedCut
  <2> QED
    BY <1>12, <2>2
<1>14. ListTypes'
  <2>1. first' \in [Lists -> Ends] /\ last' \in [Lists -> Ends]
    BY <1>4, <1>5, <1>9 DEF ListTypes
  <2>2. numentries' \in [Lists -> Nat]
    <3>1. n - 1 \in Nat
      BY <1>2
    <3> QED
      BY <1>4, <1>5, <3>1 DEF ListTypes
  <2>3. next' \in Links /\ prev' \in Links
    BY <1>4, <1>7, <1>9 DEF Links, Ends
  <2>4. list' \in [Entries -> Lists \cup {NULL}]
    BY <1>4, <1>5 DEF ListTypes
  <2> QED
    BY <2>1, <2>2, <2>3, <2>4 DEF ListTypes
<1>15. \A x \in Entries : x # e => list'[x] = list[x]
  BY <1>4, <1>5 DEF ListTypes
<1>16. list'[e] = NULL
  BY <1>4, <1>5 DEF ListTypes
<1>17. \A x \in Entries : list[x] # l => /\ x # e /\ x # P[e] /\ x # N[e]
                                        /\ next'[x] = next[x] /\ prev'[x] = prev[x]
  BY <1>1, <1>3, <1>4, <1>9
<1>18. OffUnlinked'
  <2>1. next'[e] = NULL /\ prev'[e] = NULL
    BY <1>4
  <2> QED
    BY <1>1, <1>15, <1>17, <2>1 DEF ListInv, OffUnlinked
<1>19. Holds(t, n - 1, l, list')
  <2>1. /\ Len(t) = n - 1
        /\ \A i \in 1 .. n - 1 : t[i] = IF i < k THEN s[i] ELSE s[i + 1]
    BY <1>2, <1>12 DEF Without
  <2>2. \A i, j \in 1 .. n : s[i] = s[j] => i = j
    BY <1>7 DEF Linked
  <2>3. ASSUME NEW x \in Entries, list'[x] = l
        PROVE  \E i \in 1 .. n - 1 : t[i] = x
    <3>1. x # e /\ list[x] = l
      BY <1>1, <1>15, <1>16, <2>3
    <3>2. PICK i \in 1 .. n : s[i] = x
      BY <1>2, <3>1
    <3>3. i # k
      BY <1>6, <3>1, <3>2
    <3>4. CASE i < k
      <4>1. i \in 1 .. n - 1 /\ t[i] = x
        BY <1>2, <2>1, <3>2, <3>4
      <4> QED
        BY <4>1
    <3>5. CASE i > k
      <4>1. i - 1 \in 1 .. n - 1 /\ t[i - 1] = x
        BY <1>2, <2>1, <3>2, <3>5
      <4> QED
        BY <4>1
    <3> QED
      BY <3>3, <3>4, <3>5
  <2>4. ASSUME NEW x \in Entries, NEW i \in 1 .. n - 1, t[i] = x
        PROVE  list'[x] = l
    <3>1. PICK j \in 1 .. n : s[j] = x /\ j # k
      <4>1. CASE i < k
        <5>1. i \in 1 .. n /\ i # k /\ s[i] = x
          BY <1>2, <2>1, <2>4, <4>1
        <5> QED
          BY <5>1
      <4>2. CASE ~(i < k)
        <5>1. i + 1 \in 1 .. n /\ i + 1 # k /\ s[i + 1] = x
          BY <1>2, <2>1, <2>4, <4>2
        <5> QED
          BY <5>1
      <4> QED
        BY <4>1, <4>2
    <3>2. x # e
      BY <1>6, <2>2, <3>1
    <3>3. list[x] = l
      BY <1>2, <3>1
    <3> QED
      BY <1>15, <3>2, <3>3
  <2> QED
    BY <2>3, <2>4 DEF Holds
<1>20. Relinked(l, t)
  <2>1. \A r \in Lists \ {l} : /\ first'[r] = first[r] /\ last'[r] = last[r]
                              /\ numentries'[r] = numentries[r]
    BY <1>4, <1>5 DEF ListTypes
  <2>2. ASSUME NEW r \in Lists \ {l}, NEW x \in Entries
        PROVE  list'[x] = r <=> list[x] = r
    BY <1>1, <1>4, <1>15, <1>16
  <2>3. \A x \in Entries : list[x] \in Lists \ {l} => next'[x] = next[x] /\ prev'[x] = prev[x]
    BY <1>17
  <2>4. Linked(t, first'[l], last'[l], numentries'[l], next', prev')
    BY <1>10, <1>11, <1>13
  <2>5. Holds(t, numentries'[l], l, list')
    BY <1>10, <1>19
  <2> QED
    BY <1>4, <2>1, <2>2, <2>3, <2>4, <2>5 DEF Relinked
<1>21. /\ ListInv' /\ List!Contents(l)' = t
       /\ \A r \in Lists \ {l} : List!Contents(r)' = List!Contents(r)
  BY <1>14, <1>18, <1>20, ListsKept
<1>22. last[l] = e => k = 1
  <2>1. s[1] = z /\ 1 \in 1 .. n
    BY <1>2 DEF Linked
  <2> QED
    BY <1>2, <1>6, <2>1 DEF Linked
<1> QED
  BY <1>2, <1>6, <1>12, <1>21, <1>22

\* dequeue_fifo does to the last entry what page_list_remove_page would.
LEMMA DequeueRemoves ==
  ASSUME List!NullAssumption, ListInv, NEW l \in Lists, List!dequeue_fifo(l)
  PROVE  last[l] \in Entries /\ List!page_list_remove_page(l, last[l])
<1>1. NULL \notin Entries /\ NULL \notin Lists
  BY DEF List!NullAssumption
<1>2. PICK s, f, z, n :
         /\ s = List!Contents(l) /\ f = first[l] /\ z = last[l] /\ n = numentries[l]
         /\ n \in Nat /\ s \in Seq(Entries) /\ Len(s) = n
         /\ Linked(s, f, z, n, next, prev)
         /\ \A x \in Entries : list[x] = l <=> \E i \in 1 .. n : s[i] = x
  BY ListIs
<1>3. /\ z # NULL /\ last' = [last EXCEPT ![l] = prev[z]]
      /\ first' = IF prev[z] = NULL THEN [first EXCEPT ![l] = NULL] ELSE first
      /\ next' = [e \in Entries |-> IF e \in {z, prev[z]} THEN NULL ELSE next[e]]
      /\ prev' = [prev EXCEPT ![z] = NULL]
      /\ list' = [list EXCEPT ![z] = NULL]
      /\ numentries' = [numentries EXCEPT ![l] = @ - 1]
      /\ List!StopWalk(l)
  BY <1>2 DEF List!dequeue_fifo
<1>4. PICK N, P : N = next /\ P = prev
  OBVIOUS
<1>5. N \in Links /\ P \in Links /\ first \in [Lists -> Ends]
  BY <1>4 DEF ListInv, ListTypes
<1>6. /\ (n = 0 <=> z = NULL) /\ \A i \in 1 .. n : s[i] \in Entries
      /\ \A i \in 1 .. n : /\ P[s[i]] = IF i = n THEN NULL ELSE s[i + 1]
                           /\ N[s[i]] = IF i = 1 THEN NULL ELSE s[i - 1]
  BY <1>1, <1>2, <1>4, LinkedEnds
<1>7. 1 \in 1 .. n /\ n \in 1 .. n /\ s[1] = z /\ s[n] = f
  BY <1>2, <1>3, <1>6 DEF Linked
<1>8. z \in Entries /\ list[z] = l /\ N[z] = NULL
  BY <1>2, <1>6, <1>7
<1>9. P[z] = NULL <=> n = 1
  <2>1. n # 1 => 2 \in 1 .. n
    BY <1>7
  <2> QED
    BY <1>1, <1>6, <1>7, <2>1
<1>10. f = z <=> n = 1
  BY <1>2, <1>7 DEF Linked
<1>11. first' = IF f = z THEN [first EXCEPT ![l] = N[z]] ELSE first
  BY <1>3, <1>4, <1>8, <1>9, <1>10
<1>12. next' = [x \in Entries |-> IF x = z THEN NULL ELSE IF x = P[z] THEN N[z] ELSE N[x]]
  BY <1>3, <1>4, <1>8
<1>13. prev' = [x \in Entries |-> IF x = z THEN NULL ELSE IF x = N[z] THEN P[z] ELSE P[x]]
  <2>1. prev' = [x \in Entries |-> IF x = z THEN NULL ELSE P[x]]
    BY <1>3, <1>4, <1>5 DEF Links
  <2> QED
    BY <1>1, <1>8, <2>1
<1> QED
  BY <1>2, <1>3, <1>4, <1>8, <1>11, <1>12, <1>13 DEF List!page_list_remove_page

\* The oldest entry leaves.
LEMMA DequeueStep ==
  ASSUME List!NullAssumption, ListInv, NEW l \in Lists, List!dequeue_fifo(l)
  PROVE  /\ ListInv' /\ List!Contents(l) # <<>>
         /\ List!Contents(l)' = Tail(List!Contents(l))
         /\ \A r \in Lists \ {l} : List!Contents(r)' = List!Contents(r)
<1>1. PICK s, n : /\ s = List!Contents(l) /\ n = numentries[l] /\ n \in Nat
                  /\ s \in Seq(Entries) /\ Len(s) = n
  BY ListIs
<1>2. last[l] \in Entries /\ List!page_list_remove_page(l, last[l])
  BY DequeueRemoves
<1>3. PICK k \in 1 .. n :
         /\ ListInv' /\ k = 1
         /\ List!Contents(l)' = Without(s, k)
         /\ \A r \in Lists \ {l} : List!Contents(r)' = List!Contents(r)
  BY <1>1, <1>2, RemoveStep
<1>4. Without(s, 1) = Tail(s)
  <2>1. n # 0 /\ s # <<>>
    BY <1>1, <1>3
  <2>2. Tail(s) = [i \in 1 .. n - 1 |-> s[i + 1]]
    <3>1. /\ Tail(s) \in Seq(Entries) /\ Len(Tail(s)) = n - 1
          /\ \A i \in 1 .. n - 1 : Tail(s)[i] = s[i + 1]
      BY <1>1, <2>1
    <3>2. PICK t \in Seq(Entries) :
            t = Tail(s) /\ Len(t) = n - 1 /\ \A i \in 1 .. n - 1 : t[i] = s[i + 1]
      BY <3>1, Zenon
    <3>3. t = [i \in 1 .. Len(t) |-> t[i]]
      OBVIOUS
    <3> QED
      BY <3>2, <3>3
  <2>3. Without(s, 1) = [i \in 1 .. n - 1 |-> s[i + 1]]
    BY <1>1 DEF Without
  <2> QED
    BY <2>2, <2>3
<1>5. s # <<>>
  BY <1>1, <1>3
<1> QED
  BY <1>1, <1>3, <1>4, <1>5

\* next_page goes one entry on.
LEMMA WalkStep ==
  ASSUME List!NullAssumption, ListInv, NEW l \in Lists, List!next_page(l)
  PROVE  ListInv' /\ \A r \in Lists : List!Contents(r)' = List!Contents(r)
<1>1. NULL \notin Entries /\ NULL \notin Lists
  BY DEF List!NullAssumption
<1>2. PICK s, f, z, n :
         /\ s = List!Contents(l) /\ f = first[l] /\ z = last[l] /\ n = numentries[l]
         /\ n \in Nat /\ s \in Seq(Entries) /\ Len(s) = n
         /\ Linked(s, f, z, n, next, prev)
         /\ \A x \in Entries : list[x] = l <=> \E i \in 1 .. n : s[i] = x
  BY ListIs
<1>3. PICK p, res :
         /\ p = (IF cursor.q = l THEN cursor.page ELSE NULL)
         /\ res = (IF p = NULL THEN z ELSE prev[p])
         /\ cursor' = [q |-> l, page |-> res, seen |-> (IF p = NULL THEN 0 ELSE cursor.seen)
                                                       + (IF res = NULL THEN 0 ELSE 1)]
         /\ UNCHANGED <<first, last, numentries, next, prev, list>>
  BY <1>2 DEF List!next_page, List!headVars, List!linkVars
<1>4. /\ (n = 0 <=> z = NULL) /\ \A i \in 1 .. n : s[i] \in Entries
      /\ \A i \in 1 .. n : prev[s[i]] = IF i = n THEN NULL ELSE s[i + 1]
  <2>1. PICK N, P : N = next /\ P = prev
    OBVIOUS
  <2> QED
    BY <1>1, <1>2, <2>1, LinkedEnds
<1>5. At(cursor', s, n)
  <2>1. CASE p = NULL
    <3>1. n > 0 => s[1] = z /\ 1 \in 1 .. n
      BY <1>2 DEF Linked
    <3> QED
      BY <1>2, <1>3, <1>4, <2>1, <3>1 DEF At
  <2>2. CASE p # NULL
    <3>1. cursor.q = l /\ p = cursor.page
      BY <1>3, <2>2
    <3>2. PICK k : k = cursor.seen /\ k \in 1 .. n /\ s[k] = p
      BY <1>1, <1>2, <2>2, <3>1, ContentsAlong DEF ListInv, CursorRight, At
    <3>3. CASE k = n
      BY <1>3, <1>4, <2>2, <3>2, <3>3 DEF At
    <3>4. CASE k # n
      <4>1. k + 1 \in 1 .. n /\ res = s[k + 1] /\ res # NULL
        BY <1>1, <1>2, <1>3, <1>4, <2>2, <3>2, <3>4
      <4> QED
        BY <1>3, <2>2, <3>2, <4>1 DEF At
    <3> QED
      BY <3>3, <3>4
  <2> QED
    BY <2>1, <2>2
<1>6. \A r \in Lists : List!Contents(r)' = List!Contents(r)
  BY <1>3, NextContents, ContentsAlong
<1>7. ListTypes' /\ OffUnlinked'
  BY <1>3 DEF ListInv, ListTypes, OffUnlinked
<1>8. ListsLinked'
  BY <1>3, <1>6 DEF ListInv, ListsLinked
<1>9. ListsHold'
  BY <1>3, <1>6 DEF ListInv, ListsHold, Holds
<1>10. CursorRight'
  <2>1. cursor'.q = l
    BY <1>3
  <2>2. Along(numentries'[l], last'[l], prev') = s
    BY <1>2, <1>3, ContentsAlong
  <2>3. At(cursor', Along(numentries'[cursor'.q], last'[cursor'.q], prev'), numentries'[cursor'.q])
    BY <1>2, <1>3, <1>5, <2>1, <2>2
  <2> QED
    BY <2>1, <2>3 DEF CursorRight
<1> QED
  BY <1>6, <1>7, <1>8, <1>9, <1>10 DEF ListInv

\* One state of the instance is like another.
LEMMA ListSame ==
  ASSUME ListInv, UNCHANGED List!vars
  PROVE  ListInv' /\ \A r \in Lists : List!Contents(r)' = List!Contents(r)
<1>1. UNCHANGED <<first, last, numentries, next, prev, list, cursor>>
  BY DEF List!vars
<1>2. \A r \in Lists : List!Contents(r)' = List!Contents(r)
  BY <1>1, NextContents, ContentsAlong
<1>3. ListTypes' /\ OffUnlinked'
  BY <1>1 DEF ListInv, ListTypes, OffUnlinked
<1>4. ListsLinked'
  BY <1>1, <1>2 DEF ListInv, ListsLinked
<1>5. ListsHold'
  BY <1>1, <1>2 DEF ListInv, ListsHold, Holds
<1>6. CursorRight'
  BY <1>1 DEF ListInv, CursorRight
<1> QED
  BY <1>2, <1>3, <1>4, <1>5, <1>6 DEF ListInv

\* Every step keeps the invariant.
LEMMA ListStep ==
  ASSUME List!NullAssumption, ListInv, [List!Next]_(List!vars)
  PROVE  ListInv'
  BY EnqueueStep, RemoveStep, DequeueStep, WalkStep, ListSame DEF List!Next

\* The properties follow.
LEMMA ListSafe ==
  ASSUME List!NullAssumption, ListInv
  PROVE  List!WellFormed /\ List!WalkInOrder
<1>1. NULL \notin Entries /\ NULL \notin Lists
  BY DEF List!NullAssumption
<1>2. ASSUME NEW l \in Lists, NEW s, s = List!Contents(l), NEW n, n = numentries[l]
      PROVE  /\ n = 0 => first[l] = NULL /\ last[l] = NULL
             /\ n > 0 => /\ s[n] = first[l] /\ prev[first[l]] = NULL
                         /\ s[1] = last[l] /\ next[last[l]] = NULL
             /\ \A i \in 1 .. n - 1 : next[s[i + 1]] = s[i]
             /\ {s[i] : i \in 1 .. n} = {e \in Entries : list[e] = l}
             /\ n \in Nat /\ s \in Seq(Entries) /\ Len(s) = n
  <2>1. /\ Linked(s, first[l], last[l], n, next, prev)
        /\ \A e \in Entries : list[e] = l <=> \E i \in 1 .. n : s[i] = e
    BY <1>2 DEF ListInv, ListsLinked, ListsHold, Holds
  <2>2. n \in Nat /\ s \in Seq(Entries) /\ Len(s) = n /\ \A i \in 1 .. n : s[i] \in Entries
    BY <2>1 DEF Linked
  <2>3. ASSUME NEW i \in 1 .. n - 1 PROVE next[s[i + 1]] = s[i]
    <3>1. i + 1 \in 1 .. n /\ i + 1 > 1 /\ i + 1 - 1 = i
      BY <2>2
    <3>2. next[s[i + 1]] = s[i + 1 - 1]
      BY <2>1, <3>1 DEF Linked
    <3> QED
      BY <3>1, <3>2
  <2>4. {s[i] : i \in 1 .. n} = {e \in Entries : list[e] = l}
    BY <2>1, <2>2
  <2>5. /\ n = 0 => first[l] = NULL /\ last[l] = NULL
        /\ n > 0 => /\ s[n] = first[l] /\ prev[first[l]] = NULL
                    /\ s[1] = last[l] /\ next[last[l]] = NULL
    BY <2>1 DEF Linked
  <2> QED
    BY <2>2, <2>3, <2>4, <2>5
<1>3. List!WellFormed
  <2>1. \A e \in Entries : list[e] = NULL => next[e] = NULL /\ prev[e] = NULL
    BY DEF ListInv, OffUnlinked
  <2> QED
    BY <1>2, <2>1 DEF List!WellFormed
<1>4. ASSUME cursor.q # NULL
      PROVE  IF cursor.page = NULL THEN cursor.seen = Len(List!Contents(cursor.q))
             ELSE /\ cursor.seen \in DOMAIN List!Contents(cursor.q)
                  /\ List!Contents(cursor.q)[cursor.seen] = cursor.page
  <2>1. PICK l, s, n :
        l \in Lists /\ l = cursor.q /\ s = List!Contents(l) /\ n = numentries[l]
    BY <1>4 DEF ListInv, CursorRight
  <2>2. At(cursor, s, n)
    BY <1>4, <2>1, ContentsAlong DEF ListInv, CursorRight
  <2>3. Len(s) = n /\ DOMAIN s = 1 .. n
    BY <1>2, <2>1
  <2> QED
    BY <2>1, <2>2, <2>3 DEF At
<1>5. List!WalkInOrder
  BY <1>4 DEF List!WalkInOrder
<1> QED
  BY <1>3, <1>5

(***************************************************************************)
(* The linked lists: the refinement of FIFO queues.                        *)
(***************************************************************************)

\* The queues when one list changes.
LEMMA QueuesNext ==
  ASSUME NEW l \in Lists, NEW t, List!Contents(l)' = t,
         \A r \in Lists \ {l} : List!Contents(r)' = List!Contents(r)
  PROVE  List!Queues' = [List!Queues EXCEPT ![l] = t]
<1>1. ASSUME NEW r \in Lists
      PROVE  List!Contents(r)' = IF r = l THEN t ELSE List!Contents(r)
  <2>1. CASE r = l
    <3>1. List!Contents(r)' = Along(numentries'[l], last'[l], prev')
      BY <2>1, NextContents
    <3> QED
      BY <2>1, <3>1, NextContents
  <2>2. CASE r # l
    BY <2>2
  <2> QED
    BY <2>1, <2>2
<1>2. List!Queues' = [r \in Lists |-> List!Contents(r)']
  BY DEF List!Queues
<1>3. List!Queues' = [r \in Lists |-> IF r = l THEN t ELSE List!Contents(r)]
  BY <1>1, <1>2
<1> QED
  BY <1>3 DEF List!Queues

\* Every step is one of the queues or invisible.
LEMMA ListRefines ==
  ASSUME List!NullAssumption, ListInv, [List!Next]_(List!vars)
  PROVE  [List!Queue!Next]_(List!Queues)
<1>1. ASSUME NEW l \in Lists, NEW e \in Entries, List!enqueue_fifo(l, e)
      PROVE  List!Queue!Enqueue(l, e)
  <2>1. \A r \in Lists : \A i \in DOMAIN List!Contents(r) : List!Contents(r)[i] # e
    <3>1. list[e] = NULL /\ \A r \in Lists : list[e] # r
      BY <1>1 DEF List!enqueue_fifo, List!NullAssumption
    <3> QED
      BY <3>1, ListIs
  <2>2. List!Queues' = [List!Queues EXCEPT ![l] = Append(List!Contents(l), e)]
    BY <1>1, EnqueueStep, QueuesNext
  <2> QED
    BY <2>1, <2>2 DEF List!Queues, List!Queue!Enqueue, List!Queue!On
<1>2. ASSUME NEW l \in Lists, List!dequeue_fifo(l)
      PROVE  List!Queue!Dequeue(l)
  <2>1. List!Contents(l) # <<>>
    BY <1>2, DequeueStep
  <2>2. List!Queues' = [List!Queues EXCEPT ![l] = Tail(List!Contents(l))]
    BY <1>2, DequeueStep, QueuesNext
  <2> QED
    BY <2>1, <2>2 DEF List!Queues, List!Queue!Dequeue
<1>3. ASSUME NEW l \in Lists, NEW e \in Entries, List!page_list_remove_page(l, e)
      PROVE  List!Queue!Remove(l, e)
  <2>1. PICK s, n : /\ s = List!Contents(l) /\ n = numentries[l] /\ n \in Nat
                    /\ s \in Seq(Entries) /\ Len(s) = n
    BY ListIs
  <2>2. PICK k \in 1 .. n :
          /\ s[k] = e /\ List!Contents(l)' = Without(s, k)
          /\ \A r \in Lists \ {l} : List!Contents(r)' = List!Contents(r)
    BY <1>3, <2>1, RemoveStep
  <2>3. List!Queues' = [List!Queues EXCEPT ![l] = Without(s, k)]
    BY <2>2, QueuesNext
  <2>4. Without(s, k) = SubSeq(s, 1, k - 1) \o SubSeq(s, k + 1, Len(s))
    BY <2>1, WithoutIs
  <2>5. k \in DOMAIN s /\ List!Queues[l] = s
    BY <2>1 DEF List!Queues
  <2>6. List!Queues' = [List!Queues EXCEPT ![l] = SubSeq(@, 1, k - 1) \o SubSeq(@, k + 1, Len(@))]
    BY <2>3, <2>4, <2>5
  <2> QED
    BY <2>2, <2>5, <2>6 DEF List!Queues, List!Queue!Remove
<1>4. ASSUME \A r \in Lists : List!Contents(r)' = List!Contents(r)
      PROVE  List!Queues' = List!Queues
  BY <1>4 DEF List!Queues
<1> QED
  BY <1>1, <1>2, <1>3, <1>4, WalkStep, ListSame DEF List!Next, List!Queue!Next

\* The linked lists are FIFO queues from which an entry can also be taken out of the
\* middle, whatever is enqueued, dequeued, removed and walked, for every set of lists
\* and of entries: FifoList implements FifoSpec.
THEOREM ListsAreQueues ==
  ASSUME List!NullAssumption
  PROVE  List!Spec => List!IsFifo
<1>1. List!Init => ListInv
  BY ListInit
<1>2. ListInv /\ [List!Next]_(List!vars) => ListInv'
  BY ListStep
<1>3. List!Init => List!Queue!Init
  BY EmptyLists DEF List!Queue!Init, List!Queues
<1>4. ListInv /\ [List!Next]_(List!vars) => [List!Queue!Next]_(List!Queues)
  BY ListRefines
<1> QED
  BY <1>1, <1>2, <1>3, <1>4, PTL DEF List!Spec, List!IsFifo, List!Queue!Spec

\* The links stay well formed and a walk visits the entries in dequeue order.
THEOREM ListsAreRight == Spec => []ListRight
<1>1. List!NullAssumption
  BY ThreadsAssumption
<1>2. Init => ListInv
  BY <1>1, ListInit DEF Init
<1>3. ListInv /\ [Next]_vars => ListInv'
  <2>1. ASSUME [Next]_vars PROVE [List!Next]_(List!vars)
    BY <2>1 DEF Next, ContainerStep, ModeStep, PageStep, CopyStep, BenchStep, ServerStep, vars,
         containers, listVars, List!vars
  <2> QED
    BY <1>1, <2>1, ListStep
<1>4. ListInv => ListRight
  BY <1>1, ListSafe DEF ListRight
<1> QED
  BY <1>2, <1>3, <1>4, PTL DEF Spec
================================================================================
