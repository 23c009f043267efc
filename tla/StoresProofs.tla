---------------------------- MODULE StoresProofs -----------------------------
(***************************************************************************)
(* Proofs about four of the parts that MCStores puts side by side.         *)
(*                                                                         *)
(* RecvBuffer: for every size of the ring, of the header and of the        *)
(* longest request, and every stream, the two segments are exactly the     *)
(* bytes received and not given back.                                      *)
(*                                                                         *)
(* SegmentAlloc: for any threads and segments, a segment has one owner.    *)
(* The invariant says, statement by statement, which segment a thread has  *)
(* in its hands and what it knows of the free list.                        *)
(*                                                                         *)
(* Smoothing: for every tree and any number of neighbours, a page is       *)
(* scored with neighbours, each once, and before the first gap with all of *)
(* them.  The invariant says what is in the two rings at each place of the *)
(* loop and why no address leaves both.                                    *)
(*                                                                         *)
(* HashTable: for any keys, items and slots, a bucket is a map.  The       *)
(* invariant adds the chain, as a sequence of items.                       *)
(***************************************************************************)
EXTENDS MCStores, FiniteSetTheorems, SequenceTheorems, WellFoundedInduction, TLAPS

\* The variables of RecvBuffer, as MCStores places them.
buf_1 == x1
len_1 == x2
buf_2 == x3
len_2 == x4
received == x5
done == x6
reql == x7
pc == x8

USE DEF buf_1, len_1, buf_2, len_2, received, done, reql, pc

(***************************************************************************)
(* Positions in the ring of the receive buffer.                            *)
(***************************************************************************)

\* A number is a multiple of R and its remainder.
LEMMA DivMod ==
  ASSUME NEW R \in Nat \ {0}, NEW a \in Int
  PROVE  \E q \in Int, r \in 0 .. R - 1 : a = R * q + r /\ r = a % R
<1>1. a \div R \in Int
  OBVIOUS
<1>2. a = R * (a \div R) + (a % R)
  BY SMTT(60)
<1>3. a % R \in 0 .. R - 1
  OBVIOUS
<1> QED
  BY <1>1, <1>2, <1>3, Zenon

\* The remainder is unique.
LEMMA ModIs ==
  ASSUME NEW R \in Nat \ {0}, NEW q \in Int, NEW r \in 0 .. R - 1
  PROVE  (R * q + r) % R = r
  BY SMTT(60)

\* k bytes further on in the ring, without reaching its end ...
LEMMA ModStays ==
  ASSUME NEW R \in Nat \ {0}, NEW a \in Nat, NEW k \in Nat,
         NEW s \in 0 .. R - 1, (a % R) + k = s
  PROVE  (a + k) % R = s
<1>1. a \in Int
  OBVIOUS
<1>2. PICK q \in Int, r \in 0 .. R - 1 : a = R * q + r /\ r = a % R
  BY <1>1, DivMod, Zenon
<1>3. a + k = R * q + s
  BY <1>2
<1>4. (R * q + s) % R = s
  BY ModIs
<1> QED
  BY <1>3, <1>4, Zenon

\* ... and going round it once.
LEMMA ModWraps ==
  ASSUME NEW R \in Nat \ {0}, NEW a \in Nat, NEW k \in Nat,
         NEW s \in 0 .. R - 1, (a % R) + k = R + s
  PROVE  (a + k) % R = s
<1>1. a \in Int
  OBVIOUS
<1>2. PICK q \in Int, r \in 0 .. R - 1 : a = R * q + r /\ r = a % R
  BY <1>1, DivMod, Zenon
<1>3. R * (q + 1) = R * q + R
  OBVIOUS
<1>4. a + k = R * (q + 1) + s
  BY <1>2, <1>3
<1>5. q + 1 \in Int
  OBVIOUS
<1>6. (R * (q + 1) + s) % R = s
  BY <1>5, ModIs, Zenon
<1> QED
  BY <1>4, <1>6, Zenon

(***************************************************************************)
(* The inductive invariant.  A second segment exists only when the first   *)
(* one ends at the end of the ring, and then begins at its start.          *)
(***************************************************************************)

TypeInv == /\ len_1 \in Nat /\ len_2 \in Nat /\ buf_1 \in Nat /\ buf_2 \in Nat
           /\ received \in Nat /\ done \in Nat
           /\ reql \in Header .. MaxRequest
           /\ pc \in {"poll", "consume"}

SegmentsInv ==
    /\ len_1 + len_2 = received - done
    /\ len_1 + len_2 <= RingSize
    /\ len_1 = 0 => len_2 = 0
    /\ len_1 > 0 => buf_1 = done % RingSize /\ buf_1 + len_1 <= RingSize
    /\ len_2 > 0 => buf_1 + len_1 = RingSize /\ buf_2 = 0

StreamInv == TypeInv /\ SegmentsInv

\* The constants are the sizes of a ring that holds the longest request.
LEMMA Sizes ==
  ASSUME Receive!RecvBufferAssumption
  PROVE  /\ RingSize \in Nat \ {0} /\ Header \in Nat \ {0}
         /\ MaxRequest \in Nat \ {0} /\ MaxRequest <= RingSize
  BY DEF Receive!RecvBufferAssumption

\* Where the byte after the last one received goes.
LEMMA NextPosition ==
  ASSUME Receive!RecvBufferAssumption, StreamInv
  PROVE  /\ received % RingSize \in 0 .. RingSize - 1
         /\ len_1 = 0 => received = done
         /\ len_1 > 0 /\ len_2 = 0 /\ buf_1 + len_1 < RingSize
              => received % RingSize = buf_1 + len_1
         /\ len_1 > 0 /\ len_2 = 0 /\ buf_1 + len_1 = RingSize
              => received % RingSize = 0
         /\ len_2 > 0 => received % RingSize = len_2
<1> DEFINE R == RingSize
<1>1. R \in Nat \ {0} /\ received \in Int /\ done \in Nat
  BY Sizes DEF StreamInv, TypeInv
<1>2. received % R \in 0 .. R - 1
  BY <1>1
<1>3. len_1 = 0 => received = done
  BY DEF StreamInv, TypeInv, SegmentsInv
<1>4. received = done + (len_1 + len_2) /\ len_1 + len_2 \in Nat
  BY DEF StreamInv, TypeInv, SegmentsInv
<1>5. ASSUME len_1 > 0, len_2 = 0, buf_1 + len_1 < R
      PROVE  received % R = buf_1 + len_1
  <2>1. (done % R) + (len_1 + len_2) = buf_1 + len_1
    BY <1>5 DEF StreamInv, TypeInv, SegmentsInv
  <2>2. buf_1 + len_1 \in 0 .. R - 1
    BY <1>1, <1>5 DEF StreamInv, TypeInv
  <2> QED
    BY <1>1, <1>4, <2>1, <2>2, ModStays
<1>6. ASSUME len_1 > 0, len_2 = 0, buf_1 + len_1 = R
      PROVE  received % R = 0
  <2>1. (done % R) + (len_1 + len_2) = R + 0
    BY <1>1, <1>6 DEF StreamInv, TypeInv, SegmentsInv
  <2>2. 0 \in 0 .. R - 1
    BY <1>1
  <2> QED
    BY <1>1, <1>4, <2>1, <2>2, ModWraps
<1>7. ASSUME len_2 > 0
      PROVE  received % R = len_2
  <2>1. done % R = buf_1 /\ buf_1 + len_1 = R
    BY <1>7 DEF StreamInv, TypeInv, SegmentsInv
  <2>2. (done % R) + (len_1 + len_2) = R + len_2
    BY <1>1, <2>1 DEF StreamInv, TypeInv
  <2>3. len_2 \in 0 .. R - 1
    BY <1>1, <1>7 DEF StreamInv, TypeInv, SegmentsInv
  <2> QED
    BY <1>1, <1>4, <2>2, <2>3, ModWraps
<1> QED
  BY <1>2, <1>3, <1>5, <1>6, <1>7
(***************************************************************************)
(* The invariant holds.                                                    *)
(***************************************************************************)

\* A connection starts with nothing received.
LEMMA StreamInit ==
  ASSUME Receive!RecvBufferAssumption, Receive!Init
  PROVE  StreamInv
  BY Sizes DEF Receive!Init, StreamInv, TypeInv, SegmentsInv

\* New bytes go where the last segment ends, or begin the second one: neither
\* the assertions nor the abort is reached.
LEMMA RecvStep ==
  ASSUME Receive!RecvBufferAssumption, StreamInv, NEW n \in 1 .. RingSize, Receive!connection_recv(n)
  PROVE  StreamInv'
<1> DEFINE R == RingSize
<1>1. R \in Nat \ {0} /\ n \in Nat \ {0}
  BY Sizes
<1>2. PICK buf \in 0 .. R - 1 : buf = received % R
  BY NextPosition
<1>3. /\ received' = received + n /\ received + n - done <= R /\ buf + n <= R
      /\ UNCHANGED <<done, reql>>
  BY <1>2 DEF Receive!connection_recv, Receive!Arrives
<1>4. /\ len_1 = 0 => received = done
      /\ len_1 > 0 /\ len_2 = 0 /\ buf_1 + len_1 < R => buf = buf_1 + len_1
      /\ len_1 > 0 /\ len_2 = 0 /\ buf_1 + len_1 = R => buf = 0
      /\ len_2 > 0 => buf = len_2
  BY <1>2, NextPosition
<1>5. CASE len_1 = 0
  <2>1. /\ pc' = "consume" /\ buf_1' = buf /\ len_1' = n /\ buf_2' = buf_2 /\ len_2' = len_2
        /\ len_2 = 0
    BY <1>1, <1>2, <1>5 DEF Receive!connection_recv, StreamInv, SegmentsInv
  <2>2. buf = done % R
    BY <1>2, <1>4, <1>5
  <2> QED
    BY <1>1, <1>2, <1>3, <1>5, <2>1, <2>2 DEF StreamInv, TypeInv, SegmentsInv
<1>6. CASE len_1 # 0 /\ buf_1 + len_1 = buf
  <2>1. len_2 = 0
    BY <1>1, <1>2, <1>6 DEF StreamInv, TypeInv, SegmentsInv
  <2>2. /\ pc' = "consume" /\ len_1' = len_1 + n
        /\ buf_1' = buf_1 /\ buf_2' = buf_2 /\ len_2' = len_2
    BY <1>1, <1>2, <1>6, <2>1 DEF Receive!connection_recv
  <2> QED
    BY <1>1, <1>2, <1>3, <1>6, <2>1, <2>2 DEF StreamInv, TypeInv, SegmentsInv
<1>7. CASE len_1 # 0 /\ buf_1 + len_1 # buf /\ len_2 = 0
  <2>1. buf = 0 /\ buf_1 + len_1 = R
    BY <1>1, <1>2, <1>4, <1>7 DEF StreamInv, TypeInv, SegmentsInv
  <2>2. /\ pc' = "consume" /\ buf_2' = buf /\ len_2' = n
        /\ buf_1' = buf_1 /\ len_1' = len_1
    BY <1>1, <1>2, <1>7 DEF Receive!connection_recv
  <2> QED
    BY <1>1, <1>2, <1>3, <1>7, <2>1, <2>2 DEF StreamInv, TypeInv, SegmentsInv
<1>8. CASE len_1 # 0 /\ buf_1 + len_1 # buf /\ len_2 # 0
  <2>1. buf_2 = 0 /\ buf = len_2
    BY <1>1, <1>4, <1>8 DEF StreamInv, TypeInv, SegmentsInv
  <2>2. buf_2 + len_2 = buf
    BY <1>1, <2>1
  <2>3. /\ pc' = "consume" /\ len_2' = len_2 + n
        /\ buf_1' = buf_1 /\ len_1' = len_1 /\ buf_2' = buf_2
    BY <1>1, <1>2, <1>8, <2>2 DEF Receive!connection_recv
  <2> QED
    BY <1>1, <1>2, <1>3, <1>8, <2>1, <2>3 DEF StreamInv, TypeInv, SegmentsInv
<1> QED
  BY <1>5, <1>6, <1>7, <1>8

\* Where the stream goes on after a request: at the same offset of the segment
\* it ended in.
LEMMA FrontMoves ==
  ASSUME Receive!RecvBufferAssumption, StreamInv, len_1 + len_2 >= reql
  PROVE  /\ len_1 > reql => (done + reql) % RingSize = buf_1 + reql
         /\ len_1 <= reql /\ len_2 > 0 => (done + reql) % RingSize = reql - len_1
<1> DEFINE R == RingSize
<1>1. R \in Nat \ {0} /\ done \in Nat /\ reql \in Nat /\ reql > 0
  BY Sizes DEF StreamInv, TypeInv
<1>2. ASSUME len_1 > reql
      PROVE  (done + reql) % R = buf_1 + reql
  <2>1. (done % R) + reql = buf_1 + reql /\ buf_1 + reql \in 0 .. R - 1
    BY <1>1, <1>2 DEF StreamInv, TypeInv, SegmentsInv
  <2> QED
    BY <1>1, <2>1, ModStays
<1>3. ASSUME len_1 <= reql, len_2 > 0
      PROVE  (done + reql) % R = reql - len_1
  <2>1. len_1 > 0 /\ done % R = buf_1 /\ buf_1 + len_1 = R
    BY <1>3 DEF StreamInv, TypeInv, SegmentsInv
  <2>2. (done % R) + reql = R + (reql - len_1)
    BY <1>1, <2>1 DEF StreamInv, TypeInv
  <2>3. reql - len_1 \in 0 .. R - 1
    BY <1>1, <1>3, <2>1 DEF StreamInv, TypeInv, SegmentsInv
  <2> QED
    BY <1>1, <2>2, <2>3, ModWraps
<1> QED
  BY <1>2, <1>3

\* A request is taken off the front, wherever it ends.
LEMMA ConsumeStep ==
  ASSUME Receive!RecvBufferAssumption, StreamInv, Receive!Consume
  PROVE  StreamInv'
<1> DEFINE R == RingSize
<1>1. R \in Nat \ {0} /\ reql \in Nat /\ reql > 0
  BY Sizes DEF StreamInv, TypeInv
<1>2. /\ done' = done + reql /\ reql' \in Header .. MaxRequest /\ pc' = pc /\ received' = received
      /\ len_1 + len_2 >= reql
  BY DEF Receive!Consume, Receive!Complete
<1>3. /\ len_1 > reql => done' % R = buf_1 + reql
      /\ len_1 <= reql /\ len_2 > 0 => done' % R = reql - len_1
  BY <1>2, FrontMoves, Zenon
<1>4. CASE len_1 = reql
  <2>1. buf_1' = buf_2 /\ len_1' = len_2 /\ len_2' = 0 /\ buf_2' = buf_2
    BY <1>1, <1>4 DEF Receive!Consume, Receive!ConsumeFirst
  <2>2. len_2 > 0 => done' % R = 0 /\ buf_2 = 0
    BY <1>1, <1>3, <1>4 DEF StreamInv, SegmentsInv
  <2> QED
    BY <1>1, <1>2, <1>4, <2>1, <2>2 DEF StreamInv, TypeInv, SegmentsInv
<1>5. CASE len_1 > reql
  <2>1. buf_1' = buf_1 + reql /\ len_1' = len_1 - reql /\ buf_2' = buf_2 /\ len_2' = len_2
    BY <1>1, <1>5 DEF Receive!Consume, Receive!ConsumeFirst, StreamInv, TypeInv
  <2> QED
    BY <1>1, <1>2, <1>3, <1>5, <2>1 DEF StreamInv, TypeInv, SegmentsInv
<1>6. CASE len_1 < reql
  <2>1. /\ buf_2' = buf_2 + (reql - len_1) /\ buf_1' = buf_2 + (reql - len_1)
        /\ len_1' = len_2 - (reql - len_1) /\ len_2' = 0
    BY <1>1, <1>6 DEF Receive!Consume, Receive!ConsumeBoth, StreamInv, TypeInv
  <2>2. len_2 > 0 /\ buf_2 = 0
    BY <1>1, <1>2, <1>6 DEF StreamInv, TypeInv, SegmentsInv
  <2>3. done' % R = reql - len_1
    BY <1>1, <1>3, <1>6, <2>2 DEF StreamInv, TypeInv
  <2> QED
    BY <1>1, <1>2, <1>6, <2>1, <2>2, <2>3 DEF StreamInv, TypeInv, SegmentsInv
<1> QED
  BY <1>1, <1>4, <1>5, <1>6 DEF StreamInv, TypeInv

\* Every step keeps the invariant.
LEMMA StreamStep ==
  ASSUME Receive!RecvBufferAssumption, StreamInv, [Receive!Next]_(Receive!vars)
  PROVE  StreamInv'
<1>1. CASE Receive!Consume
  BY <1>1, ConsumeStep
<1>2. CASE Receive!Short
  BY <1>2 DEF Receive!Short, StreamInv, TypeInv, SegmentsInv
<1>3. CASE \E n \in 1 .. RingSize : Receive!connection_recv(n)
  BY <1>3, RecvStep
<1>4. CASE UNCHANGED Receive!vars
  BY <1>4 DEF Receive!vars, StreamInv, TypeInv, SegmentsInv
<1> QED
  BY <1>1, <1>2, <1>3, <1>4 DEF Receive!Next

\* What the invariant says of the bytes a request is read from.
LEMMA StreamRead ==
  ASSUME Receive!RecvBufferAssumption, StreamInv
  PROVE  Receive!BufferIsStream
<1> DEFINE R == RingSize
<1>1. R \in Nat \ {0} /\ done \in Nat /\ len_1 \in Nat /\ len_2 \in Nat
  BY Sizes DEF StreamInv, TypeInv
<1>2. 1 .. len_1 + len_2 = 1 .. received - done
  BY DEF StreamInv, SegmentsInv
<1>3. ASSUME NEW n \in 1 .. len_1 + len_2
      PROVE  (IF n <= len_1 THEN buf_1 + n - 1 ELSE buf_2 + n - 1 - len_1) = (done + n - 1) % R
  <2>1. n - 1 \in Nat /\ done + n - 1 = done + (n - 1) /\ len_1 > 0
    BY <1>1, <1>3 DEF StreamInv, SegmentsInv
  <2>2. done % R = buf_1 /\ buf_1 + len_1 <= R
    BY <2>1 DEF StreamInv, SegmentsInv
  <2>3. CASE n <= len_1
    <3>1. buf_1 \in Nat /\ buf_1 + n - 1 = buf_1 + (n - 1)
      BY <1>3 DEF StreamInv, TypeInv
    <3>2. buf_1 + n - 1 \in 0 .. R - 1
      BY <1>1, <2>2, <2>3, <3>1
    <3>3. (done % R) + (n - 1) = buf_1 + n - 1
      BY <2>2, <3>1, Zenon
    <3>4. (done + (n - 1)) % R = buf_1 + n - 1
      BY <1>1, <2>1, <3>2, <3>3, ModStays, Zenon
    <3> QED
      BY <2>1, <2>3, <3>4, Zenon
  <2>4. CASE ~(n <= len_1)
    <3>1. len_2 > 0 /\ buf_1 + len_1 = R /\ buf_2 = 0
      BY <1>1, <2>4 DEF StreamInv, SegmentsInv
    <3>2. buf_2 + n - 1 - len_1 = n - 1 - len_1
      BY <1>1, <3>1
    <3>3. (done % R) + (n - 1) = R + (n - 1 - len_1) /\ n - 1 - len_1 \in 0 .. R - 1
      BY <1>1, <2>2, <2>4, <3>1 DEF StreamInv, TypeInv, SegmentsInv
    <3>4. (done + (n - 1)) % R = n - 1 - len_1
      BY <1>1, <2>1, <3>3, ModWraps
    <3> QED
      BY <2>1, <2>4, <3>2, <3>4, Zenon
  <2> QED
    BY <2>3, <2>4
<1>4. Receive!Positions = [n \in 1 .. received - done |-> (done + n - 1) % R]
  BY <1>2, <1>3, Zenon DEF Receive!Positions
<1> QED
  BY <1>4 DEF Receive!BufferIsStream, StreamInv, TypeInv

(***************************************************************************)
(* What the runs check: the specification of MCStores, of which each       *)
(* behaviour runs one component.                                           *)
(***************************************************************************)

-----------------------------------------------------------------------------
(***************************************************************************)
(* Segment allocation.                                                     *)
(***************************************************************************)

\* The variables of SegmentAlloc, as MCStores places them.
segalloc_lock == x1
first_free == x2
next_free == x3
alloced == x4
owned == x5
at == x6
hand == x7
index == x8
lost == x9
broken == x10

USE DEF segalloc_lock, first_free, next_free, alloced, owned, at, hand, index, lost, broken

Segs == Segment!Segs
Links == [Segs -> Segs \cup {NULL}]

\* The segments reached from x along the links N.
ClosedIn(N, S) == \A s \in S : N[s] \in S \cup {NULL}
ChainOf(N, x) == {s \in Segs : \A S \in SUBSET Segs :
                    {x} \ {NULL} \subseteq S /\ ClosedIn(N, S) => s \in S}

\* The chain of a segment, as a function of the links.
LEMMA ChainIs == \A x : Segment!Chain(x) = ChainOf(next_free, x)
BY DEF Segment!Chain, Segment!Closed, ChainOf, ClosedIn, Segs

\* It is the least set with the segment that the links do not leave.
LEMMA ChainFacts ==
  ASSUME NEW N \in Links, NEW x \in Segs \cup {NULL}
  PROVE  /\ ChainOf(N, x) \in SUBSET Segs
         /\ {x} \ {NULL} \subseteq ChainOf(N, x)
         /\ ClosedIn(N, ChainOf(N, x))
         /\ \A S \in SUBSET Segs : {x} \ {NULL} \subseteq S /\ ClosedIn(N, S) => ChainOf(N, x) \subseteq S
<1>1. ChainOf(N, x) \in SUBSET Segs
  BY DEF ChainOf
<1>2. {x} \ {NULL} \subseteq ChainOf(N, x)
  BY DEF ChainOf
<1>3. \A S \in SUBSET Segs : {x} \ {NULL} \subseteq S /\ ClosedIn(N, S) => ChainOf(N, x) \subseteq S
  BY DEF ChainOf
<1>4. ASSUME NEW s \in ChainOf(N, x), N[s] # NULL
      PROVE  N[s] \in ChainOf(N, x)
  <2>1. s \in Segs /\ N[s] \in Segs
    BY <1>1, <1>4 DEF Links
  <2>2. ASSUME NEW S \in SUBSET Segs, {x} \ {NULL} \subseteq S, ClosedIn(N, S)
        PROVE  N[s] \in S
    BY <1>3, <1>4, <2>2 DEF ClosedIn
  <2> QED
    BY <2>1, <2>2 DEF ChainOf
<1>5. ClosedIn(N, ChainOf(N, x))
  BY <1>4 DEF ClosedIn
<1> QED
  BY <1>1, <1>2, <1>3, <1>5

\* Nothing is linked to NULL.
LEMMA ChainNull ==
  ASSUME NEW N \in Links
  PROVE  ChainOf(N, NULL) = {}
<1>1. ClosedIn(N, {}) /\ {NULL} \ {NULL} \subseteq {} /\ {} \in SUBSET Segs
  BY DEF ClosedIn
<1> QED
  BY <1>1, ChainFacts

\* The chain of a segment is the segment and the chain of the next one.
LEMMA ChainFirst ==
  ASSUME NEW N \in Links, NEW a \in Segs, NEW x, x = N[a], a # NULL
  PROVE  /\ x \in Segs \cup {NULL}
         /\ ChainOf(N, a) = ChainOf(N, x) \cup {a}
<1>1. x \in Segs \cup {NULL}
  BY DEF Links
<1>2. PICK A, B : A = ChainOf(N, a) /\ B = ChainOf(N, x)
  OBVIOUS
<1>3. /\ B \in SUBSET Segs /\ {x} \ {NULL} \subseteq B /\ ClosedIn(N, B)
      /\ \A S \in SUBSET Segs : {x} \ {NULL} \subseteq S /\ ClosedIn(N, S) => B \subseteq S
  BY <1>1, <1>2, ChainFacts
<1>4. /\ A \in SUBSET Segs /\ {a} \ {NULL} \subseteq A /\ ClosedIn(N, A)
      /\ \A S \in SUBSET Segs : {a} \ {NULL} \subseteq S /\ ClosedIn(N, S) => A \subseteq S
  BY <1>2, ChainFacts
<1>5. A \subseteq B \cup {a}
  <2>1. ClosedIn(N, B \cup {a})
    BY <1>3 DEF ClosedIn
  <2> QED
    BY <1>3, <1>4, <2>1
<1>6. B \subseteq A
  <2>1. {x} \ {NULL} \subseteq A
    BY <1>4 DEF ClosedIn
  <2> QED
    BY <1>3, <1>4, <2>1
<1> QED
  BY <1>1, <1>2, <1>4, <1>5, <1>6

\* What follows a segment of a chain is part of the chain.
LEMMA ChainRest ==
  ASSUME NEW N \in Links, NEW x \in Segs \cup {NULL}, NEW s \in ChainOf(N, x)
  PROVE  ChainOf(N, N[s]) \subseteq ChainOf(N, x)
<1>1. PICK A : A = ChainOf(N, x)
  OBVIOUS
<1>2. A \in SUBSET Segs /\ ClosedIn(N, A)
  BY <1>1, ChainFacts
<1>3. s \in Segs /\ {N[s]} \ {NULL} \subseteq A /\ N[s] \in Segs \cup {NULL}
  BY <1>1, <1>2 DEF ClosedIn, Links
<1> QED
  BY <1>1, <1>2, <1>3, ChainFacts

\* A link set outside a chain does not change it.
LEMMA ChainKept ==
  ASSUME NEW N \in Links, NEW M \in Links, NEW x \in Segs \cup {NULL}, NEW a,
         a \notin ChainOf(N, x), \A s \in Segs \ {a} : M[s] = N[s]
  PROVE  ChainOf(M, x) = ChainOf(N, x)
<1>1. PICK A, B : A = ChainOf(N, x) /\ B = ChainOf(M, x)
  OBVIOUS
<1>2. /\ A \in SUBSET Segs /\ {x} \ {NULL} \subseteq A /\ ClosedIn(N, A)
      /\ \A S \in SUBSET Segs : {x} \ {NULL} \subseteq S /\ ClosedIn(N, S) => A \subseteq S
  BY <1>1, ChainFacts
<1>3. /\ B \in SUBSET Segs /\ {x} \ {NULL} \subseteq B /\ ClosedIn(M, B)
      /\ \A S \in SUBSET Segs : {x} \ {NULL} \subseteq S /\ ClosedIn(M, S) => B \subseteq S
  BY <1>1, ChainFacts
<1>4. B \subseteq A
  <2>1. ClosedIn(M, A)
    BY <1>1, <1>2 DEF ClosedIn
  <2> QED
    BY <1>2, <1>3, <2>1
<1>5. A \subseteq B
  <2>1. ClosedIn(N, B)
    BY <1>1, <1>3, <1>4 DEF ClosedIn
  <2> QED
    BY <1>2, <1>3, <2>1
<1> QED
  BY <1>1, <1>4, <1>5
\* Who has which segments: O[t] those of thread t, H[t] those in its hands, F the
\* free list, L those lost, n how many have been used.
Apart(O, H, F) ==
  /\ \A t, u \in Allocators : t # u => \A s \in O[t] \cup H[t] : s \notin O[u] \cup H[u]
  /\ \A t \in Allocators : \A s \in O[t] : s \notin H[t] \cup F
  /\ \A t \in Allocators : \A s \in H[t] : s \notin F
Known(O, H, F, L, n) ==
  \A s : s \in 0 .. n - 1 <=> \/ s \in F \/ s \in L
                              \/ \E t \in Allocators : s \in O[t] \cup H[t]
Shared(O, H, F, L, n) == Apart(O, H, F) /\ Known(O, H, F, L, n)

Sets == [Allocators -> SUBSET Segs]

\* From the free list to the hands of t.
LEMMA FromList ==
  ASSUME NEW O \in Sets, NEW H \in Sets, NEW F, NEW L, NEW n, Shared(O, H, F, L, n),
         NEW t \in Allocators, NEW a \in F, H[t] = {}, NEW G, G = [H EXCEPT ![t] = {a}]
  PROVE  Shared(O, G, F \ {a}, L, n)
<1>1. G[t] = {a} /\ \A u \in Allocators \ {t} : G[u] = H[u]
  BY DEF Sets
<1>2. Apart(O, G, F \ {a})
  BY <1>1 DEF Shared, Apart
<1>3. Known(O, G, F \ {a}, L, n)
  BY <1>1 DEF Shared, Known
<1> QED
  BY <1>2, <1>3 DEF Shared

\* ... and back.
LEMMA ToList ==
  ASSUME NEW O \in Sets, NEW H \in Sets, NEW F, NEW L, NEW n, Shared(O, H, F, L, n),
         NEW t \in Allocators, NEW a, H[t] = {a}, NEW G, G = [H EXCEPT ![t] = {}]
  PROVE  Shared(O, G, F \cup {a}, L, n)
<1>1. G[t] = {} /\ \A u \in Allocators \ {t} : G[u] = H[u]
  BY DEF Sets
<1>2. Apart(O, G, F \cup {a})
  BY <1>1 DEF Shared, Apart
<1>3. Known(O, G, F \cup {a}, L, n)
  BY <1>1 DEF Shared, Known
<1> QED
  BY <1>2, <1>3 DEF Shared

\* From the hands of t to its segments.
LEMMA ToOwner ==
  ASSUME NEW O \in Sets, NEW H \in Sets, NEW F, NEW L, NEW n, Shared(O, H, F, L, n),
         NEW t \in Allocators, NEW a, H[t] = {a}, NEW G, G = [H EXCEPT ![t] = {}],
         NEW P, P = [O EXCEPT ![t] = @ \cup {a}]
  PROVE  Shared(P, G, F, L, n)
<1>1. /\ G[t] = {} /\ P[t] = O[t] \cup {a}
      /\ \A u \in Allocators \ {t} : G[u] = H[u] /\ P[u] = O[u]
  BY DEF Sets
<1>2. Apart(P, G, F)
  BY <1>1 DEF Shared, Apart
<1>3. Known(P, G, F, L, n)
  BY <1>1 DEF Shared, Known
<1> QED
  BY <1>2, <1>3 DEF Shared

\* ... and back.
LEMMA FromOwner ==
  ASSUME NEW O \in Sets, NEW H \in Sets, NEW F, NEW L, NEW n, Shared(O, H, F, L, n),
         NEW t \in Allocators, NEW a \in O[t], H[t] = {}, NEW G, G = [H EXCEPT ![t] = {a}],
         NEW P, P = [O EXCEPT ![t] = @ \ {a}]
  PROVE  Shared(P, G, F, L, n)
<1>1. /\ G[t] = {a} /\ P[t] = O[t] \ {a}
      /\ \A u \in Allocators \ {t} : G[u] = H[u] /\ P[u] = O[u]
  BY DEF Sets
<1>2. Apart(P, G, F)
  BY <1>1 DEF Shared, Apart
<1>3. Known(P, G, F, L, n)
  BY <1>1 DEF Shared, Known
<1> QED
  BY <1>2, <1>3 DEF Shared

\* The segment in the hands of t is lost.
LEMMA ToLost ==
  ASSUME NEW O \in Sets, NEW H \in Sets, NEW F, NEW L, NEW n, Shared(O, H, F, L, n),
         NEW t \in Allocators, NEW a, H[t] = {a}, NEW G, G = [H EXCEPT ![t] = {}]
  PROVE  Shared(O, G, F, L \cup {a}, n)
<1>1. G[t] = {} /\ \A u \in Allocators \ {t} : G[u] = H[u]
  BY DEF Sets
<1>2. Apart(O, G, F)
  BY <1>1 DEF Shared, Apart
<1>3. Known(O, G, F, L \cup {a}, n)
  BY <1>1 DEF Shared, Known
<1> QED
  BY <1>2, <1>3 DEF Shared

\* A segment never used comes into the hands of t.
LEMMA FromUnused ==
  ASSUME NEW O \in Sets, NEW H \in Sets, NEW F, NEW L, NEW n \in Nat, Shared(O, H, F, L, n),
         NEW t \in Allocators, H[t] = {}, NEW G, G = [H EXCEPT ![t] = {n}]
  PROVE  Shared(O, G, F, L, n + 1)
<1>1. G[t] = {n} /\ \A u \in Allocators \ {t} : G[u] = H[u]
  BY DEF Sets
<1>2. n \notin F /\ \A u \in Allocators : n \notin O[u] \cup H[u]
  <2>1. n \notin 0 .. n - 1
    OBVIOUS
  <2> QED
    BY <2>1, Zenon DEF Shared, Known
<1>3. Apart(O, G, F)
  BY <1>1, <1>2 DEF Shared, Apart
<1>4. \A s : s \in 0 .. n + 1 - 1 <=> s \in 0 .. n - 1 \/ s = n
  OBVIOUS
<1>5. Known(O, G, F, L, n + 1)
  BY <1>1, <1>4 DEF Shared, Known
<1> QED
  BY <1>3, <1>5 DEF Shared
\* The invariant.
SegSteps == {"idle", "lock1", "head", "next", "release", "check", "lock2", "count", "bump",
             "fresh", "lock3", "link", "push"}
SegTypes == /\ segalloc_lock \in BOOLEAN /\ broken \in BOOLEAN /\ lost \in SUBSET Segs
            /\ first_free \in Segs \cup {NULL} /\ next_free \in Links
            /\ alloced \in 0 .. segmaxnum
            /\ owned \in Sets
            /\ at \in [Allocators -> SegSteps]
            /\ hand \in [Allocators -> Segs \cup {NULL}]
            /\ index \in [Allocators -> 0 .. segmaxnum]

\* What a thread at step p with h and i has in its hands, and what it knows.
HandsOf(p, h, i) == CASE p \in {"release", "lock3", "link", "push"} -> {h} \ {NULL}
                      [] p = "fresh" -> {i}
                      [] OTHER -> {}
Hands == [t \in Allocators |-> HandsOf(at[t], hand[t], index[t])]
Knows(p, h, i) == /\ p \in {"lock1", "head"} => h = NULL
                  /\ p = "fresh" => i \in Segs
                  /\ p \in {"lock3", "link", "push"} => h # NULL
\* ... of the data behind the lock, which it holds.
Holds(p, h, i, x, N, n) == /\ p = "next" => h = x /\ h # NULL
                           /\ p = "bump" => i = n /\ i < segmaxnum
                           /\ p = "push" => N[h] = x

Free == ChainOf(next_free, first_free)
\* The thread that holds the lock.
OneHolder == /\ segalloc_lock <=> \E t \in Allocators : at[t] \in Segment!Critical
             /\ \A t, u \in Allocators :
                  at[t] \in Segment!Critical /\ at[u] \in Segment!Critical => t = u
Acyclic == \A s \in Free : s \notin ChainOf(next_free, next_free[s])
SegLocal == \A t \in Allocators : /\ Knows(at[t], hand[t], index[t])
                                  /\ Holds(at[t], hand[t], index[t], first_free, next_free, alloced)
SegShared == Shared(owned, Hands, Free, lost, alloced)
SegInv == SegTypes /\ (~broken => OneHolder /\ SegLocal /\ Acyclic /\ SegShared)

\* The numbers of the segments; NULL is none of them.
LEMMA SegSizes ==
  ASSUME StoresAssumption
  PROVE  segmaxnum \in Nat \ {0} /\ NULL \notin Segs /\ Segs = 0 .. segmaxnum - 1
BY DEF StoresAssumption, Segment!SegmentAllocAssumption, Segs, Segment!Segs

\* Every thread has the segment it works on in hand, or none.
LEMMA HandsIs ==
  ASSUME StoresAssumption, SegInv, ~broken
  PROVE  /\ Hands \in Sets
         /\ \A t \in Allocators : Hands[t] = Segment!InHand(t)
<1>1. ASSUME NEW t \in Allocators PROVE Hands[t] \in SUBSET Segs
  BY <1>1 DEF SegInv, SegTypes, SegLocal, Knows, Hands, HandsOf
<1>2. \A t \in Allocators : Hands[t] = Segment!InHand(t)
  BY DEF Hands, HandsOf, Segment!InHand
<1> QED
  BY <1>1, <1>2 DEF Hands, Sets

\* A step of thread t: the locals of the others stay.
Moved(t, p, h, i) == /\ at' = [at EXCEPT ![t] = p]
                     /\ hand' = [hand EXCEPT ![t] = h]
                     /\ index' = [index EXCEPT ![t] = i]

\* One thread takes a step: what it has in hand may change, ...
LEMMA HandsMoved ==
  ASSUME SegTypes, NEW t \in Allocators, NEW p, NEW h, NEW i, Moved(t, p, h, i)
  PROVE  /\ Hands' = [Hands EXCEPT ![t] = HandsOf(p, h, i)]
         /\ HandsOf(p, h, i) = Hands[t] => Hands' = Hands
<1>1. /\ at'[t] = p /\ hand'[t] = h /\ index'[t] = i
      /\ \A u \in Allocators \ {t} : at'[u] = at[u] /\ hand'[u] = hand[u] /\ index'[u] = index[u]
  BY DEF Moved, SegTypes
<1>2. Hands' = [Hands EXCEPT ![t] = HandsOf(p, h, i)]
  BY <1>1 DEF Hands
<1> QED
  BY <1>2 DEF Hands

\* What the others know stays: they are outside the critical sections, or the
\* data are not changed.
LEMMA LocalMoved ==
  ASSUME SegTypes, OneHolder, SegLocal, NEW t \in Allocators, NEW p, NEW h, NEW i,
         Moved(t, p, h, i), Knows(p, h, i), Holds(p, h, i, first_free', next_free', alloced'),
         \/ at[t] \in Segment!Critical
         \/ first_free' = first_free /\ next_free' = next_free /\ alloced' = alloced
  PROVE  SegLocal'
<1>1. /\ at'[t] = p /\ hand'[t] = h /\ index'[t] = i
      /\ \A u \in Allocators \ {t} : at'[u] = at[u] /\ hand'[u] = hand[u] /\ index'[u] = index[u]
  BY DEF Moved, SegTypes
<1>2. /\ Knows(at'[t], hand'[t], index'[t])
      /\ Holds(at'[t], hand'[t], index'[t], first_free', next_free', alloced')
  BY <1>1
<1>3. ASSUME NEW u \in Allocators \ {t}
      PROVE  /\ Knows(at'[u], hand'[u], index'[u])
             /\ Holds(at'[u], hand'[u], index'[u], first_free', next_free', alloced')
  <2>1. Knows(at'[u], hand'[u], index'[u])
    BY <1>1 DEF SegLocal
  <2>2. CASE at[t] \in Segment!Critical
    <3>1. at[u] \notin {"next", "bump", "push"}
      BY <2>2 DEF OneHolder, Segment!Critical
    <3> QED
      BY <1>1, <2>1, <3>1 DEF Holds
  <2>3. CASE first_free' = first_free /\ next_free' = next_free /\ alloced' = alloced
    BY <1>1, <2>1, <2>3 DEF SegLocal, Holds
  <2> QED
    BY <2>2, <2>3
<1> QED
  BY <1>2, <1>3 DEF SegLocal, Holds

\* The lock is taken when it is free, kept in a critical section and given back
\* at its end.
LEMMA HolderMoved ==
  ASSUME SegTypes, OneHolder, NEW t \in Allocators, NEW p, NEW h, NEW i, Moved(t, p, h, i),
         \/ (at[t] \in Segment!Critical <=> p \in Segment!Critical) /\ segalloc_lock' = segalloc_lock
         \/ at[t] \in Segment!Critical /\ p \notin Segment!Critical /\ segalloc_lock' = FALSE
         \/ p \in Segment!Critical /\ segalloc_lock = FALSE /\ segalloc_lock' = TRUE
  PROVE  OneHolder'
<1>1. at'[t] = p /\ \A u \in Allocators \ {t} : at'[u] = at[u]
  BY DEF Moved, SegTypes
<1>2. segalloc_lock \in BOOLEAN
  BY DEF SegTypes
<1> QED
  BY <1>1, <1>2 DEF OneHolder

\* ... its place and its variables keep their types, ...
LEMMA TypesMoved ==
  ASSUME SegTypes, NEW t \in Allocators, NEW p \in SegSteps, NEW h \in Segs \cup {NULL},
         NEW i \in 0 .. segmaxnum, Moved(t, p, h, i)
  PROVE  /\ at' \in [Allocators -> SegSteps] /\ hand' \in [Allocators -> Segs \cup {NULL}]
         /\ index' \in [Allocators -> 0 .. segmaxnum]
BY DEF Moved, SegTypes

SegData == <<first_free, next_free, alloced, owned, lost>>
LockMoved(t, p) ==
  \/ (at[t] \in Segment!Critical <=> p \in Segment!Critical) /\ segalloc_lock' = segalloc_lock
  \/ at[t] \in Segment!Critical /\ p \notin Segment!Critical /\ segalloc_lock' = FALSE
  \/ p \in Segment!Critical /\ segalloc_lock = FALSE /\ segalloc_lock' = TRUE

\* A step that changes neither the data nor what is in hand.
LEMMA QuietKeeps ==
  ASSUME StoresAssumption, SegInv, ~broken, broken' = broken, NEW t \in Allocators,
         NEW p \in SegSteps, NEW h \in Segs \cup {NULL}, NEW i \in 0 .. segmaxnum,
         Moved(t, p, h, i), UNCHANGED SegData, LockMoved(t, p),
         Knows(p, h, i), Holds(p, h, i, first_free, next_free, alloced),
         HandsOf(p, h, i) = HandsOf(at[t], hand[t], index[t])
  PROVE  SegInv'
<1>1. /\ first_free' = first_free /\ next_free' = next_free /\ alloced' = alloced
      /\ owned' = owned /\ lost' = lost
  BY DEF SegData
<1>2. SegTypes /\ OneHolder /\ SegLocal /\ Acyclic /\ SegShared
  BY DEF SegInv
<1>3. segalloc_lock' \in BOOLEAN
  BY <1>2 DEF LockMoved, SegTypes
<1>4. SegTypes'
  BY <1>1, <1>2, <1>3, TypesMoved DEF SegTypes
<1>5. OneHolder'
  BY <1>2, HolderMoved DEF LockMoved
<1>6. SegLocal'
  BY <1>1, <1>2, LocalMoved
<1>7. Hands' = Hands
  <2>1. HandsOf(p, h, i) = Hands[t]
    BY DEF Hands
  <2> QED
    BY <1>2, <2>1, HandsMoved
<1>8. Acyclic' /\ SegShared'
  BY <1>1, <1>2, <1>7 DEF Acyclic, SegShared, Free
<1> QED
  BY <1>4, <1>5, <1>6, <1>8 DEF SegInv

\* ... and some steps change its place alone.
LEMMA MovedHere ==
  ASSUME SegTypes, NEW t \in Allocators, NEW p, at' = [at EXCEPT ![t] = p], UNCHANGED <<hand, index>>
  PROVE  Moved(t, p, hand[t], index[t]) /\ hand[t] \in Segs \cup {NULL} /\ index[t] \in 0 .. segmaxnum
BY DEF SegTypes, Moved

\* A thread gets the lock.
LEMMA SpinKeeps ==
  ASSUME StoresAssumption, SegInv, ~broken, NEW t \in Allocators,
         \/ Segment!SpinLock(t, "lock1", "head") \/ Segment!SpinLock(t, "lock2", "count")
         \/ Segment!SpinLock(t, "lock3", "link")
  PROVE  SegInv'
<1>1. PICK from, to : /\ \/ from = "lock1" /\ to = "head"
                         \/ from = "lock2" /\ to = "count"
                         \/ from = "lock3" /\ to = "link"
                      /\ Segment!SpinLock(t, from, to)
  OBVIOUS
<1>2. /\ at[t] = from /\ segalloc_lock = FALSE /\ segalloc_lock' = TRUE
      /\ at' = [at EXCEPT ![t] = to] /\ UNCHANGED <<hand, index>>
      /\ UNCHANGED SegData /\ broken' = broken
  BY <1>1 DEF Segment!SpinLock, Segment!Goto, Segment!data, SegData, SegInv, SegTypes
<1>3. to \in {"head", "count", "link"} /\ to \in Segment!Critical /\ to \in SegSteps
  BY <1>1 DEF Segment!Critical, SegSteps
<1>4. SegTypes /\ Knows(at[t], hand[t], index[t])
  BY DEF SegInv, SegLocal
<1>5. Knows(to, hand[t], index[t])
  BY <1>1, <1>2, <1>3, <1>4 DEF Knows
<1>6. Holds(to, hand[t], index[t], first_free, next_free, alloced)
  BY <1>3 DEF Holds
<1>7. HandsOf(to, hand[t], index[t]) = HandsOf(at[t], hand[t], index[t])
  BY <1>1, <1>2 DEF HandsOf
<1> QED
  BY <1>2, <1>3, <1>4, <1>5, <1>6, <1>7, MovedHere, QuietKeeps DEF LockMoved

\* A thread begins to allocate.
LEMMA EnterKeeps ==
  ASSUME StoresAssumption, SegInv, ~broken, NEW t \in Allocators, Segment!Enter(t)
  PROVE  SegInv'
<1>1. PICK p : p = IF first_free # NULL THEN "lock1" ELSE "check"
  OBVIOUS
<1>2. /\ at[t] = "idle" /\ segalloc_lock' = segalloc_lock
      /\ at' = [at EXCEPT ![t] = p] /\ hand' = [hand EXCEPT ![t] = NULL] /\ UNCHANGED index
      /\ UNCHANGED SegData /\ broken' = broken
  BY <1>1 DEF Segment!Enter, Segment!Goto, Segment!data, SegData
<1>3. p \in {"lock1", "check"} /\ p \notin Segment!Critical /\ p \in SegSteps
  BY <1>1 DEF Segment!Critical, SegSteps
<1>4. SegTypes
  BY DEF SegInv
<1>5. Moved(t, p, NULL, index[t]) /\ index[t] \in 0 .. segmaxnum
  BY <1>2, <1>4 DEF SegTypes, Moved
<1>6. /\ Knows(p, NULL, index[t]) /\ Holds(p, NULL, index[t], first_free, next_free, alloced)
      /\ HandsOf(p, NULL, index[t]) = HandsOf(at[t], hand[t], index[t])
  BY <1>2, <1>3 DEF Knows, Holds, HandsOf
<1>7. LockMoved(t, p)
  BY <1>2, <1>3 DEF LockMoved, Segment!Critical
<1> QED
  BY <1>2, <1>3, <1>5, <1>6, <1>7, QuietKeeps

\* With the lock it looks at the head of the free list.
LEMMA TakeHeadKeeps ==
  ASSUME StoresAssumption, SegInv, ~broken, NEW t \in Allocators, Segment!TakeHead(t)
  PROVE  SegInv'
<1>1. PICK p, h : /\ p = IF first_free # NULL THEN "next" ELSE "release"
                  /\ h = first_free
  OBVIOUS
<1>2. /\ at[t] = "head" /\ segalloc_lock' = segalloc_lock
      /\ at' = [at EXCEPT ![t] = p] /\ UNCHANGED index
      /\ hand' = IF first_free # NULL THEN [hand EXCEPT ![t] = h] ELSE hand
      /\ UNCHANGED SegData /\ broken' = broken
  BY <1>1 DEF Segment!TakeHead, Segment!Goto, Segment!data, SegData
<1>3. p \in Segment!Critical /\ p \in SegSteps
  BY <1>1 DEF Segment!Critical, SegSteps
<1>4. SegTypes /\ hand[t] = NULL
  BY <1>2 DEF SegInv, SegLocal, Knows
<1>5. Moved(t, p, h, index[t]) /\ index[t] \in 0 .. segmaxnum /\ h \in Segs \cup {NULL}
  BY <1>1, <1>2, <1>4 DEF SegTypes, Moved
<1>6. /\ Knows(p, h, index[t]) /\ Holds(p, h, index[t], first_free, next_free, alloced)
      /\ HandsOf(p, h, index[t]) = HandsOf(at[t], hand[t], index[t])
  BY <1>1, <1>2 DEF Knows, Holds, HandsOf
<1>7. LockMoved(t, p)
  BY <1>2, <1>3 DEF LockMoved, Segment!Critical
<1> QED
  BY <1>2, <1>3, <1>5, <1>6, <1>7, QuietKeeps

\* With the lock it reads again how many segments have been used.
LEMMA RereadKeeps ==
  ASSUME StoresAssumption, SegInv, ~broken, NEW t \in Allocators, Segment!Reread(t)
  PROVE  SegInv'
<1>1. PICK p, i : /\ p = IF alloced >= segmaxnum THEN "idle" ELSE "bump"
                  /\ i = alloced
  OBVIOUS
<1>2. /\ at[t] = "count"
      /\ segalloc_lock' = IF alloced >= segmaxnum THEN FALSE ELSE segalloc_lock
      /\ at' = [at EXCEPT ![t] = p] /\ UNCHANGED hand /\ index' = [index EXCEPT ![t] = i]
      /\ UNCHANGED SegData /\ broken' = broken
  BY <1>1 DEF Segment!Reread, Segment!Goto, Segment!data, SegData
<1>3. p \in SegSteps /\ (p \in Segment!Critical <=> p = "bump")
  BY <1>1 DEF Segment!Critical, SegSteps
<1>4. SegTypes
  BY DEF SegInv
<1>5. Moved(t, p, hand[t], i) /\ i \in 0 .. segmaxnum /\ hand[t] \in Segs \cup {NULL}
  BY <1>1, <1>2, <1>4 DEF SegTypes, Moved
<1>6. p = "bump" => i < segmaxnum
  BY <1>1, <1>4, SegSizes DEF SegTypes
<1>7. /\ Knows(p, hand[t], i) /\ Holds(p, hand[t], i, first_free, next_free, alloced)
      /\ HandsOf(p, hand[t], i) = HandsOf(at[t], hand[t], index[t])
  BY <1>1, <1>2, <1>6 DEF Knows, Holds, HandsOf
<1>8. LockMoved(t, p)
  BY <1>1, <1>2, <1>3 DEF LockMoved, Segment!Critical
<1> QED
  BY <1>2, <1>3, <1>5, <1>7, <1>8, QuietKeeps

\* The stray unlock: from a thread that holds the lock, or of a lock nobody holds.
LEMMA CheckKeeps ==
  ASSUME StoresAssumption, SegInv, ~broken, NEW t \in Allocators, Segment!Check(t)
  PROVE  SegInv'
<1>1. PICK p : p = IF alloced >= segmaxnum THEN "idle" ELSE "lock2"
  OBVIOUS
<1>2. /\ at[t] = "check"
      /\ at' = [at EXCEPT ![t] = p] /\ UNCHANGED <<hand, index>>
      /\ UNCHANGED SegData
      /\ \/ /\ segalloc_lock' = FALSE
            /\ broken' = (broken \/ \E u \in Allocators : at[u] \in Segment!Critical)
         \/ UNCHANGED <<segalloc_lock, broken>>
  BY <1>1 DEF Segment!Check, Segment!Goto, Segment!data, SegData
<1>3. p \in {"idle", "lock2"} /\ p \in SegSteps /\ p \notin Segment!Critical
  BY <1>1 DEF Segment!Critical, SegSteps
<1>4. SegTypes /\ OneHolder
  BY DEF SegInv
<1>5. Moved(t, p, hand[t], index[t]) /\ index[t] \in 0 .. segmaxnum /\ hand[t] \in Segs \cup {NULL}
  BY <1>2, <1>4, MovedHere
<1>6. CASE broken'
  <2>1. segalloc_lock' \in BOOLEAN /\ broken' \in BOOLEAN
    BY <1>2, <1>4 DEF SegTypes
  <2>2. SegTypes'
    BY <1>2, <1>3, <1>4, <1>5, <2>1, TypesMoved DEF SegTypes, SegData
  <2> QED
    BY <1>6, <2>2 DEF SegInv
<1>7. CASE ~broken'
  <2>1. segalloc_lock' = segalloc_lock /\ broken' = broken
    BY <1>2, <1>4, <1>7 DEF OneHolder, SegTypes
  <2>2. /\ Knows(p, hand[t], index[t])
        /\ Holds(p, hand[t], index[t], first_free, next_free, alloced)
        /\ HandsOf(p, hand[t], index[t]) = HandsOf(at[t], hand[t], index[t])
    BY <1>2, <1>3 DEF Knows, Holds, HandsOf
  <2>3. LockMoved(t, p)
    BY <1>2, <1>3, <2>1 DEF LockMoved, Segment!Critical
  <2> QED
    BY <1>2, <1>3, <1>5, <2>1, <2>2, <2>3, QuietKeeps
<1> QED
  BY <1>6, <1>7
\* The thread and the data after a step: what is left to show.
LEMMA MovedKeeps ==
  ASSUME StoresAssumption, SegInv, ~broken, broken' = broken, NEW t \in Allocators,
         NEW p \in SegSteps, NEW h \in Segs \cup {NULL}, NEW i \in 0 .. segmaxnum,
         Moved(t, p, h, i), LockMoved(t, p),
         Knows(p, h, i), Holds(p, h, i, first_free', next_free', alloced'),
         \/ at[t] \in Segment!Critical
         \/ first_free' = first_free /\ next_free' = next_free /\ alloced' = alloced,
         lost' \in SUBSET Segs, first_free' \in Segs \cup {NULL}, next_free' \in Links,
         alloced' \in 0 .. segmaxnum, owned' \in Sets,
         Acyclic', SegShared'
  PROVE  SegInv'
<1>1. SegTypes /\ OneHolder /\ SegLocal
  BY DEF SegInv
<1>2. segalloc_lock' \in BOOLEAN
  BY <1>1 DEF LockMoved, SegTypes
<1>3. SegTypes'
  BY <1>1, <1>2, TypesMoved DEF SegTypes
<1>4. OneHolder'
  BY <1>1, HolderMoved DEF LockMoved
<1>5. SegLocal'
  BY <1>1, LocalMoved
<1> QED
  BY <1>3, <1>4, <1>5 DEF SegInv

\* It makes the next segment the head ...
LEMMA UnlinkKeeps ==
  ASSUME StoresAssumption, SegInv, ~broken, NEW t \in Allocators, Segment!Unlink(t)
  PROVE  SegInv'
<1>1. PICK a, y : a = hand[t] /\ y = next_free[a]
  OBVIOUS
<1>2. /\ at[t] = "next" /\ segalloc_lock' = segalloc_lock
      /\ at' = [at EXCEPT ![t] = "release"] /\ UNCHANGED <<hand, index>>
      /\ first_free' = y /\ next_free' = next_free /\ alloced' = alloced
      /\ owned' = owned /\ lost' = lost /\ broken' = broken
  BY <1>1 DEF Segment!Unlink, Segment!Goto
<1>3. SegTypes /\ Acyclic /\ SegShared
  BY DEF SegInv
<1>4. a = first_free /\ a # NULL
  BY <1>1, <1>2 DEF SegInv, SegLocal, Holds
<1>5. a \in Segs /\ next_free \in Links /\ owned \in Sets /\ lost \in SUBSET Segs
      /\ alloced \in 0 .. segmaxnum
  BY <1>3, <1>4 DEF SegTypes
<1>6. PICK F : F = Free
  OBVIOUS
<1>7. /\ y \in Segs \cup {NULL}
      /\ F = ChainOf(next_free, y) \cup {a}
  BY <1>1, <1>4, <1>5, <1>6, ChainFirst DEF Free
<1>8. Free' = F \ {a}
  <2>1. a \notin ChainOf(next_free, y)
    BY <1>1, <1>3, <1>6, <1>7 DEF Acyclic
  <2>2. Free' = ChainOf(next_free, y)
    BY <1>2 DEF Free
  <2> QED
    BY <1>7, <2>1, <2>2
<1>9. Acyclic'
  BY <1>2, <1>3, <1>6, <1>8 DEF Acyclic
<1>10. Moved(t, "release", hand[t], index[t]) /\ index[t] \in 0 .. segmaxnum /\ hand[t] \in Segs \cup {NULL}
  BY <1>2, <1>3, MovedHere
<1>11. SegShared'
  <2>1. Hands' = [Hands EXCEPT ![t] = {a}]
    <3>1. HandsOf("release", hand[t], index[t]) = {a}
      BY <1>1, <1>4 DEF HandsOf
    <3> QED
      BY <1>3, <1>10, <3>1, HandsMoved
  <2>2. Hands[t] = {}
    BY <1>2 DEF Hands, HandsOf
  <2>3. a \in F
    BY <1>7
  <2> QED
    BY <1>2, <1>3, <1>5, <1>6, <1>8, <2>1, <2>2, <2>3, HandsIs, FromList DEF SegShared
<1>12. /\ Knows("release", hand[t], index[t])
       /\ Holds("release", hand[t], index[t], first_free', next_free', alloced')
       /\ LockMoved(t, "release") /\ "release" \in SegSteps /\ at[t] \in Segment!Critical
  BY <1>2 DEF Knows, Holds, LockMoved, Segment!Critical, SegSteps
<1> QED
  BY <1>2, <1>5, <1>7, <1>9, <1>10, <1>11, <1>12, MovedKeeps

\* ... and unlocks, with the segment or without one.
LEMMA ReleaseKeeps ==
  ASSUME StoresAssumption, SegInv, ~broken, NEW t \in Allocators, Segment!Release(t)
  PROVE  SegInv'
<1>1. PICK p, a : /\ p = IF hand[t] # NULL THEN "idle" ELSE "check"
                  /\ a = hand[t]
  OBVIOUS
<1>2. /\ at[t] = "release" /\ segalloc_lock' = FALSE
      /\ at' = [at EXCEPT ![t] = p] /\ UNCHANGED <<hand, index>>
      /\ first_free' = first_free /\ next_free' = next_free /\ alloced' = alloced
      /\ owned' = (IF a # NULL THEN [owned EXCEPT ![t] = @ \cup {a}] ELSE owned)
      /\ lost' = lost /\ broken' = broken
  BY <1>1 DEF Segment!Release, Segment!Goto
<1>3. SegTypes /\ Acyclic /\ SegShared
  BY DEF SegInv
<1>4. a \in Segs \cup {NULL} /\ next_free \in Links /\ owned \in Sets /\ lost \in SUBSET Segs
      /\ first_free \in Segs \cup {NULL} /\ alloced \in 0 .. segmaxnum
  BY <1>1, <1>3 DEF SegTypes
<1>5. p \in {"idle", "check"} /\ p \in SegSteps /\ p \notin Segment!Critical
  BY <1>1 DEF Segment!Critical, SegSteps
<1>6. Moved(t, p, hand[t], index[t]) /\ index[t] \in 0 .. segmaxnum /\ hand[t] \in Segs \cup {NULL}
  BY <1>2, <1>3, MovedHere
<1>7. Hands' = [Hands EXCEPT ![t] = {}] /\ Hands[t] = {a} \ {NULL}
  <2>1. HandsOf(p, hand[t], index[t]) = {}
    BY <1>5 DEF HandsOf
  <2>2. Hands[t] = {a} \ {NULL}
    BY <1>1, <1>2 DEF Hands, HandsOf
  <2> QED
    BY <1>3, <1>6, <2>1, <2>2, HandsMoved
<1>8. Free' = Free /\ Acyclic'
  BY <1>2, <1>3 DEF Free, Acyclic
<1>9. owned' \in Sets
  BY <1>2, <1>4 DEF Sets
<1>10. SegShared'
  <2>1. CASE a = NULL
    <3>1. Hands' = Hands /\ owned' = owned
      BY <1>2, <1>7, <2>1 DEF Hands
    <3> QED
      BY <1>2, <1>3, <1>8, <3>1 DEF SegShared
  <2>2. CASE a # NULL
    <3>1. Hands[t] = {a} /\ owned' = [owned EXCEPT ![t] = @ \cup {a}]
      BY <1>2, <1>7, <2>2
    <3>2. Shared(owned', Hands', Free, lost, alloced)
      BY <1>3, <1>4, <1>7, <3>1, HandsIs, ToOwner DEF SegShared
    <3> QED
      BY <1>2, <1>8, <3>2 DEF SegShared
  <2> QED
    BY <2>1, <2>2
<1>11. /\ Knows(p, hand[t], index[t])
       /\ Holds(p, hand[t], index[t], first_free', next_free', alloced')
       /\ LockMoved(t, p) /\ at[t] \in Segment!Critical
  BY <1>2, <1>5 DEF Knows, Holds, LockMoved, Segment!Critical
<1> QED
  BY <1>2, <1>4, <1>5, <1>6, <1>8, <1>9, <1>10, <1>11, MovedKeeps

\* One segment more counts as used ...
LEMMA BumpKeeps ==
  ASSUME StoresAssumption, SegInv, ~broken, NEW t \in Allocators, Segment!Bump(t)
  PROVE  SegInv'
<1>1. PICK n : n = alloced
  OBVIOUS
<1>2. SegTypes /\ Acyclic /\ SegShared
  BY DEF SegInv
<1>3. /\ at[t] = "bump" /\ segalloc_lock' = FALSE
      /\ at' = [at EXCEPT ![t] = "fresh"] /\ UNCHANGED <<hand, index>>
      /\ first_free' = first_free /\ next_free' = next_free /\ alloced' = index[t] + 1
      /\ owned' = owned /\ lost' = lost /\ broken' = broken
  BY DEF Segment!Bump, Segment!Goto
<1>4. index[t] = n /\ n < segmaxnum
  BY <1>1, <1>3 DEF SegInv, SegLocal, Holds
<1>5. /\ next_free \in Links /\ owned \in Sets /\ lost \in SUBSET Segs
      /\ first_free \in Segs \cup {NULL} /\ n \in Nat /\ n + 1 \in 0 .. segmaxnum /\ n \in Segs
  BY <1>1, <1>2, <1>4, SegSizes DEF SegTypes
<1>6. Moved(t, "fresh", hand[t], index[t]) /\ index[t] \in 0 .. segmaxnum /\ hand[t] \in Segs \cup {NULL}
  BY <1>2, <1>3, MovedHere
<1>7. Hands' = [Hands EXCEPT ![t] = {n}] /\ Hands[t] = {}
  <2>1. HandsOf("fresh", hand[t], index[t]) = {n}
    BY <1>4 DEF HandsOf
  <2>2. Hands[t] = {}
    BY <1>3 DEF Hands, HandsOf
  <2> QED
    BY <1>2, <1>6, <2>1, <2>2, HandsMoved
<1>8. Free' = Free /\ Acyclic'
  BY <1>2, <1>3 DEF Free, Acyclic
<1>9. SegShared'
  <2>1. Shared(owned, Hands', Free, lost, n + 1)
    BY <1>1, <1>2, <1>5, <1>7, HandsIs, FromUnused DEF SegShared
  <2> QED
    BY <1>3, <1>4, <1>8, <2>1 DEF SegShared
<1>10. /\ Knows("fresh", hand[t], index[t])
       /\ Holds("fresh", hand[t], index[t], first_free', next_free', alloced')
       /\ LockMoved(t, "fresh") /\ at[t] \in Segment!Critical /\ "fresh" \in SegSteps
  BY <1>3, <1>4, <1>5 DEF Knows, Holds, LockMoved, Segment!Critical, SegSteps
<1> QED
  BY <1>3, <1>4, <1>5, <1>6, <1>8, <1>9, <1>10, MovedKeeps

\* ... and belongs to the thread, or to nobody when mprotect fails.
LEMMA FreshKeeps ==
  ASSUME StoresAssumption, SegInv, ~broken, NEW t \in Allocators, Segment!Fresh(t)
  PROVE  SegInv'
<1>1. PICK a : a = index[t]
  OBVIOUS
<1>2. SegTypes /\ Acyclic /\ SegShared
  BY DEF SegInv
<1>3. /\ at[t] = "fresh" /\ segalloc_lock' = segalloc_lock
      /\ at' = [at EXCEPT ![t] = "idle"] /\ UNCHANGED <<hand, index>>
      /\ first_free' = first_free /\ next_free' = next_free /\ alloced' = alloced
      /\ broken' = broken
      /\ \/ owned' = [owned EXCEPT ![t] = @ \cup {a}] /\ lost' = lost
         \/ lost' = lost \cup {a} /\ owned' = owned
  BY <1>1 DEF Segment!Fresh, Segment!Goto
<1>4. a \in Segs
  BY <1>1, <1>3 DEF SegInv, SegLocal, Knows
<1>5. /\ next_free \in Links /\ owned \in Sets /\ lost \in SUBSET Segs
      /\ first_free \in Segs \cup {NULL} /\ alloced \in 0 .. segmaxnum
  BY <1>2 DEF SegTypes
<1>6. Moved(t, "idle", hand[t], index[t]) /\ index[t] \in 0 .. segmaxnum /\ hand[t] \in Segs \cup {NULL}
  BY <1>2, <1>3, MovedHere
<1>7. Hands' = [Hands EXCEPT ![t] = {}] /\ Hands[t] = {a}
  <2>1. HandsOf("idle", hand[t], index[t]) = {}
    BY DEF HandsOf
  <2>2. Hands[t] = {a}
    BY <1>1, <1>3 DEF Hands, HandsOf
  <2> QED
    BY <1>2, <1>6, <2>1, <2>2, HandsMoved
<1>8. Free' = Free /\ Acyclic'
  BY <1>2, <1>3 DEF Free, Acyclic
<1>9. owned' \in Sets /\ lost' \in SUBSET Segs
  BY <1>3, <1>4, <1>5 DEF Sets
<1>10. SegShared'
  <2>1. CASE owned' = [owned EXCEPT ![t] = @ \cup {a}] /\ lost' = lost
    <3>1. Shared(owned', Hands', Free, lost, alloced)
      BY <1>2, <1>5, <1>7, <2>1, HandsIs, ToOwner DEF SegShared
    <3> QED
      BY <1>3, <1>8, <2>1, <3>1 DEF SegShared
  <2>2. CASE lost' = lost \cup {a} /\ owned' = owned
    <3>1. Shared(owned, Hands', Free, lost \cup {a}, alloced)
      BY <1>2, <1>5, <1>7, HandsIs, ToLost DEF SegShared
    <3> QED
      BY <1>3, <1>8, <2>2, <3>1 DEF SegShared
  <2> QED
    BY <1>3, <2>1, <2>2
<1>11. /\ Knows("idle", hand[t], index[t])
       /\ Holds("idle", hand[t], index[t], first_free', next_free', alloced')
       /\ LockMoved(t, "idle") /\ "idle" \in SegSteps
  BY <1>3 DEF Knows, Holds, LockMoved, Segment!Critical, SegSteps
<1> QED
  BY <1>3, <1>5, <1>6, <1>8, <1>9, <1>10, <1>11, MovedKeeps

\* A thread gives a segment back: ...
LEMMA FreeKeeps ==
  ASSUME StoresAssumption, SegInv, ~broken, NEW t \in Allocators, Segment!Free(t)
  PROVE  SegInv'
<1>1. PICK a \in owned[t] : hand' = [hand EXCEPT ![t] = a] /\ owned' = [owned EXCEPT ![t] = @ \ {a}]
  BY DEF Segment!Free
<1>2. SegTypes /\ Acyclic /\ SegShared
  BY DEF SegInv
<1>3. /\ at[t] = "idle" /\ segalloc_lock' = segalloc_lock
      /\ at' = [at EXCEPT ![t] = "lock3"] /\ UNCHANGED index
      /\ first_free' = first_free /\ next_free' = next_free /\ alloced' = alloced
      /\ broken' = broken /\ lost' = lost
  BY DEF Segment!Free, Segment!Goto
<1>4. /\ next_free \in Links /\ owned \in Sets /\ lost \in SUBSET Segs
      /\ first_free \in Segs \cup {NULL} /\ alloced \in 0 .. segmaxnum
  BY <1>2 DEF SegTypes
<1>5. a \in Segs /\ a # NULL /\ owned' \in Sets
  BY <1>1, <1>4, SegSizes DEF Sets
<1>6. Moved(t, "lock3", a, index[t]) /\ index[t] \in 0 .. segmaxnum
  BY <1>1, <1>2, <1>3 DEF Moved, SegTypes
<1>7. Hands' = [Hands EXCEPT ![t] = {a}] /\ Hands[t] = {}
  <2>1. HandsOf("lock3", a, index[t]) = {a}
    BY <1>5 DEF HandsOf
  <2>2. Hands[t] = {}
    BY <1>3 DEF Hands, HandsOf
  <2> QED
    BY <1>2, <1>6, <2>1, <2>2, HandsMoved
<1>8. Free' = Free /\ Acyclic'
  BY <1>2, <1>3 DEF Free, Acyclic
<1>9. SegShared'
  <2>1. Shared(owned', Hands', Free, lost, alloced)
    BY <1>1, <1>2, <1>4, <1>7, HandsIs, FromOwner DEF SegShared
  <2> QED
    BY <1>3, <1>8, <2>1 DEF SegShared
<1>10. /\ Knows("lock3", a, index[t])
       /\ Holds("lock3", a, index[t], first_free', next_free', alloced')
       /\ LockMoved(t, "lock3") /\ "lock3" \in SegSteps
  BY <1>3, <1>5 DEF Knows, Holds, LockMoved, Segment!Critical, SegSteps
<1> QED
  BY <1>3, <1>4, <1>5, <1>6, <1>8, <1>9, <1>10, MovedKeeps

\* ... it links it before the first of the list ...
LEMMA LinkKeeps ==
  ASSUME StoresAssumption, SegInv, ~broken, NEW t \in Allocators, Segment!Link(t)
  PROVE  SegInv'
<1>1. PICK a, x, N, M : /\ a = hand[t] /\ x = first_free /\ N = next_free
                        /\ M = [N EXCEPT ![a] = x]
  OBVIOUS
<1>2. SegTypes /\ Acyclic /\ SegShared
  BY DEF SegInv
<1>3. /\ at[t] = "link" /\ segalloc_lock' = segalloc_lock
      /\ at' = [at EXCEPT ![t] = "push"] /\ UNCHANGED <<hand, index>>
      /\ first_free' = first_free /\ next_free' = M /\ alloced' = alloced
      /\ broken' = broken /\ lost' = lost /\ owned' = owned
  BY <1>1 DEF Segment!Link, Segment!Goto
<1>4. /\ N \in Links /\ owned \in Sets /\ lost \in SUBSET Segs
      /\ x \in Segs \cup {NULL} /\ alloced \in 0 .. segmaxnum
  BY <1>1, <1>2 DEF SegTypes
<1>5. a \in Segs /\ a # NULL
  BY <1>1, <1>2, <1>3 DEF SegInv, SegLocal, Knows, SegTypes
<1>6. M \in Links /\ M[a] = x /\ \A s \in Segs \ {a} : M[s] = N[s]
  BY <1>1, <1>4, <1>5 DEF Links
<1>7. Moved(t, "push", hand[t], index[t]) /\ index[t] \in 0 .. segmaxnum /\ hand[t] \in Segs \cup {NULL}
  BY <1>2, <1>3, MovedHere
<1>8. Hands' = Hands /\ Hands[t] = {a}
  <2>1. HandsOf("push", hand[t], index[t]) = {a}
    BY <1>1, <1>5 DEF HandsOf
  <2>2. Hands[t] = {a}
    BY <1>1, <1>3, <1>5 DEF Hands, HandsOf
  <2> QED
    BY <1>2, <1>7, <2>1, <2>2, HandsMoved
<1>9. PICK F : F = Free
  OBVIOUS
<1>10. F = ChainOf(N, x) /\ a \notin F
  <2>1. a \notin F
    BY <1>2, <1>8, <1>9 DEF SegShared, Shared, Apart
  <2> QED
    BY <1>1, <1>9, <2>1 DEF Free
<1>11. Free' = F
  <2>1. ChainOf(M, x) = F
    BY <1>4, <1>6, <1>10, ChainKept
  <2> QED
    BY <1>1, <1>3, <2>1 DEF Free
<1>12. Acyclic'
  <2>1. ASSUME NEW s \in F
        PROVE  s \notin ChainOf(M, M[s])
    <3>1. F \in SUBSET Segs
      BY <1>4, <1>10, ChainFacts
    <3>2. s \in Segs /\ M[s] = N[s] /\ N[s] \in Segs \cup {NULL}
      BY <1>4, <1>6, <1>10, <3>1 DEF Links
    <3>3. a \notin ChainOf(N, N[s])
      BY <1>4, <1>10, ChainRest
    <3>4. s \notin ChainOf(N, N[s])
      BY <1>1, <1>2, <1>9 DEF Acyclic
    <3>5. ChainOf(M, N[s]) = ChainOf(N, N[s])
      BY <1>4, <1>6, <3>2, <3>3, ChainKept
    <3> QED
      BY <3>2, <3>4, <3>5
  <2> QED
    BY <1>3, <1>11, <2>1 DEF Acyclic
<1>13. SegShared'
  BY <1>2, <1>3, <1>8, <1>9, <1>11 DEF SegShared
<1>14. /\ Knows("push", hand[t], index[t])
       /\ Holds("push", hand[t], index[t], first_free', next_free', alloced')
       /\ LockMoved(t, "push") /\ "push" \in SegSteps /\ at[t] \in Segment!Critical
  BY <1>1, <1>3, <1>5, <1>6 DEF Knows, Holds, LockMoved, Segment!Critical, SegSteps
<1> QED
  BY <1>1, <1>3, <1>4, <1>6, <1>7, <1>12, <1>13, <1>14, MovedKeeps

\* ... and makes it the first.
LEMMA PushKeeps ==
  ASSUME StoresAssumption, SegInv, ~broken, NEW t \in Allocators, Segment!Push(t)
  PROVE  SegInv'
<1>1. PICK a, x : a = hand[t] /\ x = first_free
  OBVIOUS
<1>2. SegTypes /\ Acyclic /\ SegShared
  BY DEF SegInv
<1>3. /\ at[t] = "push" /\ segalloc_lock' = FALSE
      /\ at' = [at EXCEPT ![t] = "idle"] /\ UNCHANGED <<hand, index>>
      /\ first_free' = a /\ next_free' = next_free /\ alloced' = alloced
      /\ broken' = broken /\ lost' = lost /\ owned' = owned
  BY <1>1 DEF Segment!Push, Segment!Goto
<1>4. /\ next_free \in Links /\ owned \in Sets /\ lost \in SUBSET Segs
      /\ x \in Segs \cup {NULL} /\ alloced \in 0 .. segmaxnum
  BY <1>1, <1>2 DEF SegTypes
<1>5. a \in Segs /\ a # NULL /\ next_free[a] = x
  BY <1>1, <1>2, <1>3 DEF SegInv, SegLocal, Knows, Holds, SegTypes
<1>6. Moved(t, "idle", hand[t], index[t]) /\ index[t] \in 0 .. segmaxnum /\ hand[t] \in Segs \cup {NULL}
  BY <1>2, <1>3, MovedHere
<1>7. Hands' = [Hands EXCEPT ![t] = {}] /\ Hands[t] = {a}
  <2>1. HandsOf("idle", hand[t], index[t]) = {}
    BY DEF HandsOf
  <2>2. Hands[t] = {a}
    BY <1>1, <1>3, <1>5 DEF Hands, HandsOf
  <2> QED
    BY <1>2, <1>6, <2>1, <2>2, HandsMoved
<1>8. PICK F : F = Free
  OBVIOUS
<1>9. F = ChainOf(next_free, x) /\ a \notin F
  <2>1. a \notin F
    BY <1>2, <1>7, <1>8 DEF SegShared, Shared, Apart
  <2> QED
    BY <1>1, <1>8, <2>1 DEF Free
<1>10. Free' = F \cup {a}
  <2>1. ChainOf(next_free, a) = F \cup {a}
    BY <1>4, <1>5, <1>9, ChainFirst
  <2> QED
    BY <1>3, <2>1 DEF Free
<1>11. Acyclic'
  <2>1. \A s \in F \cup {a} : s \notin ChainOf(next_free, next_free[s])
    BY <1>2, <1>5, <1>8, <1>9 DEF Acyclic
  <2> QED
    BY <1>3, <1>10, <2>1 DEF Acyclic
<1>12. SegShared'
  <2>1. Shared(owned, Hands', F \cup {a}, lost, alloced)
    BY <1>2, <1>4, <1>7, <1>8, HandsIs, ToList DEF SegShared
  <2> QED
    BY <1>3, <1>10, <2>1 DEF SegShared
<1>13. /\ Knows("idle", hand[t], index[t])
       /\ Holds("idle", hand[t], index[t], first_free', next_free', alloced')
       /\ LockMoved(t, "idle") /\ "idle" \in SegSteps /\ at[t] \in Segment!Critical
  BY <1>3 DEF Knows, Holds, LockMoved, Segment!Critical, SegSteps
<1> QED
  BY <1>3, <1>4, <1>5, <1>6, <1>11, <1>12, <1>13, MovedKeeps

\* The invariant holds at the start ...
LEMMA SegInit ==
  ASSUME StoresAssumption, Segment!Init
  PROVE  SegInv
<1>1. /\ segalloc_lock = FALSE /\ broken = FALSE /\ lost = {} /\ first_free = NULL
      /\ next_free = [s \in Segs |-> NULL] /\ alloced = 0
      /\ owned = [t \in Allocators |-> {}] /\ at = [t \in Allocators |-> "idle"]
      /\ hand = [t \in Allocators |-> NULL] /\ index = [t \in Allocators |-> 0]
  BY DEF Segment!Init, Segs
<1>2. SegTypes
  <2>1. NULL \in Segs \cup {NULL} /\ {} \in SUBSET Segs /\ 0 \in 0 .. segmaxnum /\ "idle" \in SegSteps
    BY SegSizes DEF SegSteps
  <2>2. next_free \in Links /\ owned \in Sets
    BY <1>1, <2>1 DEF Links, Sets
  <2>3. /\ at \in [Allocators -> SegSteps] /\ hand \in [Allocators -> Segs \cup {NULL}]
        /\ index \in [Allocators -> 0 .. segmaxnum]
    BY <1>1, <2>1
  <2> QED
    BY <1>1, <2>1, <2>2, <2>3 DEF SegTypes
<1>3. OneHolder
  BY <1>1 DEF OneHolder, Segment!Critical
<1>4. SegLocal
  BY <1>1 DEF SegLocal, Knows, Holds
<1>5. Free = {}
  BY <1>1, <1>2, ChainNull DEF Free, SegTypes
<1>6. SegShared
  <2>1. Hands = [t \in Allocators |-> {}]
    BY <1>1 DEF Hands, HandsOf
  <2>2. 0 .. alloced - 1 = {}
    BY <1>1
  <2>3. Apart(owned, Hands, Free)
    BY <1>1, <1>5, <2>1 DEF Apart
  <2>4. Known(owned, Hands, Free, lost, alloced)
    BY <1>1, <1>5, <2>1, <2>2 DEF Known
  <2> QED
    BY <2>3, <2>4 DEF SegShared, Shared
<1> QED
  BY <1>2, <1>3, <1>4, <1>5, <1>6 DEF SegInv, Acyclic

\* ... and survives every step; ...
LEMMA SegStep ==
  ASSUME StoresAssumption, SegInv, [Segment!Next]_(Segment!vars)
  PROVE  SegInv'
<1>1. CASE Segment!Next
  <2>1. ~broken
    BY <1>1 DEF Segment!Next
  <2>2. PICK t \in Allocators : Segment!Step(t)
    BY <1>1 DEF Segment!Next
  <2>3. CASE Segment!Enter(t)
    BY <2>1, <2>3, EnterKeeps
  <2>4. CASE Segment!TakeHead(t)
    BY <2>1, <2>4, TakeHeadKeeps
  <2>5. CASE Segment!Unlink(t)
    BY <2>1, <2>5, UnlinkKeeps
  <2>6. CASE Segment!Release(t)
    BY <2>1, <2>6, ReleaseKeeps
  <2>7. CASE Segment!Check(t)
    BY <2>1, <2>7, CheckKeeps
  <2>8. CASE Segment!Reread(t)
    BY <2>1, <2>8, RereadKeeps
  <2>9. CASE Segment!Bump(t)
    BY <2>1, <2>9, BumpKeeps
  <2>10. CASE Segment!Fresh(t)
    BY <2>1, <2>10, FreshKeeps
  <2>11. CASE Segment!Free(t)
    BY <2>1, <2>11, FreeKeeps
  <2>12. CASE Segment!Link(t)
    BY <2>1, <2>12, LinkKeeps
  <2>13. CASE Segment!Push(t)
    BY <2>1, <2>13, PushKeeps
  <2>14. CASE \/ Segment!SpinLock(t, "lock1", "head") \/ Segment!SpinLock(t, "lock2", "count")
              \/ Segment!SpinLock(t, "lock3", "link")
    BY <2>1, <2>14, SpinKeeps
  <2> QED
    BY <2>2, <2>3, <2>4, <2>5, <2>6, <2>7, <2>8, <2>9, <2>10, <2>11, <2>12, <2>13, <2>14, Zenon
       DEF Segment!Step
<1>2. CASE UNCHANGED Segment!vars
  <2>1. /\ UNCHANGED <<segalloc_lock, first_free, next_free, alloced, owned, at, hand, index, lost, broken>>
    BY <1>2 DEF Segment!vars
  <2> QED
    BY <2>1 DEF SegInv, SegTypes, OneHolder, SegLocal, Acyclic, SegShared, Free, Hands
<1> QED
  BY <1>1, <1>2

\* ... it says what the runs check.
LEMMA SegRead ==
  ASSUME StoresAssumption, SegInv
  PROVE  Segment!SegmentsOwned
<1> SUFFICES ASSUME ~broken PROVE Segment!SegmentsOwned
  BY DEF Segment!SegmentsOwned
<1>1. Shared(owned, Hands, Free, lost, alloced)
  BY DEF SegInv, SegShared
<1>2. Segment!FreeList = Free
  BY ChainIs DEF Segment!FreeList, Free
<1>3. \A t \in Allocators : Segment!InHand(t) = Hands[t]
  BY HandsIs
<1>4. PICK O, H, F : O = owned /\ H = Hands /\ F = Free
  OBVIOUS
<1>5. /\ \A t, u \in Allocators : t # u => (O[t] \cup H[t]) \cap (O[u] \cup H[u]) = {}
      /\ \A t \in Allocators : O[t] \cap (F \cup H[t]) = {} /\ H[t] \cap F = {}
  BY <1>1, <1>4 DEF Shared, Apart
<1>6. F \cup lost \cup UNION {O[t] \cup H[t] : t \in Allocators} = 0 .. alloced - 1
  <2>1. \A s : s \in 0 .. alloced - 1 <=> \/ s \in F \/ s \in lost
                                          \/ \E t \in Allocators : s \in O[t] \cup H[t]
    BY <1>1, <1>4 DEF Shared, Known
  <2>2. \A s : s \in UNION {O[t] \cup H[t] : t \in Allocators}
                 <=> \E t \in Allocators : s \in O[t] \cup H[t]
    BY Zenon
  <2> QED
    BY <2>1, <2>2, Zenon
<1>7. UNION {owned[t] \cup Segment!InHand(t) : t \in Allocators} = UNION {O[t] \cup H[t] : t \in Allocators}
  BY <1>3, <1>4
<1> QED
  BY <1>2, <1>3, <1>4, <1>5, <1>6, <1>7 DEF Segment!SegmentsOwned

(***************************************************************************)
(* Smoothed scores: how often an address is in a ring.                     *)
(***************************************************************************)

\* Where v is in s.
Places(s, v) == {i \in DOMAIN s : s[i] = v}

\* Count counts the positions.
LEMMA CountIs == \A s, v : Smooth!Count(s, v) = Cardinality(Places(s, v))
<1>1. \A S : Smooth!Cardinality(S) = Cardinality(S)
  BY Zenon DEF Smooth!Cardinality, Cardinality, Smooth!IsFiniteSet, IsFiniteSet
<1> QED
  BY <1>1 DEF Smooth!Count, Places

\* The positions are finitely many.
LEMMA CountType ==
  ASSUME NEW S, NEW s \in Seq(S), NEW v
  PROVE  /\ IsFiniteSet(Places(s, v)) /\ Smooth!Count(s, v) \in Nat
<1>1. DOMAIN s = 1 .. Len(s) /\ Len(s) \in Nat
  OBVIOUS
<1>2. IsFiniteSet(1 .. Len(s))
  BY <1>1, FS_Interval
<1>3. IsFiniteSet(Places(s, v))
  <2>1. Places(s, v) \in SUBSET (1 .. Len(s))
    BY <1>1 DEF Places
  <2> QED
    BY <1>2, <2>1, FS_Subset
<1> QED
  BY <1>3, CountIs, FS_CardinalityType

\* One more.
LEMMA CountAppend ==
  ASSUME NEW S, NEW s \in Seq(S), NEW x \in S, NEW v
  PROVE  Smooth!Count(Append(s, x), v) = Smooth!Count(s, v) + (IF v = x THEN 1 ELSE 0)
<1>1. PICK n, t, I, J : /\ n = Len(s) /\ t = Append(s, x) /\ I = Places(s, v)
                        /\ J = Places(t, v)
  OBVIOUS
<1>2. /\ n \in Nat /\ DOMAIN s = 1 .. n /\ DOMAIN t = 1 .. n + 1
      /\ t[n + 1] = x /\ \A i \in 1 .. n : t[i] = s[i]
  BY <1>1
<1>3. Smooth!Count(s, v) = Cardinality(I) /\ Smooth!Count(t, v) = Cardinality(J)
  BY <1>1, CountIs
<1>4. /\ IsFiniteSet(I) /\ Cardinality(I) \in Nat
      /\ I = {i \in 1 .. n : s[i] = v} /\ J = {i \in DOMAIN t : t[i] = v}
  BY <1>1, <1>2, CountType, CountIs DEF Places
<1>5. n + 1 \notin I
  BY <1>2, <1>4
<1>6. J = IF v = x THEN I \cup {n + 1} ELSE I
  <2>1. \A i \in 1 .. n + 1 : i \in 1 .. n \/ i = n + 1
    BY <1>2
  <2>2. \A i \in 1 .. n : i \in 1 .. n + 1
    BY <1>2
  <2>3. n + 1 \in 1 .. n + 1
    BY <1>2
  <2> QED
    BY <1>2, <1>4, <2>1, <2>2, <2>3
<1>7. Cardinality(I \cup {n + 1}) = Cardinality(I) + 1
  BY <1>4, <1>5, FS_AddElement
<1>8. Cardinality(J) = Cardinality(I) + (IF v = x THEN 1 ELSE 0)
  <2>1. CASE v = x
    BY <1>6, <1>7, <2>1
  <2>2. CASE v # x
    <3>1. J = I
      BY <1>6, <2>2
    <3>2. Cardinality(I) \in Nat
      BY <1>4
    <3> QED
      BY <2>2, <3>1, <3>2
  <2> QED
    BY <2>1, <2>2
<1> QED
  BY <1>1, <1>3, <1>8

\* One less.
LEMMA CountTail ==
  ASSUME NEW S, NEW s \in Seq(S), s # <<>>, NEW v
  PROVE  Smooth!Count(Tail(s), v) = Smooth!Count(s, v) - (IF v = Head(s) THEN 1 ELSE 0)
<1>1. PICK n, t, I, J : /\ n = Len(s) /\ t = Tail(s) /\ I = Places(s, v)
                        /\ J = Places(t, v)
  OBVIOUS
<1>2. /\ n \in Nat /\ n > 0 /\ DOMAIN s = 1 .. n /\ DOMAIN t = 1 .. n - 1
      /\ Head(s) = s[1] /\ \A i \in 1 .. n - 1 : t[i] = s[i + 1]
  BY <1>1
<1>3. Smooth!Count(s, v) = Cardinality(I) /\ Smooth!Count(t, v) = Cardinality(J)
  BY <1>1, CountIs
<1>4. /\ IsFiniteSet(I) /\ Cardinality(I) \in Nat
      /\ I = {i \in 1 .. n : s[i] = v} /\ J = {i \in DOMAIN t : t[i] = v}
  <2>1. IsFiniteSet(I) /\ Cardinality(I) \in Nat
    BY <1>1, CountType, CountIs
  <2> QED
    BY <1>1, <1>2, <2>1 DEF Places
<1>5. IsFiniteSet(I \ {1}) /\ Cardinality(I \ {1}) = Cardinality(I) - (IF v = Head(s) THEN 1 ELSE 0)
  <2>1. 1 \in I <=> v = Head(s)
    BY <1>2, <1>4
  <2>2. /\ IsFiniteSet(I \ {1})
        /\ Cardinality(I \ {1}) = IF 1 \in I THEN Cardinality(I) - 1 ELSE Cardinality(I)
    BY <1>4, FS_RemoveElement
  <2> QED
    BY <1>4, <2>1, <2>2
<1>6. Cardinality(J) = Cardinality(I \ {1})
  <2>1. PICK f : f = [i \in I \ {1} |-> i - 1]
    OBVIOUS
  <2>2. \A i \in I \ {1} : i \in Nat /\ f[i] = i - 1 /\ i - 1 \in J
    BY <1>2, <1>4, <2>1
  <2>3. f \in [I \ {1} -> J]
    BY <2>1, <2>2
  <2>4. \A i, j \in I \ {1} : f[i] = f[j] => i = j
    BY <2>2
  <2>5. ASSUME NEW j \in J PROVE \E i \in I \ {1} : f[i] = j
    <3>1. j + 1 \in I \ {1} /\ j \in Nat
      BY <1>2, <1>4
    <3>2. f[j + 1] = j
      BY <2>1, <3>1
    <3> QED
      BY <3>1, <3>2
  <2>6. f \in Bijection(I \ {1}, J)
    BY <2>3, <2>4, <2>5 DEF Bijection, Injection, Surjection, IsInjective
  <2>7. ExistsBijection(I \ {1}, J)
    BY <2>6 DEF ExistsBijection
  <2> QED
    BY <1>5, <2>7, FS_Bijection
<1> QED
  BY <1>1, <1>3, <1>5, <1>6

\* None in an empty ring.
LEMMA CountEmpty == \A v : Smooth!Count(<<>>, v) = 0
<1>1. ASSUME NEW v PROVE Places(<<>>, v) = {}
  BY DEF Places
<1> QED
  BY <1>1, CountIs, FS_EmptySet

\* At most one in a ring that holds nothing twice.
LEMMA CountOnce ==
  ASSUME NEW S, NEW s \in Seq(S), \A i, j \in DOMAIN s : s[i] = s[j] => i = j, NEW v
  PROVE  Smooth!Count(s, v) = IF \E i \in DOMAIN s : s[i] = v THEN 1 ELSE 0
<1>1. CASE \E i \in DOMAIN s : s[i] = v
  <2>1. PICK i \in DOMAIN s : s[i] = v
    BY <1>1
  <2>2. Places(s, v) = {i}
    BY <2>1 DEF Places
  <2>3. Cardinality({i}) = 1
    BY FS_Singleton
  <2> QED
    BY <1>1, <2>2, <2>3, CountIs
<1>2. CASE ~\E i \in DOMAIN s : s[i] = v
  <2>1. Places(s, v) = {}
    BY <1>2 DEF Places
  <2> QED
    BY <1>2, <2>1, CountIs, FS_EmptySet
<1> QED
  BY <1>1, <1>2

\* The variables of Smoothing, as MCStores places them.
tree == x1
there == x2
itr == x3
n_itr == x4
left == x5
right == x6
mean == x7
smoothed == x8
loop == x9

USE DEF tree, there, itr, n_itr, left, right, mean, smoothed, loop

Vas == Smooth!Vas
N == NUM_NEIGHBOURS

\* An address in the right ring that has been visited leaves the ring before it is the
\* one that leaves the left ring.
RingsFit(l, r, v, m) ==
    /\ Len(r) <= N
    /\ \A i \in 1 .. Len(l) : l[i] <= v
    /\ \A i \in 1 .. Len(r), j \in 1 .. Len(l) : l[j] = r[i] => Len(l) - j + i <= m

MeanIs(mn, l, r) == \A v \in Vas : mn[v] = Smooth!Count(l, v) + Smooth!Count(r, v)

\* The addresses and the number of neighbours.
LEMMA SmSizes ==
  ASSUME Smooth!SmoothingAssumption
  PROVE  N \in Nat \ {0} /\ MaxVa \in Nat /\ Vas = 1 .. MaxVa
  BY DEF Smooth!SmoothingAssumption, N, Vas, Smooth!Vas

\* The oldest left neighbour leaves.
LEMMA FitPop ==
  ASSUME NEW l \in Seq(Int), NEW r \in Seq(Int), NEW v \in Int, NEW m \in Int,
         RingsFit(l, r, v, m), l # <<>>
  PROVE  RingsFit(Tail(l), r, v, m)
<1>1. PICK n, t : n \in Nat /\ n + 1 = Len(l) /\ t = Tail(l) /\ Len(t) = n
                         /\ \A i \in 1 .. n : t[i] = l[i + 1] /\ i + 1 \in 1 .. n + 1
  <2>1. Len(l) - 1 \in Nat /\ Len(l) - 1 + 1 = Len(l) /\ Len(Tail(l)) = Len(l) - 1
    OBVIOUS
  <2>2. \A i \in 1 .. Len(l) - 1 : Tail(l)[i] = l[i + 1] /\ i + 1 \in 1 .. Len(l) - 1 + 1
    OBVIOUS
  <2> QED
    BY <2>1, <2>2
<1>2. ASSUME NEW i \in 1 .. Len(r), NEW j \in 1 .. n, t[j] = r[i] PROVE n - j + i <= m
  <2>1. l[j + 1] = r[i] /\ j + 1 \in 1 .. Len(l)
    BY <1>1, <1>2
  <2>2. Len(l) - (j + 1) + i <= m
    BY <2>1 DEF RingsFit
  <2> QED
    BY <1>1, <2>2
<1>3. \A i \in 1 .. n : t[i] <= v
  BY <1>1 DEF RingsFit
<1>4. RingsFit(t, r, v, m)
  BY <1>1, <1>2, <1>3 DEF RingsFit
<1> QED
  BY <1>1, <1>4

\* A neighbour enters on the right.
LEMMA FitAppend ==
  ASSUME N \in Nat, NEW l \in Seq(Int), NEW r \in Seq(Int), NEW v \in Int, NEW m \in Int,
         RingsFit(l, r, v, m), NEW x \in Int, x > v, Len(r) < N
  PROVE  RingsFit(l, Append(r, x), v, m)
<1>a. PICK n, t : n = Len(r) /\ t = Append(r, x)
  OBVIOUS
<1>1. /\ n \in Nat /\ n = Len(r) /\ t = Append(r, x) /\ Len(t) = n + 1 /\ t[n + 1] = x
      /\ \A i \in 1 .. n : t[i] = r[i]
  BY <1>a
<1>2. ASSUME NEW i \in 1 .. n + 1, NEW j \in 1 .. Len(l), l[j] = t[i] PROVE Len(l) - j + i <= m
  <2>1. l[j] <= v /\ l[j] \in Int
    BY DEF RingsFit
  <2>2. i # n + 1
    BY <1>1, <1>2, <2>1
  <2>3. i \in 1 .. n
    BY <1>1, <2>2
  <2> QED
    BY <1>1, <1>2, <2>3 DEF RingsFit
<1>3. RingsFit(l, t, v, m)
  BY <1>1, <1>2 DEF RingsFit
<1> QED
  BY <1>1, <1>3

\* The page itself enters on the left.
LEMMA FitScore ==
  ASSUME N \in Nat, NEW l \in Seq(Int), NEW r \in Seq(Int), NEW x \in Int,
         RingsFit(l, r, x - 1, N - 1)
  PROVE  RingsFit(Append(l, x), r, x, N)
<1>a. PICK n, t : n = Len(l) /\ t = Append(l, x)
  OBVIOUS
<1>1. /\ n \in Nat /\ n = Len(l) /\ t = Append(l, x) /\ Len(t) = n + 1 /\ t[n + 1] = x
      /\ \A i \in 1 .. n : t[i] = l[i] /\ t[i] \in Int
  BY <1>a
<1>2. ASSUME NEW i \in 1 .. Len(r), NEW j \in 1 .. n + 1, t[j] = r[i] PROVE n + 1 - j + i <= N
  <2>1. CASE j = n + 1
    BY <1>1, <2>1 DEF RingsFit
  <2>2. CASE j # n + 1
    <3>1. j \in 1 .. n /\ l[j] = r[i]
      BY <1>1, <1>2, <2>2
    <3>2. n - j + i <= N - 1
      BY <1>1, <3>1 DEF RingsFit
    <3> QED
      BY <1>1, <3>1, <3>2
  <2> QED
    BY <2>1, <2>2
<1>3. \A i \in 1 .. n + 1 : t[i] <= x
  <2>1. \A i \in 1 .. n : t[i] <= x - 1
    BY <1>1 DEF RingsFit
  <2>2. ASSUME NEW i \in 1 .. n + 1 PROVE t[i] <= x
    <3>1. i = n + 1 \/ i \in 1 .. n
      BY <1>1
    <3> QED
      BY <1>1, <2>1, <3>1
  <2> QED
    BY <2>2
<1>4. RingsFit(t, r, x, N)
  BY <1>1, <1>2, <1>3 DEF RingsFit
<1> QED
  BY <1>1, <1>4

\* The next right neighbour leaves.
LEMMA FitShift ==
  ASSUME N \in Nat, NEW l \in Seq(Int), NEW r \in Seq(Int), NEW v \in Int,
         RingsFit(l, r, v, N)
  PROVE  RingsFit(l, IF r # <<>> THEN Tail(r) ELSE <<>>, v, N - 1)
<1>1. CASE r = <<>>
  BY <1>1 DEF RingsFit
<1>2. CASE r # <<>>
  <2>1. PICK n, t : n \in Nat /\ n + 1 = Len(r) /\ t = Tail(r) /\ Len(t) = n
                           /\ \A i \in 1 .. n : t[i] = r[i + 1] /\ i + 1 \in 1 .. n + 1
    <3>1. Len(r) - 1 \in Nat /\ Len(r) - 1 + 1 = Len(r) /\ Len(Tail(r)) = Len(r) - 1
      BY <1>2
    <3>2. \A i \in 1 .. Len(r) - 1 : Tail(r)[i] = r[i + 1] /\ i + 1 \in 1 .. Len(r) - 1 + 1
      BY <1>2
    <3> QED
      BY <3>1, <3>2
  <2>2. ASSUME NEW i \in 1 .. n, NEW j \in 1 .. Len(l), l[j] = t[i]
        PROVE  Len(l) - j + i <= N - 1
    <3>1. Len(l) - j + (i + 1) <= N
      BY <2>1, <2>2 DEF RingsFit
    <3> QED
      BY <3>1
  <2>3. RingsFit(l, t, v, N - 1)
    BY <2>1, <2>2 DEF RingsFit
  <2> QED
    BY <1>2, <2>1, <2>3
<1> QED
  BY <1>1, <1>2

\* A later page.
LEMMA FitLater ==
  ASSUME NEW l \in Seq(Int), NEW r, NEW v \in Int, NEW w \in Int, NEW m, RingsFit(l, r, v, m), v <= w
  PROVE  RingsFit(l, r, w, m)
<1>1. ASSUME NEW i \in 1 .. Len(l) PROVE l[i] <= w
  <2>1. l[i] \in Int /\ l[i] <= v
    BY DEF RingsFit
  <2> QED
    BY <2>1
<1> QED
  BY <1>1 DEF RingsFit

\* The two addresses that leave are not one.
LEMMA HeadsDiffer ==
  ASSUME N \in Nat, NEW l \in Seq(Int), NEW r \in Seq(Int), NEW v, RingsFit(l, r, v, N),
         Len(l) > N, r # <<>>
  PROVE  l # <<>> /\ Head(l) # Head(r)
<1>1. 1 \in 1 .. Len(l) /\ 1 \in 1 .. Len(r) /\ Head(l) = l[1] /\ Head(r) = r[1] /\ l # <<>>
  OBVIOUS
<1>2. l[1] = r[1] => Len(l) - 1 + 1 <= N
  BY <1>1 DEF RingsFit
<1> QED
  BY <1>1, <1>2

\* A set of numbers that is not empty has a least one.
LEMMA LeastNumber ==
  ASSUME NEW T, T \subseteq Nat, T # {}
  PROVE  \E x \in T : \A y \in T : x <= y
<1>1. PICK R : R = OpToRel(<, Nat)
  OBVIOUS
<1>2. ASSUME NEW x \in Nat, NEW y \in Nat, y < x PROVE <<y, x>> \in R
  BY <1>1, <1>2 DEF OpToRel
<1>3. IsWellFoundedOn(R, Nat)
  BY <1>1, NatLessThanWellFounded
<1>4. PICK x \in T : \A y \in T : ~ (<<y, x>> \in R)
  BY <1>3, WFMin
<1>5. ASSUME NEW y \in T PROVE x <= y
  <2>1. x \in Nat /\ y \in Nat
    OBVIOUS
  <2>2. ~(y < x)
    BY <1>2, <1>4, <2>1
  <2> QED
    BY <2>1, <2>2
<1> QED
  BY <1>5

(***************************************************************************)
(* Smoothed scores: the tree.                                              *)
(***************************************************************************)

\* The address after v in T, and the pages v is smoothed with (none on the
\* right behind the first gap).
AfterIn(T, v) == LET later == {w \in T : w > v}
                 IN IF later = {} THEN MaxVa + 1 ELSE CHOOSE w \in later : \A x \in later : w <= x
Filled(T, v, w) == \A x \in Vas : (v <= x /\ x <= w) => x \in T
WindowIn(T, v) == {w \in T : \/ w <= v /\ v - w <= N /\ Filled(T, w, v)
                             \/ w > v /\ w - v <= N /\ Filled(T, AfterIn(T, 0), w)}

\* After and Contiguous are about the tree alone.
LEMMA TreeIs ==
  /\ \A v : Smooth!After(v) = AfterIn(tree, v)
  /\ \A v, w : Smooth!Contiguous(v, w) <=> Filled(tree, v, w)
<1>1. \A v : Smooth!After(v) = AfterIn(tree, v)
  BY DEF Smooth!After, AfterIn
<1>2. ASSUME NEW v, NEW w
      PROVE  Smooth!Contiguous(v, w) <=> Filled(tree, v, w)
  BY DEF Smooth!Contiguous, Filled, Vas
<1> QED
  BY <1>1, <1>2

\* The next address, or the end.
LEMMA AfterIs ==
  ASSUME Smooth!SmoothingAssumption, NEW T, T \subseteq Vas, NEW v \in 0 .. MaxVa
  PROVE  /\ AfterIn(T, v) \in v + 1 .. MaxVa + 1
         /\ AfterIn(T, v) \in T \/ AfterIn(T, v) = MaxVa + 1
         /\ \A w \in T : w > v => AfterIn(T, v) <= w
<1> DEFINE S == {w \in T : w > v}
<1>1. AfterIn(T, v) = IF S = {} THEN MaxVa + 1 ELSE CHOOSE w \in S : \A x \in S : w <= x
  BY DEF AfterIn
<1>2. MaxVa \in Nat /\ Vas = 1 .. MaxVa /\ v \in Nat /\ v <= MaxVa
  BY SmSizes
<1>4. \A w : w \in S <=> w \in T /\ w > v
  OBVIOUS
<1> HIDE DEF S
<1>5. \A w \in T : w \in 1 .. MaxVa
  BY <1>2
<1>6. CASE S = {}
  <2>1. AfterIn(T, v) = MaxVa + 1 /\ \A w \in T : ~(w > v)
    BY <1>1, <1>4, <1>6
  <2> QED
    BY <1>2, <2>1
<1>7. CASE S # {}
  <2>1. S \subseteq Nat
    BY <1>4, <1>5
  <2>2. \E w \in S : \A x \in S : w <= x
    BY <1>7, <2>1, LeastNumber
  <2>3. AfterIn(T, v) = CHOOSE w \in S : \A x \in S : w <= x
    BY <1>1, <1>7, Zenon
  <2>4. AfterIn(T, v) \in S /\ \A x \in S : AfterIn(T, v) <= x
    BY <2>2, <2>3, Zenon
  <2>5. AfterIn(T, v) \in 1 .. MaxVa /\ AfterIn(T, v) > v
    BY <1>4, <1>5, <2>4
  <2> QED
    BY <1>2, <1>4, <2>4, <2>5
<1> QED
  BY <1>6, <1>7

\* The address after one in the tree.
LEMMA NextIs ==
  ASSUME Smooth!SmoothingAssumption, NEW T, T \subseteq Vas, NEW i \in T
  PROVE  /\ i \in 1 .. MaxVa /\ MaxVa \in Nat
         /\ AfterIn(T, i) \in Int /\ AfterIn(T, i) > i /\ AfterIn(T, i) <= MaxVa + 1
         /\ AfterIn(T, i) \in T \/ AfterIn(T, i) = MaxVa + 1
         /\ \A w \in T : w > i => AfterIn(T, i) <= w
<1>1. i \in 1 .. MaxVa /\ i \in 0 .. MaxVa /\ MaxVa \in Nat
  BY SmSizes
<1>2. /\ AfterIn(T, i) \in i + 1 .. MaxVa + 1
      /\ AfterIn(T, i) \in T \/ AfterIn(T, i) = MaxVa + 1
      /\ \A w \in T : w > i => AfterIn(T, i) <= w
  BY <1>1, AfterIs, Zenon
<1> QED
  BY <1>1, <1>2

(***************************************************************************)
(* Smoothed scores: the rings of a walk over a tree all of whose pages are *)
(* present.                                                                *)
(***************************************************************************)

\* l is the run of at most m addresses that ends at v.
Run(T, l, v, m) == /\ Len(l) <= m
                   /\ \A i \in 1 .. Len(l) : l[i] = v - Len(l) + i /\ l[i] \in T
                   /\ Len(l) = m \/ v - Len(l) \notin T

\* What l is when page i is next: the run that ends before i, or a run that is not
\* adjacent to it.
LeftFits(T, l, i) == IF i - 1 \in T THEN Run(T, l, i - 1, N)
                     ELSE \A k \in 1 .. Len(l) : l[k] < i - 1 - Len(l) + k

\* n_itr is behind the right neighbours of i, or has stopped before a gap.
Fresh(T, r, i, n) == /\ Filled(T, AfterIn(T, 0), i + Len(r)) /\ n = AfterIn(T, i + Len(r))
                     /\ \A k \in 1 .. Len(r) : r[k] = i + k /\ r[k] \in T
Stuck(T, r, i, n) == r = <<>> /\ n <= i /\ ~Filled(T, AfterIn(T, 0), i)
RightFits(T, r, i, n) == Fresh(T, r, i, n) \/ Stuck(T, r, i, n)

\* What is left when the oldest left neighbour may stay is the run before i.
LEMMA LeftEnd ==
  ASSUME N \in Nat, NEW T, NEW l \in Seq(Int), NEW i \in Int, LeftFits(T, l, i),
         l # <<>> => Head(l) = i - Len(l)
  PROVE  Run(T, l, i - 1, N)
<1>1. CASE i - 1 \in T
  BY <1>1 DEF LeftFits
<1>2. CASE i - 1 \notin T
  <2>1. l = <<>>
    <3> SUFFICES ASSUME l # <<>> PROVE FALSE
      OBVIOUS
    <3>1. 1 \in 1 .. Len(l) /\ Head(l) = l[1] /\ l[1] \in Int /\ Len(l) \in Nat
      OBVIOUS
    <3>2. l[1] < i - 1 - Len(l) + 1
      BY <1>2, <3>1 DEF LeftFits
    <3> QED
      BY <3>1, <3>2
  <2>2. Len(l) = 0 /\ i - 1 - 0 = i - 1
    BY <2>1
  <2> QED
    BY <1>2, <2>2 DEF Run
<1> QED
  BY <1>1, <1>2

\* The oldest left neighbour leaves only a run that is not adjacent.
LEMMA LeftPopped ==
  ASSUME NEW T, NEW l \in Seq(Int), NEW i \in Int, LeftFits(T, l, i),
         l # <<>>, Head(l) # i - Len(l)
  PROVE  LeftFits(T, Tail(l), i)
<1>1. PICK n, t : n = Len(l) - 1 /\ t = Tail(l)
  OBVIOUS
<1>2. /\ n \in Nat /\ Len(l) = n + 1 /\ Len(t) = n /\ Head(l) = l[1] /\ 1 \in 1 .. n + 1
      /\ \A k \in 1 .. n : t[k] = l[k + 1] /\ k + 1 \in 1 .. n + 1 /\ l[k + 1] \in Int
  BY <1>1
<1>3. i - 1 \notin T
  <2> SUFFICES ASSUME i - 1 \in T PROVE FALSE
    OBVIOUS
  <2>1. l[1] = i - 1 - (n + 1) + 1
    BY <1>2 DEF LeftFits, Run
  <2> QED
    BY <1>2, <2>1
<1>4. ASSUME NEW k \in 1 .. n PROVE t[k] < i - 1 - n + k
  <2>1. l[k + 1] < i - 1 - (n + 1) + (k + 1)
    BY <1>2, <1>3 DEF LeftFits
  <2> QED
    BY <1>2, <2>1
<1>5. LeftFits(T, t, i)
  BY <1>2, <1>3, <1>4 DEF LeftFits
<1> QED
  BY <1>1, <1>5

\* The page ends the run.
LEMMA RunScored ==
  ASSUME N \in Nat, NEW T, NEW l \in Seq(Int), NEW i \in Int, i \in T, Run(T, l, i - 1, N)
  PROVE  Run(T, Append(l, i), i, N + 1)
<1>1. PICK n, t : n = Len(l) /\ t = Append(l, i)
  OBVIOUS
<1>2. /\ n \in Nat /\ Len(t) = n + 1 /\ t[n + 1] = i
      /\ \A k \in 1 .. n : t[k] = l[k]
  BY <1>1
<1>3. ASSUME NEW k \in 1 .. n + 1 PROVE t[k] = i - (n + 1) + k /\ t[k] \in T
  <2>1. CASE k = n + 1
    BY <1>2, <2>1
  <2>2. CASE k # n + 1
    <3>1. k \in 1 .. n
      BY <1>2, <2>2
    <3>2. l[k] = i - 1 - n + k /\ l[k] \in T
      BY <1>1, <3>1 DEF Run
    <3> QED
      BY <1>2, <3>1, <3>2
  <2> QED
    BY <2>1, <2>2
<1>4. n + 1 <= N + 1 /\ (n + 1 = N + 1 \/ i - (n + 1) \notin T)
  <2>1. i - 1 - n = i - (n + 1)
    BY <1>2
  <2> QED
    BY <1>1, <1>2, <2>1 DEF Run
<1>5. Run(T, t, i, N + 1)
  BY <1>2, <1>3, <1>4 DEF Run
<1> QED
  BY <1>1, <1>5

\* The oldest leaves a run that is too long.
LEMMA RunShifted ==
  ASSUME N \in Nat, NEW T, NEW l \in Seq(Int), NEW i \in Int, Run(T, l, i, N + 1)
  PROVE  Run(T, IF Len(l) > N THEN Tail(l) ELSE l, i, N)
<1>1. CASE ~(Len(l) > N)
  BY <1>1 DEF Run
<1>2. CASE Len(l) > N
  <2>1. PICK t : t = Tail(l)
    OBVIOUS
  <2>2. l # <<>> /\ Len(l) = N + 1
    BY <1>2 DEF Run
  <2>3. /\ Len(t) = N
        /\ \A k \in 1 .. N : t[k] = l[k + 1] /\ k + 1 \in 1 .. N + 1
    BY <2>1, <2>2
  <2>4. ASSUME NEW k \in 1 .. N PROVE t[k] = i - N + k /\ t[k] \in T
    <3>1. l[k + 1] = i - (N + 1) + (k + 1) /\ l[k + 1] \in T
      BY <2>2, <2>3 DEF Run
    <3> QED
      BY <2>3, <3>1
  <2>5. Run(T, t, i, N)
    BY <2>3, <2>4 DEF Run
  <2> QED
    BY <1>2, <2>1, <2>5
<1> QED
  BY <1>1, <1>2

\* Then the next page comes.
LEMMA LeftNext ==
  ASSUME Smooth!SmoothingAssumption, NEW T, T \subseteq Vas, NEW l \in Seq(Int), NEW i \in T,
         Run(T, l, i, N), NEW j, j = AfterIn(T, i)
  PROVE  LeftFits(T, l, j)
<1>1. i \in 1 .. MaxVa
  BY NextIs
<1>2. j \in Int /\ j > i /\ \A w \in T : w > i => j <= w
  BY NextIs
<1>3. CASE j - 1 \in T
  <2>1. j - 1 = i
    BY <1>1, <1>2, <1>3
  <2> QED
    BY <1>3, <2>1 DEF LeftFits
<1>4. CASE j - 1 \notin T
  <2>1. i < j - 1
    BY <1>1, <1>2, <1>4
  <2>2. ASSUME NEW k \in 1 .. Len(l) PROVE l[k] < j - 1 - Len(l) + k
    <3>1. l[k] = i - Len(l) + k /\ Len(l) \in Nat
      BY DEF Run
    <3> QED
      BY <1>1, <1>2, <2>1, <3>1
  <2> QED
    BY <1>4, <2>2 DEF LeftFits
<1> QED
  BY <1>3, <1>4

\* The first page.
LEMMA FirstIs ==
  ASSUME Smooth!SmoothingAssumption, NEW T, T \subseteq Vas
  PROVE  /\ AfterIn(T, 0) \in 1 .. MaxVa + 1 /\ MaxVa \in Nat
         /\ \A w \in T : AfterIn(T, 0) <= w
<1>1. 0 \in 0 .. MaxVa /\ MaxVa \in Nat /\ \A w \in T : w > 0
  BY SmSizes
<1>2. /\ AfterIn(T, 0) \in 0 + 1 .. MaxVa + 1
      /\ \A w \in T : w > 0 => AfterIn(T, 0) <= w
  BY <1>1, AfterIs, Zenon
<1> QED
  BY <1>1, <1>2

\* The last right neighbour, or the page itself.
LEMMA FreshEnd ==
  ASSUME Smooth!SmoothingAssumption, NEW T, T \subseteq Vas, NEW i \in T, NEW r \in Seq(Int),
         NEW n, Fresh(T, r, i, n)
  PROVE  i + Len(r) \in T
<1>1. i \in Int /\ Len(r) \in Nat
  <2>1. i \in 1 .. MaxVa
    BY NextIs
  <2> QED
    BY <2>1
<1>2. CASE r = <<>>
  <2>1. Len(r) = 0
    BY <1>2
  <2> QED
    BY <1>1, <2>1
<1>3. CASE r # <<>>
  <2>1. Len(r) \in 1 .. Len(r)
    BY <1>3
  <2> QED
    BY <1>1, <2>1 DEF Fresh
<1> QED
  BY <1>2, <1>3

\* A neighbour enters on the right.
LEMMA RightAppended ==
  ASSUME Smooth!SmoothingAssumption, NEW T, T \subseteq Vas, NEW i \in T, NEW r \in Seq(Int),
         NEW n \in T, RightFits(T, r, i, n), n = i + Len(r) + 1
  PROVE  RightFits(T, Append(r, n), i, AfterIn(T, n))
<1>1. i \in Int /\ Len(r) \in Nat /\ Vas = 1 .. MaxVa /\ MaxVa \in Nat
  BY NextIs, SmSizes
<1>2. Fresh(T, r, i, n)
  BY <1>1 DEF RightFits, Stuck
<1>3. PICK t : t = Append(r, n)
  OBVIOUS
<1>4. /\ Len(t) = Len(r) + 1 /\ t[Len(r) + 1] = n /\ i + Len(t) = n
      /\ \A k \in 1 .. Len(r) : t[k] = r[k]
  BY <1>1, <1>3
<1>5. Filled(T, AfterIn(T, 0), n)
  <2>1. \A x \in Vas : x <= n => x = n \/ x <= i + Len(r)
    BY <1>1
  <2> QED
    BY <1>2, <2>1 DEF Fresh, Filled
<1>6. ASSUME NEW k \in 1 .. Len(t) PROVE t[k] = i + k /\ t[k] \in T
  <2>1. CASE k = Len(r) + 1
    BY <1>1, <1>4, <2>1
  <2>2. CASE k # Len(r) + 1
    <3>1. k \in 1 .. Len(r)
      BY <1>1, <1>4, <2>2
    <3> QED
      BY <1>2, <1>4, <3>1 DEF Fresh
  <2> QED
    BY <2>1, <2>2
<1>7. Fresh(T, t, i, AfterIn(T, n))
  BY <1>4, <1>5, <1>6 DEF Fresh
<1> QED
  BY <1>3, <1>7 DEF RightFits

\* The next page is the first right neighbour, or comes after a gap.
LEMMA RightNext ==
  ASSUME Smooth!SmoothingAssumption, NEW T, T \subseteq Vas, NEW i \in T, NEW r \in Seq(Int),
         NEW n \in Int, RightFits(T, r, i, n),
         Fresh(T, r, i, n) /\ r = <<>> => i + 1 \notin T,
         NEW j, j = AfterIn(T, i), j \in T
  PROVE  RightFits(T, IF r # <<>> THEN Tail(r) ELSE <<>>, j, n)
<1>1. /\ i \in 1 .. MaxVa /\ MaxVa \in Nat /\ j \in 1 .. MaxVa /\ j > i
      /\ \A w \in T : w > i => j <= w
  <2>1. j \in 1 .. MaxVa
    BY NextIs
  <2> QED
    BY <2>1, NextIs
<1>2. PICK f : f = AfterIn(T, 0)
  OBVIOUS
<1>3. f \in Int /\ f <= i
  BY <1>2, FirstIs
<1>4. CASE Stuck(T, r, i, n)
  <2>1. ~Filled(T, f, i) /\ r = <<>> /\ n <= i
    BY <1>2, <1>4 DEF Stuck
  <2>2. ~Filled(T, f, j)
    <3>1. \A x \in Vas : x <= i => x <= j
      BY <1>1, SmSizes
    <3> QED
      BY <2>1, <3>1 DEF Filled
  <2> QED
    BY <1>1, <1>2, <1>4, <2>1, <2>2 DEF RightFits, Stuck
<1>5. CASE Fresh(T, r, i, n) /\ r = <<>>
  <2>1. Len(r) = 0 /\ i + 0 = i
    BY <1>1, <1>5
  <2>2. n = j
    BY <1>5, <2>1 DEF Fresh
  <2>3. i + 1 \in Vas /\ i + 1 \notin T /\ f <= i + 1 /\ i + 1 <= j
    BY <1>1, <1>3, <1>5, SmSizes
  <2>4. ~Filled(T, f, j)
    BY <2>3 DEF Filled
  <2>5. Stuck(T, <<>>, j, n)
    BY <1>1, <1>2, <2>2, <2>4 DEF Stuck
  <2> QED
    BY <1>5, <2>5 DEF RightFits
<1>6. CASE Fresh(T, r, i, n) /\ r # <<>>
  <2>1. PICK m, t : m = Len(r) - 1 /\ t = Tail(r)
    OBVIOUS
  <2>2. /\ m \in Nat /\ Len(r) = m + 1 /\ Len(t) = m
        /\ \A k \in 1 .. m : t[k] = r[k + 1] /\ k + 1 \in 1 .. m + 1
    BY <1>6, <2>1
  <2>3. 1 \in 1 .. m + 1 /\ r[1] = i + 1 /\ r[1] \in T
    <3>1. 1 \in 1 .. Len(r)
      BY <2>2
    <3> QED
      BY <1>6, <2>2, <3>1 DEF Fresh
  <2>4. j = i + 1 /\ j + m = i + Len(r)
    <3>1. i \in Int /\ j \in Int /\ j > i /\ j <= i + 1
      BY <1>1, <2>3
    <3>2. j = i + 1
      BY <3>1
    <3> QED
      BY <2>2, <3>1, <3>2
  <2>5. ASSUME NEW k \in 1 .. m PROVE t[k] = j + k /\ t[k] \in T
    <3>1. r[k + 1] = i + (k + 1) /\ r[k + 1] \in T
      BY <1>6, <2>2 DEF Fresh
    <3> QED
      BY <1>1, <2>2, <2>4, <3>1
  <2>6. Filled(T, AfterIn(T, 0), j + m) /\ n = AfterIn(T, j + m)
    BY <1>6, <2>4 DEF Fresh
  <2>7. Fresh(T, t, j, n)
    BY <2>2, <2>5, <2>6 DEF Fresh
  <2> QED
    BY <1>6, <2>1, <2>7 DEF RightFits
<1> QED
  BY <1>4, <1>5, <1>6 DEF RightFits

\* No more right neighbours: the ring is full, or a gap comes.
LEMMA RightStops ==
  ASSUME Smooth!SmoothingAssumption, NEW T, T \subseteq Vas, NEW i \in T, NEW r \in Seq(Int),
         NEW n, Fresh(T, r, i, n), ~(n \in T /\ n = i + Len(r) + 1)
  PROVE  i + Len(r) + 1 \notin T
<1>1. PICK e : e = i + Len(r)
  OBVIOUS
<1>2. e \in T /\ n = AfterIn(T, e)
  BY <1>1, FreshEnd DEF Fresh
<1>3. ASSUME e + 1 \in T PROVE FALSE
  <2>1. e \in Int /\ n \in Int /\ n > e /\ n <= e + 1
    BY <1>2, <1>3, NextIs
  <2>2. n = e + 1
    BY <2>1
  <2> QED
    BY <1>1, <1>3, <2>2
<1> QED
  BY <1>1, <1>3

\* The left half of the window.
LEMMA LeftHalf ==
  ASSUME Smooth!SmoothingAssumption, NEW T, T \subseteq Vas, NEW i \in T, NEW l \in Seq(Int),
         Run(T, l, i - 1, N), NEW w \in T
  PROVE  (w <= i /\ i - w <= N /\ Filled(T, w, i)) <=> (w = i \/ \E k \in 1 .. Len(l) : l[k] = w)
<1>1. /\ i \in Int /\ w \in Int /\ w >= 1 /\ Len(l) \in Nat /\ N \in Nat /\ MaxVa \in Nat
      /\ Vas = 1 .. MaxVa /\ i <= MaxVa /\ w <= MaxVa
  <2>1. i \in 1 .. MaxVa /\ w \in 1 .. MaxVa
    BY NextIs
  <2> QED
    BY <2>1, SmSizes
<1>2. PICK c \in Nat : c = Len(l)
  BY <1>1
<1>3. /\ c <= N /\ \A k \in 1 .. c : l[k] = i - 1 - c + k /\ l[k] \in T
      /\ c = N \/ i - 1 - c \notin T
  BY <1>2 DEF Run
<1>4. ASSUME w <= i, i - w <= N, Filled(T, w, i), w # i
      PROVE  \E k \in 1 .. c : l[k] = w
  <2>1. i - w <= c
    <3> SUFFICES ASSUME i - w > c PROVE FALSE
      BY <1>1, <1>2
    <3>1. c # N /\ i - 1 - c \notin T
      BY <1>1, <1>3, <1>4
    <3>2. w <= i - 1 - c /\ i - 1 - c <= i /\ i - 1 - c \in Vas
      BY <1>1, <1>2
    <3>3. i - 1 - c \in T
      BY <1>4, <3>2 DEF Filled
    <3> QED
      BY <3>1, <3>3
  <2>2. w - i + 1 + c \in 1 .. c
    BY <1>1, <1>2, <1>4, <2>1
  <2>3. l[w - i + 1 + c] = i - 1 - c + (w - i + 1 + c)
    BY <1>3, <2>2
  <2>4. i - 1 - c + (w - i + 1 + c) = w
    BY <1>1, <1>2
  <2> QED
    BY <2>2, <2>3, <2>4
<1>5. ASSUME NEW k \in 1 .. c, l[k] = w PROVE w <= i /\ i - w <= N /\ Filled(T, w, i)
  <2>1. w = i - 1 - c + k
    BY <1>3, <1>5
  <2>2. ASSUME NEW x \in Vas, w <= x, x <= i PROVE x \in T
    <3>1. CASE x = i
      BY <3>1
    <3>2. CASE x # i
      <4>1. x - i + 1 + c \in 1 .. c /\ i - 1 - c + (x - i + 1 + c) = x
        BY <1>1, <1>2, <2>1, <2>2, <3>2
      <4> QED
        BY <1>3, <4>1
    <3> QED
      BY <3>1, <3>2
  <2> QED
    BY <1>1, <1>2, <1>3, <2>1, <2>2 DEF Filled
<1>6. Filled(T, i, i) /\ i - i <= N
  BY <1>1 DEF Filled
<1> QED
  BY <1>1, <1>2, <1>4, <1>5, <1>6

\* The right half.
LEMMA RightHalf ==
  ASSUME Smooth!SmoothingAssumption, NEW T, T \subseteq Vas, NEW i \in T, NEW r \in Seq(Int),
         NEW n, RightFits(T, r, i, n), Len(r) <= N,
         ~(Len(r) < N /\ n \in T /\ n = i + Len(r) + 1), NEW w \in T
  PROVE  (w > i /\ w - i <= N /\ Filled(T, AfterIn(T, 0), w)) <=> \E k \in 1 .. Len(r) : r[k] = w
<1>1. /\ i \in Int /\ w \in Int /\ w >= 1 /\ Len(r) \in Nat /\ N \in Nat /\ MaxVa \in Nat
      /\ Vas = 1 .. MaxVa /\ i <= MaxVa /\ i >= 1 /\ w <= MaxVa
  <2>1. i \in 1 .. MaxVa /\ w \in 1 .. MaxVa
    BY NextIs
  <2> QED
    BY <2>1, SmSizes
<1>2. PICK c \in Nat, f \in Int : c = Len(r) /\ f = AfterIn(T, 0) /\ f <= i
  <2>1. AfterIn(T, 0) \in Int /\ AfterIn(T, 0) <= i
    BY FirstIs
  <2> QED
    BY <1>1, <2>1
<1>3. CASE Stuck(T, r, i, n)
  <2>1. Len(r) = 0 /\ ~Filled(T, f, i)
    BY <1>2, <1>3 DEF Stuck
  <2>2. w > i => ~Filled(T, f, w)
    <3>1. \A x \in Vas : w > i /\ x <= i => x <= w
      BY <1>1
    <3> QED
      BY <2>1, <3>1 DEF Filled
  <2> QED
    BY <1>2, <2>1, <2>2
<1>4. CASE Fresh(T, r, i, n)
  <2>1. /\ Filled(T, f, i + c) /\ \A k \in 1 .. c : r[k] = i + k /\ r[k] \in T
        /\ c = N \/ i + c + 1 \notin T
    <3>1. c # N => i + c + 1 \notin T
      <4> SUFFICES ASSUME c # N PROVE i + c + 1 \notin T
        OBVIOUS
      <4>1. ~(n \in T /\ n = i + Len(r) + 1)
        BY <1>1, <1>2
      <4> QED
        BY <1>2, <1>4, <4>1, RightStops
    <3> QED
      BY <1>2, <1>4, <3>1 DEF Fresh
  <2>2. ASSUME w > i, w - i <= N, Filled(T, f, w) PROVE \E k \in 1 .. c : r[k] = w
    <3>1. w - i <= c
      <4> SUFFICES ASSUME w - i > c PROVE FALSE
        BY <1>1, <1>2
      <4>1. c # N
        BY <1>1, <1>2, <2>2
      <4>2. f <= i + c + 1 /\ i + c + 1 <= w /\ i + c + 1 \in Vas
        BY <1>1, <1>2
      <4> QED
        BY <2>1, <2>2, <4>1, <4>2 DEF Filled
    <3>2. w - i \in 1 .. c /\ i + (w - i) = w
      BY <1>1, <1>2, <2>2, <3>1
    <3> QED
      BY <2>1, <3>2
  <2>3. ASSUME NEW k \in 1 .. c, r[k] = w PROVE w > i /\ w - i <= N /\ Filled(T, f, w)
    <3>1. w = i + k /\ k <= c
      BY <2>1, <2>3
    <3>2. \A x \in Vas : x <= w => x <= i + c
      BY <1>1, <1>2, <3>1
    <3>3. Filled(T, f, w)
      BY <2>1, <3>2 DEF Filled
    <3> QED
      BY <1>1, <1>2, <3>1, <3>3
  <2> QED
    BY <1>2, <2>2, <2>3
<1> QED
  BY <1>3, <1>4 DEF RightFits

LeftIs(T, l, i, w) == (w <= i /\ i - w <= N /\ Filled(T, w, i)) <=> (w = i \/ \E k \in 1 .. Len(l) : l[k] = w)
RightIs(T, r, i, w) == (w > i /\ w - i <= N /\ Filled(T, AfterIn(T, 0), w)) <=> \E k \in 1 .. Len(r) : r[k] = w

\* Both for rings of addresses.
LEMMA LeftOf ==
  ASSUME Smooth!SmoothingAssumption, NEW T, T \subseteq Vas, NEW i \in T, NEW l \in Seq(Vas),
         Run(T, l, i - 1, N), NEW w \in Vas, w \in T
  PROVE  LeftIs(T, l, i, w)
<1>1. l \in Seq(Int)
  BY SmSizes
<1> QED
  BY <1>1, LeftHalf DEF LeftIs

\* ... and the right half.
LEMMA RightOf ==
  ASSUME Smooth!SmoothingAssumption, NEW T, T \subseteq Vas, NEW i \in T, NEW r \in Seq(Vas),
         NEW n, RightFits(T, r, i, n), Len(r) <= N,
         ~(Len(r) < N /\ n \in T /\ n = i + Len(r) + 1), NEW w \in Vas, w \in T
  PROVE  RightIs(T, r, i, w)
<1>1. r \in Seq(Int)
  BY SmSizes
<1> QED
  BY <1>1, RightHalf DEF RightIs

\* The mean page i of T is to be scored with, and the one it is scored with.
WindowMean(T, i) == [w \in Vas |-> IF w \in WindowIn(T, i) THEN 1 ELSE 0]
ScoredWith(mn, i) == [mn EXCEPT ![i] = @ + 1]

\* They are the same when both rings fit.
LEMMA MeanIsWindow ==
  ASSUME Smooth!SmoothingAssumption, NEW T, T \subseteq Vas, NEW i \in T,
         NEW l \in Seq(Vas), NEW r \in Seq(Vas), NEW n, Run(T, l, i - 1, N),
         RightFits(T, r, i, n), Len(r) <= N, ~(Len(r) < N /\ n \in T /\ n = i + Len(r) + 1),
         NEW mn \in [Vas -> Int], MeanIs(mn, l, r)
  PROVE  ScoredWith(mn, i) = WindowMean(T, i)
<1>1. i \in Int /\ l \in Seq(Int) /\ r \in Seq(Int) /\ Len(l) \in Nat /\ Len(r) \in Nat
  BY SmSizes
<1>2. \A j, k \in 1 .. Len(l) : l[j] = l[k] => j = k
  BY <1>1 DEF Run
<1>3. \A k \in 1 .. Len(l) : l[k] # i
  BY <1>1 DEF Run
<1>4. /\ \A j, k \in 1 .. Len(r) : r[j] = r[k] => j = k
      /\ \A k \in 1 .. Len(r) : r[k] # i
      /\ \A j \in 1 .. Len(l), k \in 1 .. Len(r) : l[j] # r[k]
  <2>1. CASE Stuck(T, r, i, n)
    BY <1>1, <2>1 DEF Stuck
  <2>2. CASE Fresh(T, r, i, n)
    BY <1>1, <2>2 DEF Fresh, Run
  <2> QED
    BY <2>1, <2>2 DEF RightFits
<1>5. ASSUME NEW w \in Vas
      PROVE  [mn EXCEPT ![i] = @ + 1][w] = IF w \in WindowIn(T, i) THEN 1 ELSE 0
  <2>1. /\ Smooth!Count(l, w) = IF \E k \in 1 .. Len(l) : l[k] = w THEN 1 ELSE 0
        /\ Smooth!Count(r, w) = IF \E k \in 1 .. Len(r) : r[k] = w THEN 1 ELSE 0
    <3>1. DOMAIN l = 1 .. Len(l) /\ DOMAIN r = 1 .. Len(r)
      OBVIOUS
    <3> QED
      BY <1>2, <1>4, <3>1, CountOnce
  <2>2. mn[w] = Smooth!Count(l, w) + Smooth!Count(r, w)
    BY DEF MeanIs
  <2>3. [mn EXCEPT ![i] = @ + 1][w] = mn[w] + (IF w = i THEN 1 ELSE 0)
    BY <2>2
  <2>4. w \in WindowIn(T, i) <=> \/ w = i \/ \E k \in 1 .. Len(l) : l[k] = w
                                 \/ \E k \in 1 .. Len(r) : r[k] = w
    <3>1. CASE w \in T
      <4>1. w \in WindowIn(T, i) <=> \/ w <= i /\ i - w <= N /\ Filled(T, w, i)
                                     \/ w > i /\ w - i <= N /\ Filled(T, AfterIn(T, 0), w)
        BY <3>1 DEF WindowIn
      <4>2. LeftIs(T, l, i, w)
        BY <3>1, LeftOf
      <4>3. RightIs(T, r, i, w)
        BY <3>1, RightOf
      <4> QED
        BY <4>1, <4>2, <4>3, Zenon DEF LeftIs, RightIs
    <3>2. CASE w \notin T
      <4>1. w \notin WindowIn(T, i) /\ w # i
        BY <3>2 DEF WindowIn
      <4>2. \A k \in 1 .. Len(l) : l[k] # w
        BY <3>2 DEF Run
      <4>3. \A k \in 1 .. Len(r) : r[k] # w
        BY <1>1, <3>2 DEF RightFits, Fresh, Stuck
      <4> QED
        BY <4>1, <4>2, <4>3
    <3> QED
      BY <3>1, <3>2
  <2> QED
    BY <1>3, <1>4, <2>1, <2>2, <2>3, <2>4
<1>6. [mn EXCEPT ![i] = @ + 1] = [w \in Vas |-> [mn EXCEPT ![i] = @ + 1][w]]
  OBVIOUS
<1> QED
  BY <1>5, <1>6 DEF WindowMean, ScoredWith

(***************************************************************************)
(* Smoothed scores: the inductive invariant.                               *)
(***************************************************************************)

SmTypes ==
    /\ tree \subseteq Vas /\ there \subseteq tree
    /\ itr \in Int /\ (itr \in tree \/ itr = MaxVa + 1)
    /\ n_itr \in Int /\ (n_itr \in tree \/ n_itr = MaxVa + 1)
    /\ left \in Seq(Vas) /\ right \in Seq(Vas)
    /\ mean \in [Vas -> Int] /\ smoothed \in [Vas -> [Vas -> Int]]
    /\ loop \in {"next", "left", "right", "shift"} /\ (loop # "next" => itr \in tree)

\* The rings, and the mean of what is in them.
SmRings == IF loop = "shift" THEN RingsFit(left, right, itr, N)
                             ELSE RingsFit(left, right, itr - 1, N - 1)
SmMean == MeanIs(mean, left, right)

\* As long as no page of the tree has been removed.
SmLeft == /\ loop \in {"next", "left"} /\ itr \in tree => LeftFits(tree, left, itr)
          /\ loop = "right" => Run(tree, left, itr - 1, N)
          /\ loop = "shift" => Run(tree, left, itr, N + 1)
SmRight == /\ itr \in tree => RightFits(tree, right, itr, n_itr)
           /\ loop = "shift" /\ Fresh(tree, right, itr, n_itr) /\ right = <<>> => itr + 1 \notin tree
SmScores == \A v \in Vas : \/ smoothed[v] = Smooth!Nothing
                           \/ v \in tree /\ smoothed[v] = WindowMean(tree, v)
SmWindows == there = tree => SmLeft /\ SmRight /\ SmScores

SmoothInv == SmTypes /\ SmRings /\ SmMean /\ SmWindows

\* The walk starts on the first page.
LEMMA SmoothInit ==
  ASSUME Smooth!SmoothingAssumption, Smooth!Init
  PROVE  SmoothInv
<1>1. /\ tree \subseteq Vas /\ tree # {} /\ there = tree /\ left = <<>> /\ right = <<>>
      /\ itr = AfterIn(tree, 0) /\ n_itr = AfterIn(tree, AfterIn(tree, 0))
      /\ mean = [v \in Vas |-> 0] /\ smoothed = [v \in Vas |-> Smooth!Nothing] /\ loop = "next"
  <2>1. /\ there = tree /\ left = <<>> /\ right = <<>> /\ loop = "next"
        /\ itr = Smooth!After(0) /\ n_itr = Smooth!After(Smooth!After(0))
        /\ mean = [v \in Vas |-> 0] /\ smoothed = [v \in Vas |-> Smooth!Nothing]
    BY Zenon DEF Smooth!Init, Smooth!Nothing, Vas
  <2>2. tree \in (SUBSET Vas) \ {{}}
    BY Zenon DEF Smooth!Init, Vas
  <2>3. tree \subseteq Vas /\ tree # {}
    BY <2>2, Zenon
  <2>4. \A v : Smooth!After(v) = AfterIn(tree, v)
    BY TreeIs, Zenon
  <2> QED
    BY <2>1, <2>3, <2>4, Zenon
<1>2. N \in Nat \ {0} /\ MaxVa \in Nat /\ Vas = 1 .. MaxVa
  BY SmSizes
<1>3. itr \in tree /\ itr \in 1 .. MaxVa /\ \A w \in tree : itr <= w
  <2>1. 0 \in 0 .. MaxVa
    BY <1>2
  <2>2. itr \in tree \/ itr = MaxVa + 1
    BY <1>1, <2>1, AfterIs, Zenon
  <2>3. itr \in 1 .. MaxVa + 1 /\ \A w \in tree : itr <= w
    BY <1>1, FirstIs, Zenon
  <2>4. PICK w : w \in tree
    BY <1>1, Zenon
  <2>5. itr <= w /\ w \in 1 .. MaxVa
    BY <1>1, <1>2, <2>3, <2>4
  <2>6. itr # MaxVa + 1 /\ itr \in 1 .. MaxVa
    BY <1>2, <2>3, <2>5
  <2> QED
    BY <2>2, <2>3, <2>6, Zenon
<1>4. n_itr = AfterIn(tree, itr) /\ n_itr \in Int /\ (n_itr \in tree \/ n_itr = MaxVa + 1)
  BY <1>1, <1>3, NextIs
<1>5. SmTypes
  BY <1>1, <1>2, <1>3, <1>4 DEF SmTypes, Smooth!Nothing, Vas
<1>6. SmRings
  BY <1>1, <1>2 DEF SmRings, RingsFit
<1>7. SmMean
  <2>1. \A v \in Vas : mean[v] = 0
    BY <1>1
  <2>2. \A v : Smooth!Count(left, v) = 0 /\ Smooth!Count(right, v) = 0
    BY <1>1, CountEmpty
  <2> QED
    BY <2>1, <2>2 DEF SmMean, MeanIs
<1>8. SmLeft
  <2>1. itr - 1 \notin tree
    BY <1>3
  <2> QED
    BY <1>1, <2>1 DEF SmLeft, LeftFits
<1>9. SmRight
  <2>1. Len(right) = 0 /\ itr + 0 = itr
    BY <1>1, <1>3
  <2>2. Filled(tree, itr, itr)
    BY <1>2, <1>3 DEF Filled
  <2>3. Fresh(tree, right, itr, n_itr)
    BY <1>1, <1>4, <2>1, <2>2 DEF Fresh
  <2> QED
    BY <1>1, <2>3 DEF SmRight, RightFits
<1>10. SmScores
  BY <1>1 DEF SmScores
<1> QED
  BY <1>5, <1>6, <1>7, <1>8, <1>9, <1>10 DEF SmoothInv, SmWindows

\* munmap clears present of a page.
LEMMA VanishKeeps ==
  ASSUME SmoothInv, NEW v \in Smooth!Vas, Smooth!Vanish(v)
  PROVE  SmoothInv'
<1>1. v \in tree /\ there' = there \ {v} /\ UNCHANGED <<tree, itr, n_itr, left, right, mean, smoothed, loop>>
  BY DEF Smooth!Vanish, SmoothInv, SmTypes
<1>2. SmTypes'
  BY <1>1 DEF SmoothInv, SmTypes
<1>3. SmRings' /\ SmMean'
  BY <1>1 DEF SmoothInv, SmRings, SmMean
<1>4. SmWindows'
  BY <1>1 DEF SmWindows
<1> QED
  BY <1>2, <1>3, <1>4 DEF SmoothInv

\* A page that is not present is passed over.
LEMMA SkipKeeps ==
  ASSUME Smooth!SmoothingAssumption, SmoothInv, Smooth!Skip
  PROVE  SmoothInv'
<1>1. /\ itr \in tree /\ there # tree /\ loop = "next" /\ itr' = AfterIn(tree, itr)
      /\ UNCHANGED <<tree, there, n_itr, left, right, mean, smoothed, loop>>
  BY TreeIs DEF Smooth!Skip
<1>2. tree \subseteq Vas
  BY DEF SmoothInv, SmTypes
<1>3. PICK w : w = AfterIn(tree, itr)
  OBVIOUS
<1>4. itr' = w /\ itr \in Int /\ w \in Int /\ itr < w /\ (w \in tree \/ w = MaxVa + 1)
  <2>1. itr \in Int
    BY DEF SmoothInv, SmTypes
  <2> QED
    BY <1>1, <1>2, <1>3, <2>1, NextIs
<1>5. SmTypes'
  BY <1>1, <1>4 DEF SmoothInv, SmTypes
<1>6. SmRings'
  <2>1. left \in Seq(Int)
    BY SmSizes DEF SmoothInv, SmTypes
  <2>2. RingsFit(left, right, itr - 1, N - 1)
    BY <1>1 DEF SmoothInv, SmRings
  <2>3. itr - 1 \in Int /\ w - 1 \in Int /\ itr - 1 <= w - 1
    BY <1>4
  <2>4. RingsFit(left, right, w - 1, N - 1)
    BY <2>1, <2>2, <2>3, FitLater
  <2> QED
    BY <1>1, <1>4, <2>4 DEF SmRings
<1>7. SmMean'
  BY <1>1 DEF SmoothInv, SmMean
<1>8. SmWindows'
  BY <1>1 DEF SmWindows
<1> QED
  BY <1>5, <1>6, <1>7, <1>8 DEF SmoothInv

\* The body of the loop begins.
LEMMA VisitKeeps ==
  ASSUME SmoothInv, Smooth!Visit
  PROVE  SmoothInv'
<1>1. /\ itr \in tree /\ loop = "next" /\ loop' = "left"
      /\ UNCHANGED <<tree, there, itr, n_itr, left, right, mean, smoothed>>
  BY DEF Smooth!Visit, SmoothInv, SmTypes
<1>2. SmTypes'
  BY <1>1 DEF SmoothInv, SmTypes
<1>3. SmRings' /\ SmMean'
  BY <1>1 DEF SmoothInv, SmRings, SmMean
<1>4. SmWindows'
  <2>1. SmScores => SmScores'
    BY <1>1 DEF SmScores
  <2> QED
    BY <1>1, <2>1 DEF SmoothInv, SmWindows, SmLeft, SmRight
<1> QED
  BY <1>2, <1>3, <1>4 DEF SmoothInv

\* The types, for the lemmas about rings of integers.
LEMMA SmFacts ==
  ASSUME Smooth!SmoothingAssumption, SmTypes
  PROVE  /\ N \in Nat /\ N > 0 /\ MaxVa \in Nat /\ Vas = 1 .. MaxVa
         /\ tree \subseteq Vas /\ itr \in Int /\ n_itr \in Int
         /\ left \in Seq(Vas) /\ right \in Seq(Vas) /\ left \in Seq(Int) /\ right \in Seq(Int)
         /\ mean \in [Vas -> Int]
<1>1. N \in Nat /\ N > 0 /\ MaxVa \in Nat /\ Vas = 1 .. MaxVa
  BY SmSizes
<1>2. /\ tree \subseteq Vas /\ itr \in Int /\ n_itr \in Int
      /\ left \in Seq(Vas) /\ right \in Seq(Vas) /\ mean \in [Vas -> Int]
  BY DEF SmTypes
<1>3. \A v \in Vas : v \in Int
  BY <1>1
<1>4. left \in Seq(Int) /\ right \in Seq(Int)
  BY <1>2, <1>3
<1> QED
  BY <1>1, <1>2, <1>4

\* The mean as an address enters the right ring, ...
LEMMA MeanRight ==
  ASSUME NEW l \in Seq(Vas), NEW r \in Seq(Vas), NEW mn \in [Vas -> Int], MeanIs(mn, l, r), NEW x \in Vas
  PROVE  MeanIs([mn EXCEPT ![x] = @ + 1], l, Append(r, x))
<1>1. ASSUME NEW v \in Vas
      PROVE  [mn EXCEPT ![x] = @ + 1][v] = Smooth!Count(l, v) + Smooth!Count(Append(r, x), v)
  <2>1. Smooth!Count(Append(r, x), v) = Smooth!Count(r, v) + (IF v = x THEN 1 ELSE 0)
    BY CountAppend
  <2>2. Smooth!Count(l, v) \in Nat /\ Smooth!Count(r, v) \in Nat
    BY CountType
  <2>3. mn[v] = Smooth!Count(l, v) + Smooth!Count(r, v)
    BY DEF MeanIs
  <2> QED
    BY <2>1, <2>2, <2>3
<1> QED
  BY <1>1 DEF MeanIs

\* ... the left ring, ...
LEMMA MeanLeft ==
  ASSUME NEW l \in Seq(Vas), NEW r \in Seq(Vas), NEW mn \in [Vas -> Int], MeanIs(mn, l, r), NEW x \in Vas
  PROVE  MeanIs([mn EXCEPT ![x] = @ + 1], Append(l, x), r)
<1>1. ASSUME NEW v \in Vas
      PROVE  [mn EXCEPT ![x] = @ + 1][v] = Smooth!Count(Append(l, x), v) + Smooth!Count(r, v)
  <2>1. Smooth!Count(Append(l, x), v) = Smooth!Count(l, v) + (IF v = x THEN 1 ELSE 0)
    BY CountAppend
  <2>2. Smooth!Count(l, v) \in Nat /\ Smooth!Count(r, v) \in Nat
    BY CountType
  <2>3. mn[v] = Smooth!Count(l, v) + Smooth!Count(r, v)
    BY DEF MeanIs
  <2> QED
    BY <2>1, <2>2, <2>3
<1> QED
  BY <1>1 DEF MeanIs

\* ... and leaves the left ring.
LEMMA MeanPop ==
  ASSUME NEW l \in Seq(Vas), l # <<>>, NEW r \in Seq(Vas), NEW mn \in [Vas -> Int], MeanIs(mn, l, r)
  PROVE  MeanIs([mn EXCEPT ![Head(l)] = @ - 1], Tail(l), r)
<1>1. ASSUME NEW v \in Vas
      PROVE  [mn EXCEPT ![Head(l)] = @ - 1][v] = Smooth!Count(Tail(l), v) + Smooth!Count(r, v)
  <2>1. Smooth!Count(Tail(l), v) = Smooth!Count(l, v) - (IF v = Head(l) THEN 1 ELSE 0)
    BY CountTail
  <2>2. Smooth!Count(l, v) \in Nat /\ Smooth!Count(r, v) \in Nat
    BY CountType
  <2>3. mn[v] = Smooth!Count(l, v) + Smooth!Count(r, v)
    BY DEF MeanIs
  <2>4. Head(l) \in Vas
    OBVIOUS
  <2> QED
    BY <2>1, <2>2, <2>3, <2>4
<1> QED
  BY <1>1 DEF MeanIs

\* The ends of both rings, if they leave.
LeavesLeft(l, v) == Len(l) > N /\ v = Head(l)
LeavesRight(r, v) == r # <<>> /\ v = Head(r)
ShortLeft(l) == IF Len(l) > N THEN Tail(l) ELSE l
ShortRight(r) == IF r # <<>> THEN Tail(r) ELSE <<>>

\* The mean without them, as no address leaves both.
LEMMA MeanShift ==
  ASSUME N \in Nat, NEW l \in Seq(Vas), NEW r \in Seq(Vas), NEW mn \in [Vas -> Int],
         MeanIs(mn, l, r), ~\E v \in Vas : LeavesLeft(l, v) /\ LeavesRight(r, v)
  PROVE  MeanIs([v \in Vas |-> IF LeavesLeft(l, v) \/ LeavesRight(r, v) THEN mn[v] - 1 ELSE mn[v]],
                ShortLeft(l), ShortRight(r))
<1>1. ASSUME NEW v \in Vas
      PROVE  (IF LeavesLeft(l, v) \/ LeavesRight(r, v) THEN mn[v] - 1 ELSE mn[v])
             = Smooth!Count(ShortLeft(l), v) + Smooth!Count(ShortRight(r), v)
  <2>1. PICK a, b : a = Smooth!Count(l, v) /\ b = Smooth!Count(r, v)
    OBVIOUS
  <2>2. a \in Nat /\ b \in Nat
    BY <2>1, CountType
  <2>3. mn[v] = a + b
    BY <2>1 DEF MeanIs
  <2>4. Smooth!Count(ShortLeft(l), v) = IF LeavesLeft(l, v) THEN a - 1 ELSE a
    <3>1. CASE Len(l) > N
      <4>1. l # <<>>
        BY <3>1
      <4>2. Smooth!Count(Tail(l), v) = a - (IF v = Head(l) THEN 1 ELSE 0)
        BY <2>1, <4>1, CountTail
      <4> QED
        BY <2>2, <3>1, <4>2 DEF ShortLeft, LeavesLeft
    <3>2. CASE ~(Len(l) > N)
      BY <2>1, <3>2 DEF ShortLeft, LeavesLeft
    <3> QED
      BY <3>1, <3>2
  <2>5. Smooth!Count(ShortRight(r), v) = IF LeavesRight(r, v) THEN b - 1 ELSE b
    <3>1. CASE r # <<>>
      <4>1. Smooth!Count(Tail(r), v) = b - (IF v = Head(r) THEN 1 ELSE 0)
        BY <2>1, <3>1, CountTail
      <4> QED
        BY <2>2, <3>1, <4>1 DEF ShortRight, LeavesRight
    <3>2. CASE r = <<>>
      BY <2>1, <3>2 DEF ShortRight, LeavesRight
    <3> QED
      BY <3>1, <3>2
  <2>6. ~(LeavesLeft(l, v) /\ LeavesRight(r, v))
    OBVIOUS
  <2> QED
    BY <2>2, <2>3, <2>4, <2>5, <2>6
<1> QED
  BY <1>1 DEF MeanIs

\* A left neighbour that is not adjacent goes.
LEMMA PopLeftKeeps ==
  ASSUME Smooth!SmoothingAssumption, SmoothInv, Smooth!PopLeft
  PROVE  SmoothInv'
<1>1. /\ loop = "left" /\ left # <<>> /\ Head(left) # itr - Len(left)
      /\ left' = Tail(left) /\ mean' = [mean EXCEPT ![Head(left)] = @ - 1]
      /\ UNCHANGED <<tree, there, itr, n_itr, right, smoothed, loop>>
  BY DEF Smooth!PopLeft, Smooth!LeftAdjacent, Smooth!moving_avg_sub
<1>2. SmTypes /\ SmRings /\ SmMean /\ SmWindows
  BY DEF SmoothInv
<1>3. /\ N \in Nat /\ itr \in Int /\ left \in Seq(Vas) /\ right \in Seq(Vas)
      /\ left \in Seq(Int) /\ right \in Seq(Int) /\ mean \in [Vas -> Int] /\ itr \in tree
  BY <1>1, <1>2, SmFacts DEF SmTypes
<1>4. SmTypes'
  <2>1. left' \in Seq(Vas) /\ mean' \in [Vas -> Int]
    BY <1>1, <1>3
  <2> QED
    BY <1>1, <1>2, <2>1 DEF SmTypes
<1>5. SmRings'
  <2>1. PICK v \in Int, m \in Int : v = itr - 1 /\ m = N - 1
    BY <1>3
  <2>2. RingsFit(left, right, v, m)
    BY <1>1, <1>2, <2>1 DEF SmRings
  <2>3. RingsFit(Tail(left), right, v, m)
    BY <1>1, <1>3, <2>2, FitPop
  <2> QED
    BY <1>1, <2>1, <2>3 DEF SmRings
<1>6. SmMean'
  <2>1. MeanIs([mean EXCEPT ![Head(left)] = @ - 1], Tail(left), right)
    BY <1>1, <1>2, <1>3, MeanPop DEF SmMean
  <2> QED
    BY <1>1, <2>1 DEF SmMean
<1>7. SmWindows'
  <2>1. ASSUME there = tree PROVE LeftFits(tree, Tail(left), itr) /\ SmRight /\ SmScores
    <3>1. LeftFits(tree, left, itr) /\ SmRight /\ SmScores
      BY <1>1, <1>2, <1>3, <2>1 DEF SmWindows, SmLeft
    <3> QED
      BY <1>1, <1>3, <3>1, LeftPopped
  <2>2. SmRight => SmRight'
    BY <1>1 DEF SmRight
  <2>3. SmScores => SmScores'
    BY <1>1 DEF SmScores
  <2>4. LeftFits(tree, Tail(left), itr) => SmLeft'
    BY <1>1 DEF SmLeft
  <2> QED
    BY <1>1, <2>1, <2>2, <2>3, <2>4 DEF SmWindows
<1> QED
  BY <1>4, <1>5, <1>6, <1>7 DEF SmoothInv

\* The left neighbours are adjacent.
LEMMA EndLeftKeeps ==
  ASSUME Smooth!SmoothingAssumption, SmoothInv, Smooth!EndLeft
  PROVE  SmoothInv'
<1>1. /\ loop = "left" /\ (left # <<>> => Head(left) = itr - Len(left))
      /\ loop' = "right" /\ UNCHANGED <<tree, there, itr, n_itr, left, right, mean, smoothed>>
  BY DEF Smooth!EndLeft, Smooth!LeftAdjacent
<1>2. SmTypes /\ SmRings /\ SmMean /\ SmWindows
  BY DEF SmoothInv
<1>3. N \in Nat /\ itr \in Int /\ left \in Seq(Int) /\ itr \in tree
  BY <1>1, <1>2, SmFacts DEF SmTypes
<1>4. SmTypes'
  BY <1>1, <1>2 DEF SmTypes
<1>5. SmRings' /\ SmMean'
  BY <1>1, <1>2 DEF SmRings, SmMean
<1>6. SmWindows'
  <2>1. ASSUME there = tree PROVE Run(tree, left, itr - 1, N) /\ SmRight /\ SmScores
    <3>1. LeftFits(tree, left, itr) /\ SmRight /\ SmScores
      BY <1>1, <1>2, <1>3, <2>1 DEF SmWindows, SmLeft
    <3> QED
      BY <1>1, <1>3, <3>1, LeftEnd
  <2>2. SmRight => SmRight'
    BY <1>1 DEF SmRight
  <2>3. SmScores => SmScores'
    BY <1>1 DEF SmScores
  <2>4. Run(tree, left, itr - 1, N) => SmLeft'
    BY <1>1 DEF SmLeft
  <2> QED
    BY <1>1, <2>1, <2>2, <2>3, <2>4 DEF SmWindows
<1> QED
  BY <1>4, <1>5, <1>6 DEF SmoothInv

\* A right neighbour is added.
LEMMA AppendRightKeeps ==
  ASSUME Smooth!SmoothingAssumption, SmoothInv, Smooth!AppendRight
  PROVE  SmoothInv'
<1>1. /\ loop = "right" /\ Len(right) < N /\ n_itr \in tree /\ n_itr = itr + Len(right) + 1
      /\ right' = Append(right, n_itr) /\ mean' = [mean EXCEPT ![n_itr] = @ + 1]
      /\ UNCHANGED <<tree, there, itr, left, smoothed, loop>>
  BY DEF Smooth!AppendRight, Smooth!RightAdjacent, Smooth!moving_avg_add, N
<1>2. n_itr' = AfterIn(tree, n_itr)
  BY TreeIs DEF Smooth!AppendRight
<1>3. SmTypes /\ SmRings /\ SmMean /\ SmWindows
  BY DEF SmoothInv
<1>4. /\ N \in Nat /\ itr \in Int /\ n_itr \in Int /\ left \in Seq(Vas) /\ right \in Seq(Vas)
      /\ left \in Seq(Int) /\ right \in Seq(Int) /\ mean \in [Vas -> Int] /\ tree \subseteq Vas
  BY <1>3, SmFacts
<1>5. itr \in tree /\ n_itr \in Vas /\ n_itr > itr - 1
  <2>1. itr \in tree /\ n_itr \in Vas
    BY <1>1, <1>3, <1>4 DEF SmTypes
  <2>2. Len(right) \in Nat
    BY <1>4
  <2> QED
    BY <1>1, <1>4, <2>1, <2>2
<1>6. SmTypes'
  <2>1. right' \in Seq(Vas) /\ mean' \in [Vas -> Int]
    BY <1>1, <1>4, <1>5
  <2>2. n_itr' \in Int /\ (n_itr' \in tree \/ n_itr' = MaxVa + 1)
    BY <1>1, <1>2, <1>4, NextIs
  <2> QED
    BY <1>1, <1>3, <2>1, <2>2 DEF SmTypes
<1>7. SmRings'
  <2>1. PICK v \in Int, m \in Int : v = itr - 1 /\ m = N - 1
    BY <1>4
  <2>2. RingsFit(left, right, v, m) /\ n_itr > v
    BY <1>1, <1>3, <1>5, <2>1 DEF SmRings
  <2>3. RingsFit(left, Append(right, n_itr), v, m)
    BY <1>1, <1>4, <2>2, FitAppend
  <2> QED
    BY <1>1, <2>1, <2>3 DEF SmRings
<1>8. SmMean'
  <2>1. MeanIs([mean EXCEPT ![n_itr] = @ + 1], left, Append(right, n_itr))
    BY <1>3, <1>4, <1>5, MeanRight DEF SmMean
  <2> QED
    BY <1>1, <2>1 DEF SmMean
<1>9. SmWindows'
  <2>1. ASSUME there = tree
        PROVE  RightFits(tree, right', itr, n_itr') /\ SmLeft /\ SmScores
    <3>1. RightFits(tree, right, itr, n_itr) /\ SmLeft /\ SmScores
      BY <1>3, <1>5, <2>1 DEF SmWindows, SmRight
    <3>2. RightFits(tree, Append(right, n_itr), itr, AfterIn(tree, n_itr))
      BY <1>1, <1>4, <1>5, <3>1, RightAppended
    <3> QED
      BY <1>1, <1>2, <3>1, <3>2
  <2>2. RightFits(tree, right', itr, n_itr') => SmRight'
    BY <1>1 DEF SmRight
  <2>3. SmScores => SmScores'
    BY <1>1 DEF SmScores
  <2>4. SmLeft => SmLeft'
    BY <1>1 DEF SmLeft
  <2> QED
    BY <1>1, <2>1, <2>2, <2>3, <2>4 DEF SmWindows
<1> QED
  BY <1>6, <1>7, <1>8, <1>9 DEF SmoothInv

\* The page is scored and becomes a left neighbour.
LEMMA ScoreKeeps ==
  ASSUME Smooth!SmoothingAssumption, SmoothInv, Smooth!Score
  PROVE  SmoothInv'
<1>1. /\ loop = "right" /\ ~(Len(right) < N /\ n_itr \in tree /\ n_itr = itr + Len(right) + 1)
      /\ mean' = [mean EXCEPT ![itr] = @ + 1] /\ left' = Append(left, itr)
      /\ loop' = "shift" /\ UNCHANGED <<tree, there, itr, n_itr, right>>
  BY DEF Smooth!Score, Smooth!RightAdjacent, Smooth!moving_avg_add, N
<1>2. smoothed' = [smoothed EXCEPT ![itr] = mean']
  BY DEF Smooth!Score
<1>3. SmTypes /\ SmRings /\ SmMean /\ SmWindows
  BY DEF SmoothInv
<1>4. /\ N \in Nat /\ N > 0 /\ itr \in Int /\ left \in Seq(Vas) /\ right \in Seq(Vas)
      /\ left \in Seq(Int) /\ right \in Seq(Int) /\ mean \in [Vas -> Int] /\ tree \subseteq Vas
  BY <1>3, SmFacts
<1>5. itr \in tree /\ itr \in Vas
  BY <1>1, <1>3, <1>4 DEF SmTypes
<1>6. RingsFit(left, right, itr - 1, N - 1) /\ Len(right) <= N
  <2>1. RingsFit(left, right, itr - 1, N - 1)
    BY <1>1, <1>3 DEF SmRings
  <2> QED
    BY <2>1 DEF RingsFit
<1>7. SmTypes'
  <2>1. left' \in Seq(Vas) /\ mean' \in [Vas -> Int]
    BY <1>1, <1>4, <1>5
  <2>2. smoothed' \in [Vas -> [Vas -> Int]]
    BY <1>2, <1>3, <2>1 DEF SmTypes
  <2> QED
    BY <1>1, <1>3, <1>5, <2>1, <2>2 DEF SmTypes
<1>8. SmRings'
  <2>1. RingsFit(Append(left, itr), right, itr, N)
    BY <1>4, <1>6, FitScore
  <2> QED
    BY <1>1, <2>1 DEF SmRings
<1>9. SmMean'
  <2>1. MeanIs([mean EXCEPT ![itr] = @ + 1], Append(left, itr), right)
    BY <1>3, <1>4, <1>5, MeanLeft DEF SmMean
  <2> QED
    BY <1>1, <2>1 DEF SmMean
<1>10. SmWindows'
  <2> SUFFICES ASSUME there = tree PROVE SmLeft' /\ SmRight' /\ SmScores'
    BY <1>1 DEF SmWindows
  <2>1. /\ Run(tree, left, itr - 1, N) /\ RightFits(tree, right, itr, n_itr) /\ SmScores
    BY <1>1, <1>3, <1>5 DEF SmWindows, SmLeft, SmRight
  <2>2. SmLeft'
    <3>1. Run(tree, Append(left, itr), itr, N + 1)
      BY <1>4, <1>5, <2>1, RunScored
    <3> QED
      BY <1>1, <3>1 DEF SmLeft
  <2>3. SmRight'
    <3>1. ASSUME Fresh(tree, right, itr, n_itr), right = <<>> PROVE itr + 1 \notin tree
      <4>1. Len(right) = 0
        BY <3>1
      <4>2. ~(n_itr \in tree /\ n_itr = itr + Len(right) + 1)
        BY <1>1, <1>4, <4>1
      <4>3. itr + Len(right) + 1 \notin tree
        BY <1>4, <1>5, <3>1, <4>2, RightStops
      <4> QED
        BY <1>4, <4>1, <4>3
    <3> QED
      BY <1>1, <2>1, <3>1 DEF SmRight
  <2>4. mean' = WindowMean(tree, itr)
    <3>1. MeanIs(mean, left, right)
      BY <1>3 DEF SmMean
    <3>2. ScoredWith(mean, itr) = WindowMean(tree, itr)
      <4>1. /\ tree \subseteq Vas /\ itr \in tree /\ left \in Seq(Vas) /\ right \in Seq(Vas)
            /\ mean \in [Vas -> Int] /\ Len(right) <= N
        BY <1>4, <1>5, <1>6
      <4>2. ~(Len(right) < N /\ n_itr \in tree /\ n_itr = itr + Len(right) + 1)
        BY <1>1
      <4> QED
        BY <2>1, <3>1, <4>1, <4>2, MeanIsWindow
    <3> QED
      BY <1>1, <3>2, Zenon DEF ScoredWith
  <2>5. SmScores'
    <3>1. PICK m : m = mean' /\ m = WindowMean(tree, itr)
      BY <2>4
    <3>2. ASSUME NEW v \in Vas
          PROVE  \/ smoothed'[v] = Smooth!Nothing
                 \/ v \in tree /\ smoothed'[v] = WindowMean(tree, v)
      <4>1. smoothed' = [smoothed EXCEPT ![itr] = m] /\ DOMAIN smoothed = Vas
        BY <1>2, <1>3, <3>1 DEF SmTypes
      <4>2. CASE v = itr
        BY <1>5, <3>1, <4>1, <4>2
      <4>3. CASE v # itr
        <5>1. smoothed'[v] = smoothed[v]
          BY <4>1, <4>3
        <5> QED
          BY <2>1, <5>1 DEF SmScores
      <4> QED
        BY <4>2, <4>3
    <3>3. Smooth!Nothing' = Smooth!Nothing /\ \A v : WindowMean(tree, v)' = WindowMean(tree, v)
      BY <1>1 DEF Smooth!Nothing, WindowMean
    <3> QED
      BY <1>1, <3>2, <3>3 DEF SmScores
  <2> QED
    BY <2>2, <2>3, <2>5
<1> QED
  BY <1>7, <1>8, <1>9, <1>10 DEF SmoothInv

\* The ends of both rings leave, and the walk goes on.
LEMMA ShiftKeeps ==
  ASSUME Smooth!SmoothingAssumption, SmoothInv, Smooth!Shift
  PROVE  SmoothInv'
<1>1. /\ loop = "shift" /\ loop' = "next" /\ UNCHANGED <<tree, there, n_itr, smoothed>>
      /\ itr' = AfterIn(tree, itr)
  BY TreeIs DEF Smooth!Shift
<1>2. /\ left' = ShortLeft(left) /\ right' = ShortRight(right)
      /\ mean' = [v \in Vas |-> IF LeavesLeft(left, v) \/ LeavesRight(right, v)
                                THEN mean[v] - 1 ELSE mean[v]]
  <2> DEFINE lout == IF Len(left) > N THEN {Head(left)} ELSE {}
             rout == IF right # <<>> THEN {Head(right)} ELSE {}
  <2>1. /\ left' = (IF lout # {} THEN Tail(left) ELSE left)
        /\ right' = (IF rout # {} THEN Tail(right) ELSE <<>>)
        /\ mean' = [v \in Vas |-> IF v \in lout \cup rout THEN mean[v] - 1 ELSE mean[v]]
    BY DEF Smooth!Shift, N, Vas
  <2>2. /\ lout # {} <=> Len(left) > N
        /\ rout # {} <=> right # <<>>
    OBVIOUS
  <2>3. \A v : v \in lout \cup rout <=> LeavesLeft(left, v) \/ LeavesRight(right, v)
    BY DEF LeavesLeft, LeavesRight
  <2> HIDE DEF lout, rout
  <2>4. left' = ShortLeft(left) /\ right' = ShortRight(right)
    BY <2>1, <2>2 DEF ShortLeft, ShortRight
  <2> QED
    BY <2>1, <2>3, <2>4
<1>3. SmTypes /\ SmRings /\ SmMean /\ SmWindows
  BY DEF SmoothInv
<1>4. /\ N \in Nat /\ itr \in Int /\ n_itr \in Int /\ left \in Seq(Vas) /\ right \in Seq(Vas)
      /\ left \in Seq(Int) /\ right \in Seq(Int) /\ mean \in [Vas -> Int] /\ tree \subseteq Vas
  BY <1>3, SmFacts
<1>5. PICK w : w = AfterIn(tree, itr)
  OBVIOUS
<1>15. itr' = w /\ itr \in tree /\ w \in Int /\ itr < w /\ (w \in tree \/ w = MaxVa + 1)
  <2>1. itr \in tree
    BY <1>1, <1>3 DEF SmTypes
  <2> QED
    BY <1>1, <1>4, <1>5, <2>1, NextIs
<1>6. /\ ShortLeft(left) \in Seq(Vas) /\ ShortRight(right) \in Seq(Vas)
      /\ ShortLeft(left) \in Seq(Int) /\ ShortRight(right) \in Seq(Int)
  <2>1. Len(left) > N => left # <<>>
    BY <1>4
  <2>2. left # <<>> => Tail(left) \in Seq(Vas) /\ Tail(left) \in Seq(Int)
    BY <1>4
  <2>3. right # <<>> => Tail(right) \in Seq(Vas) /\ Tail(right) \in Seq(Int)
    BY <1>4
  <2> QED
    BY <1>4, <2>1, <2>2, <2>3 DEF ShortLeft, ShortRight
<1>7. RingsFit(left, right, itr, N)
  BY <1>1, <1>3 DEF SmRings
<1>8. SmTypes'
  <2>1. mean' \in [Vas -> Int]
    BY <1>2, <1>4
  <2> QED
    BY <1>1, <1>2, <1>3, <1>5, <1>15, <1>6, <2>1 DEF SmTypes
<1>9. SmRings'
  <2>1. RingsFit(ShortLeft(left), right, itr, N)
    <3>1. CASE Len(left) > N
      <4>1. left # <<>> /\ N \in Int
        BY <1>4, <3>1
      <4>2. RingsFit(Tail(left), right, itr, N)
        BY <1>4, <1>7, <4>1, FitPop
      <4> QED
        BY <3>1, <4>2 DEF ShortLeft
    <3>2. CASE ~(Len(left) > N)
      BY <1>7, <3>2 DEF ShortLeft
    <3> QED
      BY <3>1, <3>2
  <2>2. RingsFit(ShortLeft(left), ShortRight(right), itr, N - 1)
    BY <1>4, <1>6, <2>1, FitShift DEF ShortRight
  <2>3. itr <= w - 1 /\ w - 1 \in Int
    BY <1>4, <1>15
  <2>4. RingsFit(ShortLeft(left), ShortRight(right), w - 1, N - 1)
    BY <1>4, <1>6, <2>2, <2>3, FitLater
  <2> QED
    BY <1>1, <1>2, <1>15, <2>4 DEF SmRings
<1>10. SmMean'
  <2>1. ASSUME NEW v \in Vas, LeavesLeft(left, v), LeavesRight(right, v) PROVE FALSE
    BY <1>4, <1>7, <2>1, HeadsDiffer DEF LeavesLeft, LeavesRight
  <2>2. MeanIs([v \in Vas |-> IF LeavesLeft(left, v) \/ LeavesRight(right, v)
                              THEN mean[v] - 1 ELSE mean[v]], ShortLeft(left), ShortRight(right))
    BY <1>3, <1>4, <2>1, MeanShift DEF SmMean
  <2> QED
    BY <1>2, <2>2 DEF SmMean
<1>11. SmWindows'
  <2> SUFFICES ASSUME there = tree PROVE SmLeft' /\ SmRight' /\ SmScores'
    BY <1>1 DEF SmWindows
  <2>1. /\ Run(tree, left, itr, N + 1) /\ RightFits(tree, right, itr, n_itr) /\ SmScores
        /\ Fresh(tree, right, itr, n_itr) /\ right = <<>> => itr + 1 \notin tree
    BY <1>1, <1>3, <1>5, <1>15 DEF SmWindows, SmLeft, SmRight
  <2>2. SmLeft'
    <3>1. Run(tree, ShortLeft(left), itr, N)
      BY <1>4, <2>1, RunShifted DEF ShortLeft
    <3>2. /\ tree \subseteq Vas /\ itr \in tree /\ w = AfterIn(tree, itr)
          /\ ShortLeft(left) \in Seq(Int)
      BY <1>4, <1>5, <1>15, <1>6
    <3>3. LeftFits(tree, ShortLeft(left), w)
      BY <3>1, <3>2, LeftNext, Zenon
    <3> QED
      BY <1>1, <1>2, <1>15, <3>3 DEF SmLeft
  <2>3. SmRight'
    <3>1. ASSUME w \in tree PROVE RightFits(tree, ShortRight(right), w, n_itr)
      <4>1. /\ tree \subseteq Vas /\ itr \in tree /\ w = AfterIn(tree, itr)
            /\ right \in Seq(Int) /\ n_itr \in Int
        BY <1>4, <1>5, <1>15
      <4> QED
        BY <2>1, <3>1, <4>1, RightNext, Zenon DEF ShortRight
    <3> QED
      BY <1>1, <1>2, <1>15, <3>1 DEF SmRight
  <2>4. SmScores'
    BY <1>1, <2>1 DEF SmScores
  <2> QED
    BY <2>2, <2>3, <2>4
<1> QED
  BY <1>8, <1>9, <1>10, <1>11 DEF SmoothInv

\* The invariant is inductive, ...
LEMMA SmoothStep ==
  ASSUME Smooth!SmoothingAssumption, SmoothInv, [Smooth!Next]_(Smooth!vars)
  PROVE  SmoothInv'
<1>1. ASSUME UNCHANGED Smooth!vars PROVE SmoothInv'
  <2>1. UNCHANGED <<tree, there, itr, n_itr, left, right, mean, smoothed, loop>>
    BY <1>1 DEF Smooth!vars
  <2>2. SmTypes' /\ SmRings' /\ SmMean'
    BY <2>1 DEF SmoothInv, SmTypes, SmRings, SmMean
  <2>3. SmWindows'
    <3>1. SmScores => SmScores'
      BY <2>1 DEF SmScores
    <3> QED
      BY <2>1, <3>1 DEF SmoothInv, SmWindows, SmLeft, SmRight
  <2> QED
    BY <2>2, <2>3 DEF SmoothInv
<1> QED
  BY <1>1, SkipKeeps, VisitKeeps, PopLeftKeeps, EndLeftKeeps, AppendRightKeeps, ScoreKeeps,
     ShiftKeeps, VanishKeeps DEF Smooth!Next

\* A page is smoothed with neighbours, and before the first gap with all of them.
LEMMA WindowIsNear ==
  ASSUME Smooth!SmoothingAssumption, tree \subseteq Vas, NEW v \in tree, NEW w \in Vas
  PROVE  /\ w \in WindowIn(tree, v) => w \in Smooth!Neighbours(v)
         /\ w \in Smooth!Neighbours(v) /\ (w <= v \/ Smooth!Contiguous(Smooth!After(0), v))
              => w \in WindowIn(tree, v)
<1> DEFINE first == AfterIn(tree, 0)
<1>1. /\ \A x, y : Smooth!Contiguous(x, y) <=> Filled(tree, x, y)
      /\ Smooth!After(0) = first
  BY TreeIs
<1>2. v \in Int /\ w \in Int /\ MaxVa \in Nat /\ \A x \in Vas : x \in Int /\ x > 0
  BY SmSizes
<1>3. first \in Int /\ first <= v
  <2>1. 0 \in 0 .. MaxVa
    BY <1>2
  <2>2. first \in 1 .. MaxVa + 1 /\ \A x \in tree : x > 0 => first <= x
    BY <2>1, AfterIs
  <2> QED
    BY <1>2, <2>2
<1>4. w \in Smooth!Neighbours(v) <=>
        /\ w \in tree
        /\ \/ w < v /\ v - w <= N /\ Filled(tree, w, v)
           \/ ~(w < v) /\ w - v <= N /\ Filled(tree, v, w)
  BY <1>1, <1>2 DEF Smooth!Neighbours, N
<1>5. w \in WindowIn(tree, v) <=>
        /\ w \in tree
        /\ \/ w <= v /\ v - w <= N /\ Filled(tree, w, v)
           \/ w > v /\ w - v <= N /\ Filled(tree, first, w)
  BY DEF WindowIn
<1> HIDE DEF first
<1>6. w = v => Filled(tree, v, w) /\ Filled(tree, w, v)
  BY <1>2 DEF Filled
<1>7. Filled(tree, first, w) => Filled(tree, v, w)
  BY <1>2, <1>3 DEF Filled
<1>8. Filled(tree, first, v) /\ Filled(tree, v, w) => Filled(tree, first, w)
  BY <1>2, <1>3 DEF Filled
<1>9. N \in Nat
  BY SmSizes
<1>10. w \in WindowIn(tree, v) => w \in Smooth!Neighbours(v)
  BY <1>2, <1>4, <1>5, <1>6, <1>7, <1>9
<1>11. ASSUME w \in Smooth!Neighbours(v), w <= v \/ Filled(tree, first, v)
       PROVE  w \in WindowIn(tree, v)
  <2>1. CASE w < v
    BY <1>2, <1>4, <1>5, <1>11, <2>1
  <2>2. CASE w = v
    BY <1>2, <1>4, <1>5, <1>6, <1>9, <1>11, <2>2
  <2>3. CASE w > v
    <3>1. Filled(tree, v, w) /\ Filled(tree, first, v)
      BY <1>2, <1>4, <1>11, <2>3
    <3> QED
      BY <1>2, <1>4, <1>5, <1>8, <1>11, <2>3, <3>1
  <2> QED
    BY <1>2, <2>1, <2>2, <2>3
<1> QED
  BY <1>1, <1>10, <1>11

\* ... and says what the scores are computed from.
LEMMA SmoothRead ==
  ASSUME Smooth!SmoothingAssumption, SmoothInv
  PROVE  Smooth!SmoothedRight
<1>1. \A v \in Vas : mean[v] = Smooth!Count(left, v) + Smooth!Count(right, v)
  BY DEF SmoothInv, SmMean, MeanIs
<1>2. ASSUME there = tree, NEW v \in Smooth!Scored, NEW w \in Vas
      PROVE  /\ smoothed[v][w] = 0 \/ (smoothed[v][w] = 1 /\ w \in Smooth!Neighbours(v))
             /\ w \in Smooth!Neighbours(v) /\ (w <= v \/ Smooth!Contiguous(Smooth!After(0), v))
                  => smoothed[v][w] = 1
  <2>1. v \in Vas /\ smoothed[v] # Smooth!Nothing
    BY DEF Smooth!Scored, Vas
  <2>2. v \in tree /\ smoothed[v] = WindowMean(tree, v) /\ tree \subseteq Vas
    BY <1>2, <2>1 DEF SmoothInv, SmWindows, SmScores, SmTypes
  <2>3. smoothed[v][w] = IF w \in WindowIn(tree, v) THEN 1 ELSE 0
    BY <2>2 DEF WindowMean
  <2>4. /\ w \in WindowIn(tree, v) => w \in Smooth!Neighbours(v)
        /\ w \in Smooth!Neighbours(v) /\ (w <= v \/ Smooth!Contiguous(Smooth!After(0), v))
             => w \in WindowIn(tree, v)
    BY <2>2, WindowIsNear
  <2> QED
    BY <2>3, <2>4
<1> QED
  BY <1>1, <1>2, Zenon DEF Smooth!SmoothedRight, Vas

(***************************************************************************)
(* The bucket of the hash table: its chain.                                *)
(***************************************************************************)

\* The variables of HashTable, as MCStores places them.
slot == x1
link == x2
keyed == x3
refs == x4
put == x5
got == x6

USE DEF slot, link, keyed, refs, put, got

B == BUCKET_NITEMS
M == Cardinality(TableItems)

\* The number of slots and of items.
LEMMA TbSizes ==
  ASSUME Table!HashTableAssumption
  PROVE  /\ B \in Nat /\ B > 0 /\ B \in 1 .. B /\ Table!Slots = 1 .. B
         /\ NULL \notin TableItems /\ IsFiniteSet(TableItems) /\ M \in Nat
<1>1. B \in Nat \ {0} /\ NULL \notin TableItems
  BY Zenon DEF Table!HashTableAssumption, B
<1>2. IsFiniteSet(TableItems)
  BY Zenon DEF Table!HashTableAssumption, Table!IsFiniteSet, IsFiniteSet
<1>3. M \in Nat
  BY <1>2, FS_CardinalityType DEF M
<1>4. Table!Slots = 1 .. B
  BY Zenon DEF Table!Slots, B
<1> QED
  BY <1>1, <1>2, <1>3, <1>4

\* The items s follow each other from f on along L.
ChainFrom(s, f, L) ==
    /\ s \in Seq(TableItems)
    /\ \A i, j \in 1 .. Len(s) : s[i] = s[j] => i = j
    /\ f = IF Len(s) = 0 THEN NULL ELSE s[1]
    /\ \A i \in 1 .. Len(s) : L[s[i]] = IF i = Len(s) THEN NULL ELSE s[i + 1]

\* A chain is not longer than there are items.
LEMMA ChainShort ==
  ASSUME Table!HashTableAssumption, NEW s, NEW f, NEW L, ChainFrom(s, f, L)
  PROVE  Len(s) \in Nat /\ Len(s) <= M
<1>1. s \in Seq(TableItems) /\ Len(s) \in Nat /\ \A i, j \in 1 .. Len(s) : s[i] = s[j] => i = j
  BY DEF ChainFrom
<1>2. s \in [1 .. Len(s) -> TableItems]
  BY <1>1
<1>3. s \in Injection(1 .. Len(s), TableItems)
  BY <1>1, <1>2 DEF Injection, IsInjective
<1>4. IsFiniteSet(TableItems)
  BY TbSizes, Zenon
<1>5. Cardinality(1 .. Len(s)) <= M
  BY <1>3, <1>4, FS_Injection, Zenon DEF M
<1>6. Cardinality(1 .. Len(s)) = Len(s)
  <2>1. PICK l \in Nat : l = Len(s)
    BY <1>1
  <2>2. Cardinality(1 .. l) = IF 1 > l THEN 0 ELSE l - 1 + 1
    BY FS_Interval
  <2> QED
    BY <2>1, <2>2
<1> QED
  BY <1>1, <1>5, <1>6

\* The walk along L from f, to m links.
WalkFrom(m, f, L) == LET after[n \in 0 .. m] ==
                           IF n = 0 THEN f
                           ELSE IF after[n - 1] = NULL THEN NULL ELSE L[after[n - 1]]
                     IN after

\* The walk of the bucket.
LEMMA WalkOfBucket == Table!Walk = WalkFrom(M, slot[B], link)
<1>1. Table!Cardinality(TableItems) = Cardinality(TableItems)
  BY Zenon DEF Table!Cardinality, Cardinality
<1> QED
  BY <1>1 DEF Table!Walk, WalkFrom, M, B

\* w is such a walk.
Walks(w, m, f, L) == /\ w = [n \in 0 .. m |-> w[n]] /\ w[0] = f
                     /\ \A n \in 1 .. m : w[n] = IF w[n - 1] = NULL THEN NULL ELSE L[w[n - 1]]

\* There is one walk only.
LEMMA WalkUnique ==
  ASSUME NEW m \in Nat, NEW f, NEW L, NEW v, NEW w, Walks(v, m, f, L), Walks(w, m, f, L)
  PROVE  v = w
<1>1. ASSUME NEW T, T = {i \in 0 .. m : v[i] # w[i]}, T # {} PROVE FALSE
  <2>1. T \subseteq Nat
    BY <1>1
  <2>2. PICK i \in T : \A j \in T : i <= j
    BY <1>1, <2>1, LeastNumber
  <2>3. i \in 0 .. m /\ v[i] # w[i]
    BY <1>1
  <2>4. i # 0
    BY <2>3 DEF Walks
  <2>5. i - 1 \in 0 .. m /\ i \in 1 .. m /\ ~(i <= i - 1)
    BY <2>3, <2>4
  <2>6. v[i - 1] = w[i - 1]
    BY <1>1, <2>2, <2>5
  <2> QED
    BY <2>3, <2>5, <2>6 DEF Walks
<1>2. \A i \in 0 .. m : v[i] = w[i]
  BY <1>1
<1> QED
  BY <1>2 DEF Walks

\* Whatever is a walk is the one WalkFrom finds.
LEMMA WalkFound ==
  ASSUME NEW m \in Nat, NEW f, NEW L, NEW w, Walks(w, m, f, L)
  PROVE  WalkFrom(m, f, L) = w
<1> DEFINE F(g) == g = [n \in 0 .. m |-> IF n = 0 THEN f
                          ELSE IF g[n - 1] = NULL THEN NULL ELSE L[g[n - 1]]]
           c == CHOOSE g : F(g)
<1>1. F(w)
  <2>1. ASSUME NEW n \in 0 .. m
        PROVE  w[n] = IF n = 0 THEN f ELSE IF w[n - 1] = NULL THEN NULL ELSE L[w[n - 1]]
    <3>1. n = 0 \/ n \in 1 .. m
      OBVIOUS
    <3> QED
      BY <3>1 DEF Walks
  <2> QED
    BY <2>1 DEF Walks
<1>2. F(c)
  BY <1>1, Zenon
<1>3. Walks(c, m, f, L)
  <2> HIDE DEF c
  <2>1. \A n \in 0 .. m : c[n] = IF n = 0 THEN f ELSE IF c[n - 1] = NULL THEN NULL ELSE L[c[n - 1]]
    BY <1>2
  <2>2. c = [n \in 0 .. m |-> c[n]]
    BY <1>2, <2>1
  <2>3. c[0] = f
    BY <2>1
  <2>4. \A n \in 1 .. m : c[n] = IF c[n - 1] = NULL THEN NULL ELSE L[c[n - 1]]
    BY <2>1
  <2> QED
    BY <2>2, <2>3, <2>4 DEF Walks
<1>4. WalkFrom(m, f, L) = c
  BY DEF WalkFrom
<1>5. c = w
  BY <1>3, WalkUnique
<1> QED
  BY <1>4, <1>5

\* The walk of the bucket goes along its chain, then stays at NULL.
LEMMA WalkAlong ==
  ASSUME Table!HashTableAssumption, NEW s, ChainFrom(s, slot[B], link)
  PROVE  \A n \in 0 .. M : Table!Walk[n] = IF n < Len(s) THEN s[n + 1] ELSE NULL
<1>1. PICK w : w = [n \in 0 .. M |-> IF n < Len(s) THEN s[n + 1] ELSE NULL]
  OBVIOUS
<1>2. M \in Nat /\ Len(s) \in Nat /\ NULL \notin TableItems
  BY TbSizes, ChainShort
<1>3. \A n \in 0 .. M : w[n] = IF n < Len(s) THEN s[n + 1] ELSE NULL
  BY <1>1
<1>4. w[0] = slot[B]
  <2>1. w[0] = IF 0 < Len(s) THEN s[1] ELSE NULL
    BY <1>2, <1>3
  <2> QED
    BY <1>2, <2>1 DEF ChainFrom
<1>5. ASSUME NEW n \in 1 .. M
      PROVE  w[n] = IF w[n - 1] = NULL THEN NULL ELSE link[w[n - 1]]
  <2>1. n \in 0 .. M /\ n - 1 \in 0 .. M /\ n - 1 + 1 = n
    BY <1>2
  <2>2. w[n - 1] = IF n - 1 < Len(s) THEN s[n] ELSE NULL
    BY <1>3, <2>1
  <2>3. CASE n <= Len(s)
    <3>1. n \in 1 .. Len(s) /\ n - 1 < Len(s)
      BY <1>2, <2>3
    <3>2. s[n] \in TableItems /\ link[s[n]] = IF n = Len(s) THEN NULL ELSE s[n + 1]
      BY <3>1 DEF ChainFrom
    <3>3. w[n] = IF n = Len(s) THEN NULL ELSE s[n + 1]
      BY <1>2, <1>3, <2>1, <2>3
    <3> QED
      BY <1>2, <2>2, <3>1, <3>2, <3>3
  <2>4. CASE ~(n <= Len(s))
    <3>1. ~(n < Len(s)) /\ ~(n - 1 < Len(s))
      BY <1>2, <2>4
    <3> QED
      BY <1>3, <2>1, <2>2, <3>1
  <2> QED
    BY <2>3, <2>4
<1>6. Walks(w, M, slot[B], link)
  BY <1>1, <1>3, <1>4, <1>5 DEF Walks
<1>7. Table!Walk = w
  BY <1>2, <1>6, WalkFound, WalkOfBucket
<1> QED
  BY <1>3, <1>7

(***************************************************************************)
(* The bucket of the hash table: what it holds.                            *)
(***************************************************************************)

\* An item is in one slot or at one place of the chain; the last slot heads the chain.
InBucket(S, s, i) == (\E n \in 1 .. B : S[n] = i) \/ (\E j \in 1 .. Len(s) : s[j] = i)
OnePlace(S, s) == /\ \A n, m \in 1 .. B : S[n] # NULL /\ S[n] = S[m] => n = m
                  /\ \A n \in 1 .. B, j \in 1 .. Len(s) : S[n] = s[j] => j = 1
Shape(S, L, s) == ChainFrom(s, S[B], L) /\ OnePlace(S, s)

\* The table has a reference to exactly the items in it ...
Referred(S, s, R) == \A i \in TableItems : /\ R[i] \in {0, 1}
                                           /\ R[i] = 1 <=> InBucket(S, s, i)
\* ... which are those that were put.
Mapped(R, K, P) ==
    /\ \A k \in TableKeys : P[k] # NULL => P[k] \in TableItems /\ R[P[k]] = 1 /\ K[P[k]] = k
    /\ \A i \in TableItems : R[i] = 1 => K[i] \in TableKeys /\ P[K[i]] = i

TbTypes ==
    /\ slot \in [1 .. B -> TableItems \cup {NULL}]
    /\ link \in [TableItems -> TableItems \cup {NULL}]
    /\ keyed \in [TableItems -> TableKeys \cup {NULL}]
    /\ refs \in [TableItems -> Nat]
    /\ put \in [TableKeys -> TableItems \cup {NULL}]
    /\ got \in TableItems \cup {NULL}
Bucket(s) == Shape(slot, link, s) /\ Referred(slot, s, refs)
TbInv == TbTypes /\ Mapped(refs, keyed, put) /\ \E s : Bucket(s)

\* The first of some numbers is one of them, ...
LEMMA FirstOf ==
  ASSUME NEW T, T \subseteq Nat, T # {}
  PROVE  Table!First(T) \in T
<1>1. \E n \in T : \A m \in T : n <= m
  BY LeastNumber
<1> QED
  BY <1>1, Zenon DEF Table!First

\* ... and so is the last below a bound.
LEMMA LastOf ==
  ASSUME NEW b \in Nat, NEW T, T \subseteq 1 .. b, T # {}
  PROVE  (CHOOSE n \in T : \A m \in T : m <= n) \in T
<1>1. PICK U : U = {b - n : n \in T}
  OBVIOUS
<1>2. U \subseteq Nat /\ U # {}
  <2>1. ASSUME NEW u \in U PROVE u \in Nat
    <3>1. PICK n \in T : u = b - n
      BY <1>1
    <3>2. n \in 1 .. b
      BY <3>1
    <3> QED
      BY <3>1, <3>2
  <2> QED
    BY <1>1, <2>1
<1>3. PICK x \in U : \A y \in U : x <= y
  BY <1>2, LeastNumber
<1>4. PICK n \in T : x = b - n
  BY <1>1
<1>5. ASSUME NEW m \in T PROVE m <= n
  <2>1. b - m \in U /\ m \in Nat /\ n \in Nat
    BY <1>1
  <2>2. b - n <= b - m
    BY <1>3, <1>4, <2>1
  <2> QED
    BY <2>1, <2>2
<1> QED
  BY <1>5

\* Where the item of key k is.
LEMMA WhereIs ==
  ASSUME Table!HashTableAssumption, TbTypes, Mapped(refs, keyed, put), NEW s, Bucket(s),
         NEW k \in TableKeys
  PROVE  /\ Table!Direct(k) # {} =>
              \E n \in 1 .. B : n = Table!First(Table!Direct(k)) /\ slot[n] = put[k] /\ put[k] # NULL
         /\ Table!Direct(k) = {} /\ Table!InChain(k) # {} =>
              \E j \in 2 .. Len(s) : j = Table!First(Table!InChain(k)) + 1 /\ s[j] = put[k] /\ put[k] # NULL
         /\ Table!Direct(k) = {} /\ Table!InChain(k) = {} => put[k] = NULL
<1>1. /\ B \in Nat /\ M \in Nat /\ Table!Slots = 1 .. B /\ NULL \notin TableItems
      /\ Len(s) \in Nat /\ Len(s) <= M /\ s \in Seq(TableItems)
  BY TbSizes, ChainShort DEF Bucket, Shape, ChainFrom
<1>2. \A n \in 0 .. M : Table!Walk[n] = IF n < Len(s) THEN s[n + 1] ELSE NULL
  BY WalkAlong DEF Bucket, Shape
<1>3. ASSUME NEW i \in TableItems, InBucket(slot, s, i), keyed[i] = k PROVE put[k] = i /\ put[k] # NULL
  BY <1>1, <1>3 DEF Bucket, Referred, Mapped
<1>4. \A n : n \in Table!Direct(k) <=> n \in 1 .. B /\ slot[n] # NULL /\ keyed[slot[n]] = k
  BY <1>1, Zenon DEF Table!Direct
<1>5. ASSUME NEW n \in Table!Direct(k) PROVE n \in 1 .. B /\ slot[n] = put[k] /\ put[k] # NULL
  <2>1. n \in 1 .. B /\ slot[n] \in TableItems /\ keyed[slot[n]] = k
    BY <1>4, <1>5 DEF TbTypes
  <2>2. InBucket(slot, s, slot[n])
    BY <2>1 DEF InBucket
  <2> QED
    BY <1>3, <2>1, <2>2
<1>6. Table!Cardinality(TableItems) = M
  BY Zenon DEF Table!Cardinality, Cardinality, M
<1>7. \A n : n \in Table!InChain(k) <=> n \in 1 .. M /\ Table!Walk[n] # NULL /\ keyed[Table!Walk[n]] = k
  BY <1>6, Zenon DEF Table!InChain
<1>8. ASSUME NEW n \in Table!InChain(k)
      PROVE  n \in 1 .. M /\ n + 1 \in 2 .. Len(s) /\ s[n + 1] = put[k] /\ put[k] # NULL
  <2>1. n \in 1 .. M /\ n \in 0 .. M /\ Table!Walk[n] # NULL /\ keyed[Table!Walk[n]] = k
    BY <1>1, <1>7, <1>8
  <2>2. n < Len(s) /\ Table!Walk[n] = s[n + 1]
    BY <1>2, <2>1
  <2>3. n + 1 \in 2 .. Len(s) /\ n + 1 \in 1 .. Len(s)
    BY <1>1, <2>1, <2>2
  <2>4. s[n + 1] \in TableItems /\ InBucket(slot, s, s[n + 1])
    BY <1>1, <2>3 DEF InBucket
  <2> QED
    BY <1>3, <2>1, <2>2, <2>3, <2>4
<1>9. Table!Direct(k) # {} =>
              \E n \in 1 .. B : n = Table!First(Table!Direct(k)) /\ slot[n] = put[k] /\ put[k] # NULL
  <2>1. Table!Direct(k) \subseteq Nat
    BY <1>1, <1>5
  <2> QED
    BY <1>5, <2>1, FirstOf
<1>10. Table!InChain(k) # {} =>
         \E j \in 2 .. Len(s) : j = Table!First(Table!InChain(k)) + 1 /\ s[j] = put[k] /\ put[k] # NULL
  <2>1. Table!InChain(k) \subseteq Nat
    BY <1>1, <1>8
  <2> QED
    BY <1>8, <2>1, FirstOf
<1>11. ASSUME put[k] # NULL, Table!Direct(k) = {} PROVE Table!InChain(k) # {}
  <2>1. put[k] \in TableItems /\ refs[put[k]] = 1 /\ keyed[put[k]] = k
    BY <1>11 DEF Mapped
  <2>2. InBucket(slot, s, put[k])
    BY <2>1 DEF Bucket, Referred
  <2>3. ~\E n \in 1 .. B : slot[n] = put[k]
    BY <1>4, <1>11, <2>1
  <2>4. PICK j \in 1 .. Len(s) : s[j] = put[k]
    BY <2>2, <2>3 DEF InBucket
  <2>5. j # 1
    <3>1. Len(s) > 0 => slot[B] = s[1] /\ B \in 1 .. B
      BY <1>1, TbSizes DEF Bucket, Shape, ChainFrom
    <3> QED
      BY <1>1, <2>3, <2>4, <3>1
  <2>6. j - 1 \in 1 .. M /\ j - 1 \in 0 .. M /\ j - 1 < Len(s) /\ j - 1 + 1 = j
    BY <1>1, <2>4, <2>5
  <2>7. Table!Walk[j - 1] = s[j]
    BY <1>2, <2>6
  <2>8. j - 1 \in Table!InChain(k)
    BY <1>1, <1>7, <2>1, <2>4, <2>6, <2>7
  <2> QED
    BY <2>8
<1> QED
  BY <1>9, <1>10, <1>11, Zenon

\* hasht_get finds what was put.
LEMMA LookupIs ==
  ASSUME Table!HashTableAssumption, TbTypes, Mapped(refs, keyed, put), NEW s, Bucket(s),
         NEW k \in TableKeys
  PROVE  Table!Lookup(k) = put[k]
<1>1. CASE Table!Direct(k) # {}
  BY <1>1, WhereIs, Zenon DEF Table!Lookup
<1>2. CASE Table!Direct(k) = {} /\ Table!InChain(k) # {}
  <2>1. PICK j \in 2 .. Len(s) : j = Table!First(Table!InChain(k)) + 1 /\ s[j] = put[k]
    BY <1>2, WhereIs, Zenon
  <2>2. M \in Nat /\ Len(s) \in Nat /\ Len(s) <= M
    BY TbSizes, ChainShort DEF Bucket, Shape
  <2>3. \A n \in 0 .. M : Table!Walk[n] = IF n < Len(s) THEN s[n + 1] ELSE NULL
    BY WalkAlong DEF Bucket, Shape
  <2>4. j - 1 \in 0 .. M /\ j - 1 < Len(s) /\ j - 1 + 1 = j
    BY <2>2
  <2>5. Table!Walk[j - 1] = put[k]
    BY <2>1, <2>3, <2>4
  <2>6. PICK n : n = Table!First(Table!InChain(k))
    OBVIOUS
  <2>7. n \in Nat
    <3>1. Table!InChain(k) \subseteq Nat
      BY <2>2 DEF Table!InChain
    <3> QED
      BY <1>2, <2>6, <3>1, FirstOf
  <2>8. j - 1 = n
    BY <2>1, <2>6, <2>7
  <2> QED
    BY <1>2, <2>5, <2>6, <2>8 DEF Table!Lookup
<1>3. CASE Table!Direct(k) = {} /\ Table!InChain(k) = {}
  BY <1>3, WhereIs, Zenon DEF Table!Lookup
<1> QED
  BY <1>1, <1>2, <1>3, Zenon

(***************************************************************************)
(* The bucket of the hash table: an item in and one out.                   *)
(***************************************************************************)

\* The references once nit has taken the place of o, which may be no item.
RefsMoved(R, R2, nit, o) == \A i \in TableItems :
    R2[i] = IF i = nit THEN 1 ELSE IF i = o THEN 0 ELSE R[i]
\* The links once nit has the place of o.
LinksMoved(L, L2, s, nit, o) ==
    /\ L2[nit] = L[o]
    /\ \A j \in 1 .. Len(s) : s[j] # o => L2[s[j]] = IF L[s[j]] = o THEN nit ELSE L[s[j]]
SlotsMoved(S, S2, nit, o) == \A n \in 1 .. B : S2[n] = IF S[n] = o THEN nit ELSE S[n]

KeysMoved(R2, K, K2, nit, k) == \A i \in TableItems :
    R2[i] = 1 => K2[i] = IF i = nit THEN k ELSE K[i]
Stores(P, P2, k, nit) == P2[k] = nit /\ \A j \in TableKeys : j # k => P2[j] = P[j]

\* An item nothing refers to is not in the bucket.
LEMMA NotThere ==
  ASSUME NEW S, NEW s, NEW R, Referred(S, s, R), NEW i \in TableItems, R[i] = 0
  PROVE  (\A n \in 1 .. B : S[n] # i) /\ (\A j \in 1 .. Len(s) : s[j] # i)
<1>1. ~InBucket(S, s, i)
  BY DEF Referred
<1> QED
  BY <1>1 DEF InBucket

\* A new item takes the place of one in the bucket.
LEMMA ShapeReplaced ==
  ASSUME Table!HashTableAssumption, NEW S, NEW L, NEW s, NEW R, Shape(S, L, s), Referred(S, s, R),
         NEW nit \in TableItems, R[nit] = 0, NEW o \in TableItems, R[o] = 1,
         NEW S2, SlotsMoved(S, S2, nit, o), NEW L2, LinksMoved(L, L2, s, nit, o),
         NEW R2, RefsMoved(R, R2, nit, o)
  PROVE  \E t : Shape(S2, L2, t) /\ Referred(S2, t, R2)
<1>1. /\ B \in Nat /\ B \in 1 .. B /\ NULL \notin TableItems /\ o # nit
      /\ s \in Seq(TableItems) /\ Len(s) \in Nat
  BY TbSizes DEF Shape, ChainFrom
<1>2. (\A n \in 1 .. B : S[n] # nit) /\ (\A j \in 1 .. Len(s) : s[j] # nit /\ s[j] \in TableItems)
  BY <1>1, NotThere
<1>3. PICK t : t = [j \in 1 .. Len(s) |-> IF s[j] = o THEN nit ELSE s[j]]
  OBVIOUS
<1>4. \A j \in 1 .. Len(s) : t[j] = (IF s[j] = o THEN nit ELSE s[j]) /\ t[j] \in TableItems
  BY <1>2, <1>3
<1>5. t \in Seq(TableItems) /\ Len(t) = Len(s)
  BY <1>1, <1>3, <1>4
<1>6. ChainFrom(t, S2[B], L2)
  <2>1. \A i, j \in 1 .. Len(s) : t[i] = t[j] => i = j
    BY <1>2, <1>4 DEF Shape, ChainFrom
  <2>2. S2[B] = IF Len(s) = 0 THEN NULL ELSE t[1]
    <3>1. S[B] = IF Len(s) = 0 THEN NULL ELSE s[1]
      BY DEF Shape, ChainFrom
    <3>2. S2[B] = IF S[B] = o THEN nit ELSE S[B]
      BY <1>1 DEF SlotsMoved
    <3>3. Len(s) # 0 => 1 \in 1 .. Len(s)
      BY <1>1
    <3> QED
      BY <1>1, <1>4, <3>1, <3>2, <3>3
  <2>3. ASSUME NEW i \in 1 .. Len(s) PROVE L2[t[i]] = IF i = Len(s) THEN NULL ELSE t[i + 1]
    <3>1. L[s[i]] = IF i = Len(s) THEN NULL ELSE s[i + 1]
      BY DEF Shape, ChainFrom
    <3>2. i # Len(s) => i + 1 \in 1 .. Len(s) /\ i + 1 # i
      BY <1>1
    <3>3. CASE s[i] = o
      <4>1. t[i] = nit /\ L2[nit] = L[s[i]]
        BY <1>4, <3>3 DEF LinksMoved
      <4>2. i # Len(s) => s[i + 1] # o
        BY <3>2, <3>3 DEF Shape, ChainFrom
      <4> QED
        BY <1>4, <3>1, <3>2, <4>1, <4>2
    <3>4. CASE s[i] # o
      <4>1. t[i] = s[i] /\ L2[s[i]] = IF L[s[i]] = o THEN nit ELSE L[s[i]]
        BY <1>4, <3>4 DEF LinksMoved
      <4> QED
        BY <1>1, <1>4, <3>1, <3>2, <4>1
    <3> QED
      BY <3>3, <3>4
  <2> QED
    BY <1>5, <2>1, <2>2, <2>3 DEF ChainFrom
<1>7. OnePlace(S2, t)
  <2>1. \A n \in 1 .. B : S2[n] = IF S[n] = o THEN nit ELSE S[n]
    BY DEF SlotsMoved
  <2>2. ASSUME NEW n \in 1 .. B, NEW m \in 1 .. B, S2[n] # NULL, S2[n] = S2[m] PROVE n = m
    <3>1. S[n] # NULL /\ S[n] = S[m]
      BY <1>1, <1>2, <2>1, <2>2
    <3> QED
      BY <3>1 DEF Shape, OnePlace
  <2>3. ASSUME NEW n \in 1 .. B, NEW j \in 1 .. Len(t), S2[n] = t[j] PROVE j = 1
    <3>1. j \in 1 .. Len(s)
      BY <1>5
    <3>2. S[n] = s[j]
      BY <1>2, <1>4, <2>1, <2>3, <3>1
    <3> QED
      BY <3>1, <3>2 DEF Shape, OnePlace
  <2> QED
    BY <2>2, <2>3 DEF OnePlace
<1>8. ASSUME NEW i \in TableItems
      PROVE  InBucket(S2, t, i) <=> i = nit \/ (i # o /\ InBucket(S, s, i))
  <2>1. \A n \in 1 .. B : S2[n] = IF S[n] = o THEN nit ELSE S[n]
    BY DEF SlotsMoved
  <2>2. InBucket(S, s, o)
    BY DEF Referred
  <2>3. InBucket(S2, t, i) <=> (\E n \in 1 .. B : S2[n] = i) \/ (\E j \in 1 .. Len(s) : t[j] = i)
    BY <1>5 DEF InBucket
  <2>4. CASE i = nit
    BY <1>4, <2>1, <2>2, <2>3, <2>4 DEF InBucket
  <2>5. CASE i = o
    BY <1>1, <1>4, <2>1, <2>3, <2>5
  <2>6. CASE i # nit /\ i # o
    BY <1>4, <2>1, <2>3, <2>6 DEF InBucket
  <2> QED
    BY <1>1, <2>4, <2>5, <2>6
<1>9. Referred(S2, t, R2)
  BY <1>1, <1>8 DEF Referred, RefsMoved
<1> QED
  BY <1>6, <1>7, <1>9 DEF Shape

\* A new item gets an empty slot, or the last one, in front of the chain.
LEMMA ShapeInserted ==
  ASSUME Table!HashTableAssumption, NEW S, NEW L, NEW s, NEW R, Shape(S, L, s), Referred(S, s, R),
         NEW nit \in TableItems, R[nit] = 0,
         NEW d \in 1 .. B, S[d] = NULL \/ d = B,
         NEW S2, \A n \in 1 .. B : S2[n] = IF n = d THEN nit ELSE S[n],
         NEW L2, L2[nit] = S[d], \A i \in TableItems : i # nit => L2[i] = L[i],
         NEW R2, RefsMoved(R, R2, nit, NULL)
  PROVE  \E t : Shape(S2, L2, t) /\ Referred(S2, t, R2)
<1>1. /\ B \in Nat /\ B \in 1 .. B /\ NULL \notin TableItems
      /\ s \in Seq(TableItems) /\ Len(s) \in Nat
  BY TbSizes DEF Shape, ChainFrom
<1>2. (\A n \in 1 .. B : S[n] # nit) /\ (\A j \in 1 .. Len(s) : s[j] # nit /\ s[j] \in TableItems)
  BY <1>1, NotThere
<1>3. /\ S[B] = IF Len(s) = 0 THEN NULL ELSE s[1]
      /\ \A i \in 1 .. Len(s) : L2[s[i]] = IF i = Len(s) THEN NULL ELSE s[i + 1]
  BY <1>2 DEF Shape, ChainFrom
<1>4. CASE d = B
  <2>1. PICK l : l \in Nat /\ l = Len(s) + 1 /\ l > 0
    BY <1>1
  <2>2. PICK t : t = [j \in 1 .. l |-> IF j = 1 THEN nit ELSE s[j - 1]]
    OBVIOUS
  <2>3. \A j \in 1 .. l : j # 1 => j - 1 \in 1 .. Len(s)
    BY <1>1, <2>1
  <2>4. \A j \in 1 .. l : t[j] = (IF j = 1 THEN nit ELSE s[j - 1]) /\ t[j] \in TableItems
    BY <1>2, <2>2, <2>3
  <2>5. t \in Seq(TableItems) /\ Len(t) = l
    BY <2>1, <2>2, <2>4
  <2>6. ChainFrom(t, S2[B], L2)
    <3>1. ASSUME NEW i \in 1 .. l, NEW j \in 1 .. l, t[i] = t[j] PROVE i = j
      <4>1. CASE i = 1 \/ j = 1
        BY <1>2, <2>3, <2>4, <3>1, <4>1
      <4>2. CASE i # 1 /\ j # 1
        <5>1. i - 1 \in 1 .. Len(s) /\ j - 1 \in 1 .. Len(s) /\ s[i - 1] = s[j - 1]
          BY <2>3, <2>4, <3>1, <4>2
        <5>2. i - 1 = j - 1
          BY <5>1 DEF Shape, ChainFrom
        <5> QED
          BY <2>1, <5>2
      <4> QED
        BY <4>1, <4>2
    <3>2. S2[B] = t[1]
      BY <1>1, <1>4, <2>1, <2>4
    <3>3. ASSUME NEW i \in 1 .. l PROVE L2[t[i]] = IF i = l THEN NULL ELSE t[i + 1]
      <4>1. i # l => i + 1 \in 1 .. l /\ i + 1 # 1 /\ i + 1 - 1 = i
        BY <2>1
      <4>2. i # l => t[i + 1] = s[i]
        BY <2>4, <4>1
      <4>3. CASE i = 1
        <5>1. L2[t[i]] = S[B]
          BY <1>4, <2>4, <4>3
        <5> QED
          BY <1>1, <1>3, <2>1, <4>2, <4>3, <5>1
      <4>4. CASE i # 1
        <5>1. i - 1 \in 1 .. Len(s) /\ t[i] = s[i - 1] /\ i - 1 + 1 = i
          BY <2>1, <2>3, <2>4, <4>4
        <5>2. L2[s[i - 1]] = IF i - 1 = Len(s) THEN NULL ELSE s[i]
          BY <1>3, <5>1
        <5>3. i - 1 = Len(s) <=> i = l
          BY <1>1, <2>1
        <5> QED
          BY <4>2, <5>1, <5>2, <5>3
      <4> QED
        BY <4>3, <4>4
    <3> QED
      BY <2>1, <2>5, <3>1, <3>2, <3>3 DEF ChainFrom
  <2>7. OnePlace(S2, t)
    <3>1. ASSUME NEW n \in 1 .. B, NEW m \in 1 .. B, S2[n] # NULL, S2[n] = S2[m] PROVE n = m
      BY <1>2, <3>1 DEF Shape, OnePlace
    <3>2. ASSUME NEW n \in 1 .. B, NEW j \in 1 .. Len(t), S2[n] = t[j], j # 1 PROVE FALSE
      <4>1. j \in 1 .. l /\ j - 1 \in 1 .. Len(s) /\ t[j] = s[j - 1]
        BY <2>3, <2>4, <2>5, <3>2
      <4>2. n # B /\ S[n] = s[j - 1]
        BY <1>2, <1>4, <3>2, <4>1
      <4>3. j - 1 = 1
        BY <4>1, <4>2 DEF Shape, OnePlace
      <4>4. S[n] = S[B] /\ S[n] # NULL
        BY <1>1, <1>2, <1>3, <4>1, <4>2, <4>3
      <4> QED
        BY <1>1, <4>2, <4>4 DEF Shape, OnePlace
    <3> QED
      BY <3>1, <3>2 DEF OnePlace
  <2>8. ASSUME NEW i \in TableItems PROVE InBucket(S2, t, i) <=> i = nit \/ InBucket(S, s, i)
    <3>1. InBucket(S2, t, i) <=> (\E n \in 1 .. B : S2[n] = i) \/ (\E j \in 1 .. l : t[j] = i)
      BY <2>5 DEF InBucket
    <3>2. CASE i = nit
      BY <2>1, <2>4, <3>1, <3>2
    <3>3. CASE i # nit
      <4>1. (\E j \in 1 .. l : t[j] = i) <=> (\E j \in 1 .. Len(s) : s[j] = i)
        <5>1. ASSUME NEW j \in 1 .. l, t[j] = i PROVE \E m \in 1 .. Len(s) : s[m] = i
          BY <2>3, <2>4, <3>3, <5>1
        <5>2. ASSUME NEW j \in 1 .. Len(s), s[j] = i PROVE \E m \in 1 .. l : t[m] = i
          <6>1. j + 1 \in 1 .. l /\ j + 1 # 1 /\ j + 1 - 1 = j
            BY <1>1, <2>1
          <6> QED
            BY <2>4, <5>2, <6>1
        <5> QED
          BY <5>1, <5>2
      <4>2. (\E n \in 1 .. B : S2[n] = i) <=> (\E n \in 1 .. B : n # B /\ S[n] = i)
        BY <1>4, <3>3
      <4>3. S[B] = i => \E j \in 1 .. Len(s) : s[j] = i
        BY <1>1, <1>3
      <4> QED
        BY <3>1, <3>3, <4>1, <4>2, <4>3 DEF InBucket
    <3> QED
      BY <3>2, <3>3
  <2>9. Referred(S2, t, R2)
    BY <1>1, <2>8 DEF Referred, RefsMoved
  <2> QED
    BY <2>6, <2>7, <2>9 DEF Shape
<1>5. CASE d # B
  <2>1. S[d] = NULL
    BY <1>5
  <2>2. ChainFrom(s, S2[B], L2)
    <3>1. S2[B] = S[B]
      BY <1>1, <1>5
    <3> QED
      BY <1>3, <3>1 DEF Shape, ChainFrom
  <2>3. OnePlace(S2, s)
    <3>1. ASSUME NEW n \in 1 .. B, NEW m \in 1 .. B, S2[n] # NULL, S2[n] = S2[m] PROVE n = m
      BY <1>2, <3>1 DEF Shape, OnePlace
    <3>2. ASSUME NEW n \in 1 .. B, NEW j \in 1 .. Len(s), S2[n] = s[j] PROVE j = 1
      BY <1>2, <3>2 DEF Shape, OnePlace
    <3> QED
      BY <3>1, <3>2 DEF OnePlace
  <2>4. ASSUME NEW i \in TableItems PROVE InBucket(S2, s, i) <=> i = nit \/ InBucket(S, s, i)
    <3>1. (\E n \in 1 .. B : S2[n] = i) <=> i = nit \/ \E n \in 1 .. B : S[n] = i
      BY <1>1, <2>1
    <3> QED
      BY <3>1, Zenon DEF InBucket
  <2>5. Referred(S2, s, R2)
    BY <1>1, <2>4 DEF Referred, RefsMoved
  <2> QED
    BY <2>2, <2>3, <2>5 DEF Shape
<1> QED
  BY <1>4, <1>5

\* A new item gets key k, and the one that had it before, if any, goes.
LEMMA MappedAnew ==
  ASSUME Table!HashTableAssumption, NEW R, NEW K, NEW P,
         Mapped(R, K, P), NEW nit \in TableItems, R[nit] = 0, NEW k \in TableKeys,
         NEW R2, RefsMoved(R, R2, nit, P[k]),
         NEW K2, KeysMoved(R2, K, K2, nit, k), NEW P2, Stores(P, P2, k, nit)
  PROVE  Mapped(R2, K2, P2)
<1>1. NULL \notin TableItems /\ P2[k] = nit /\ \A j \in TableKeys : j # k => P2[j] = P[j]
  BY TbSizes DEF Stores
<1>2. R2[nit] = 1 /\ K2[nit] = k /\ P[k] # nit
  BY <1>1 DEF RefsMoved, KeysMoved, Mapped
<1>3. ASSUME NEW j \in TableKeys, P2[j] # NULL
      PROVE  P2[j] \in TableItems /\ R2[P2[j]] = 1 /\ K2[P2[j]] = j
  <2>1. CASE j = k
    BY <1>1, <1>2, <2>1
  <2>2. CASE j # k
    <3>1. P2[j] = P[j] /\ P[j] \in TableItems /\ R[P[j]] = 1 /\ K[P[j]] = j
      BY <1>1, <1>3, <2>2 DEF Mapped
    <3>2. P[j] # nit /\ P[j] # P[k]
      BY <1>1, <2>2, <3>1 DEF Mapped
    <3>3. R2[P[j]] = 1
      BY <3>1, <3>2 DEF RefsMoved
    <3> QED
      BY <3>1, <3>2, <3>3 DEF KeysMoved
  <2> QED
    BY <2>1, <2>2
<1>4. ASSUME NEW i \in TableItems, R2[i] = 1 PROVE K2[i] \in TableKeys /\ P2[K2[i]] = i
  <2>1. CASE i = nit
    BY <1>1, <1>2, <2>1
  <2>2. CASE i # nit
    <3>1. R[i] = 1 /\ i # P[k] /\ K2[i] = K[i]
      BY <1>4, <2>2 DEF RefsMoved, KeysMoved
    <3>2. K[i] \in TableKeys /\ P[K[i]] = i
      BY <3>1 DEF Mapped
    <3> QED
      BY <1>1, <3>1, <3>2
  <2> QED
    BY <2>1, <2>2
<1> QED
  BY <1>3, <1>4 DEF Mapped

(***************************************************************************)
(* The bucket of the hash table: its steps.                                *)
(***************************************************************************)

\* At first the bucket is empty.
LEMMA TbInit ==
  ASSUME Table!HashTableAssumption, Table!Init
  PROVE  TbInv
<1>1. NULL \notin TableItems /\ B \in 1 .. B /\ Table!Slots = 1 .. B
  BY TbSizes
<1>2. /\ slot = [n \in 1 .. B |-> NULL] /\ link = [i \in TableItems |-> NULL]
      /\ keyed = [i \in TableItems |-> NULL] /\ refs = [i \in TableItems |-> 0]
      /\ put = [k \in TableKeys |-> NULL] /\ got = NULL
  BY <1>1 DEF Table!Init
<1>3. TbTypes
  BY <1>2 DEF TbTypes
<1>4. Mapped(refs, keyed, put)
  BY <1>2 DEF Mapped
<1> DEFINE s == <<>>
<1>5. s \in Seq(TableItems) /\ Len(s) = 0
  OBVIOUS
<1> HIDE DEF s
<1>6. 1 .. Len(s) = {}
  BY <1>5
<1>7. Shape(slot, link, s)
  <2>1. slot[B] = NULL
    BY <1>1, <1>2
  <2>2. ChainFrom(s, slot[B], link)
    BY <1>5, <1>6, <2>1 DEF ChainFrom
  <2>3. OnePlace(slot, s)
    BY <1>2, <1>6 DEF OnePlace
  <2> QED
    BY <2>2, <2>3 DEF Shape
<1>8. Referred(slot, s, refs)
  BY <1>1, <1>2, <1>6 DEF Referred, InBucket
<1> QED
  BY <1>3, <1>4, <1>7, <1>8 DEF TbInv, Bucket

\* hasht_get forgets the keys of items nothing refers to.
LEMMA GetKeeps ==
  ASSUME Table!HashTableAssumption, TbInv, NEW k \in TableKeys, Table!hasht_get(k)
  PROVE  TbInv'
<1>1. PICK s : Bucket(s)
  BY DEF TbInv
<1>2. TbTypes /\ Mapped(refs, keyed, put)
  BY DEF TbInv
<1>3. /\ got' = put[k] /\ slot' = slot /\ link' = link /\ refs' = refs /\ put' = put
      /\ keyed' = [i \in TableItems |-> IF refs[i] = 0 THEN NULL ELSE keyed[i]]
  BY <1>1, <1>2, LookupIs DEF Table!hasht_get
<1>4. TbTypes'
  BY <1>2, <1>3 DEF TbTypes
<1>5. Mapped(refs', keyed', put')
  BY <1>2, <1>3 DEF Mapped
<1>6. Shape(slot', link', s) /\ Referred(slot', s, refs')
  BY <1>1, <1>3 DEF Bucket
<1> QED
  BY <1>4, <1>5, <1>6 DEF TbInv, Bucket

\* The item hasht_put stores is a free one.
LEMMA FreeItem ==
  ASSUME TbTypes, NEW k, NEW cas, Table!hasht_put(k, cas)
  PROVE  \E nit \in TableItems :
           /\ nit = (CHOOSE i \in Table!Free : TRUE) /\ refs[nit] = 0 /\ nit # got
<1>1. Table!Free # {}
  BY Zenon DEF Table!hasht_put
<1>2. (CHOOSE i \in Table!Free : TRUE) \in Table!Free
  BY <1>1
<1> QED
  BY <1>2 DEF Table!Free

\* What becomes of the keys: the one of the new item, of those let go, of the others.
PutKeys(k, nit) ==
    keyed' = [i \in TableItems |-> IF i = nit /\ refs'[i] = 1 THEN k
                                   ELSE IF refs'[i] = 0 /\ i # got THEN NULL ELSE keyed[i]]
PutPlaces(k, nit) ==
    \/ UNCHANGED <<slot, link, refs, put>>
    \/ /\ put' = [put EXCEPT ![k] = nit]
       /\ \/ Table!Direct(k) # {} /\ Table!ReplaceDirect(nit, Table!First(Table!Direct(k)))
          \/ /\ Table!Direct(k) = {} /\ Table!InChain(k) # {}
             /\ Table!ReplaceChained(nit, Table!First(Table!InChain(k)))
          \/ Table!Direct(k) = {} /\ Table!InChain(k) = {} /\ Table!Insert(nit)

\* The four things hasht_put can do.
LEMMA PutIs ==
  ASSUME NEW k, NEW cas, Table!hasht_put(k, cas), NEW nit, nit = CHOOSE i \in Table!Free : TRUE
  PROVE  got' = got /\ PutKeys(k, nit) /\ PutPlaces(k, nit)
<1>1. got' = got /\ PutKeys(k, nit)
  BY DEF Table!hasht_put, PutKeys
<1>2. CASE Table!Direct(k) # {}
  BY <1>1, <1>2, Zenon DEF Table!hasht_put, PutPlaces
<1>3. CASE Table!Direct(k) = {}
  BY <1>1, <1>3, Zenon DEF Table!hasht_put, PutPlaces
<1> QED
  BY <1>2, <1>3

\* The item nit is stored under k.
LEMMA PutStored ==
  ASSUME Table!HashTableAssumption, TbTypes, Mapped(refs, keyed, put), NEW k \in TableKeys,
         NEW nit \in TableItems, refs[nit] = 0, got' = got, PutKeys(k, nit),
         put' = [put EXCEPT ![k] = nit],
         slot' \in [1 .. B -> TableItems \cup {NULL}],
         link' \in [TableItems -> TableItems \cup {NULL}],
         refs' \in [TableItems -> Nat],
         RefsMoved(refs, refs', nit, put[k]),
         \E t : Shape(slot', link', t) /\ Referred(slot', t, refs')
  PROVE  TbInv'
<1>1. TbTypes'
  BY DEF TbTypes, PutKeys
<1>2. Stores(put, put', k, nit)
  BY DEF TbTypes, Stores
<1>3. KeysMoved(refs', keyed, keyed', nit, k)
  BY DEF PutKeys, KeysMoved
<1>4. Mapped(refs', keyed', put')
  BY <1>2, <1>3, MappedAnew, Zenon
<1> QED
  BY <1>1, <1>4 DEF TbInv, Bucket

\* References move from one item to another.
LEMMA MoveIs ==
  ASSUME TbTypes, NEW nit \in TableItems, refs[nit] = 0, NEW o \in TableItems, refs[o] = 1,
         refs' = Table!Move(o, nit)
  PROVE  refs' \in [TableItems -> Nat] /\ RefsMoved(refs, refs', nit, o)
<1>1. refs \in [TableItems -> Nat]
  BY DEF TbTypes
<1>2. refs' = [refs EXCEPT ![nit] = @ + 1, ![o] = @ - 1]
  BY DEF Table!Move
<1>3. \A i \in TableItems : refs'[i] = IF i = nit THEN 1 ELSE IF i = o THEN 0 ELSE refs[i]
  BY <1>1, <1>2
<1>4. refs' \in [TableItems -> Nat]
  <2>1. refs' = [i \in TableItems |-> refs'[i]]
    BY <1>1, <1>2
  <2>2. \A i \in TableItems : refs'[i] \in Nat
    BY <1>1, <1>3
  <2> QED
    BY <2>1, <2>2
<1> QED
  BY <1>3, <1>4 DEF RefsMoved

\* What both kinds of replacement rely on: an item of the bucket, and a free one.
LEMMA ReplacedItem ==
  ASSUME Table!HashTableAssumption, TbTypes, Mapped(refs, keyed, put), NEW s, Bucket(s),
         NEW k \in TableKeys, put[k] # NULL, NEW nit \in TableItems, refs[nit] = 0
  PROVE  /\ put[k] \in TableItems /\ refs[put[k]] = 1 /\ put[k] # nit
         /\ \A j \in 1 .. Len(s) : s[j] \in TableItems /\ s[j] # nit
         /\ \A j \in 1 .. Len(s) : link[s[j]] = IF j = Len(s) THEN NULL ELSE s[j + 1]
         /\ NULL \notin TableItems /\ Len(s) \in Nat
<1>1. put[k] \in TableItems /\ refs[put[k]] = 1
  BY DEF Mapped
<1>2. s \in Seq(TableItems) /\ Len(s) \in Nat
  BY DEF Bucket, Shape, ChainFrom
<1>3. \A j \in 1 .. Len(s) : s[j] \in TableItems /\ s[j] # nit
  BY <1>2, NotThere DEF Bucket
<1>4. \A j \in 1 .. Len(s) : link[s[j]] = IF j = Len(s) THEN NULL ELSE s[j + 1]
  BY DEF Bucket, Shape, ChainFrom
<1> QED
  BY <1>1, <1>2, <1>3, <1>4, TbSizes

\* hasht_put replaces the item of a slot.
LEMMA DirectMoves ==
  ASSUME Table!HashTableAssumption, TbTypes, Mapped(refs, keyed, put), NEW s, Bucket(s),
         NEW k \in TableKeys, put[k] # NULL, NEW nit \in TableItems, refs[nit] = 0,
         NEW n \in 1 .. B, slot[n] = put[k], Table!ReplaceDirect(nit, n)
  PROVE  /\ slot' \in [1 .. B -> TableItems \cup {NULL}]
         /\ link' \in [TableItems -> TableItems \cup {NULL}]
         /\ refs' \in [TableItems -> Nat] /\ RefsMoved(refs, refs', nit, put[k])
         /\ SlotsMoved(slot, slot', nit, put[k]) /\ LinksMoved(link, link', s, nit, put[k])
<1>1. PICK o : o = put[k]
  OBVIOUS
<1>2. /\ slot \in [1 .. B -> TableItems \cup {NULL}] /\ link \in [TableItems -> TableItems \cup {NULL}]
      /\ slot[n] = o
  BY <1>1 DEF TbTypes
<1>3. /\ o \in TableItems /\ refs[o] = 1 /\ o # nit
      /\ \A j \in 1 .. Len(s) : s[j] \in TableItems /\ s[j] # nit
      /\ \A j \in 1 .. Len(s) : link[s[j]] = IF j = Len(s) THEN NULL ELSE s[j + 1]
      /\ NULL \notin TableItems /\ Len(s) \in Nat
  BY <1>1, ReplacedItem
<1>4. /\ slot' = [slot EXCEPT ![n] = nit]
      /\ link' = [link EXCEPT ![nit] = link[o], ![o] = NULL]
      /\ refs' = Table!Move(o, nit)
  BY <1>2, Zenon DEF Table!ReplaceDirect
<1>5. refs' \in [TableItems -> Nat] /\ RefsMoved(refs, refs', nit, o)
  BY <1>3, <1>4, MoveIs
<1>6. slot' \in [1 .. B -> TableItems \cup {NULL}] /\ link' \in [TableItems -> TableItems \cup {NULL}]
  BY <1>2, <1>3, <1>4
<1>7. SlotsMoved(slot, slot', nit, o)
  <2>1. \A m \in 1 .. B : slot[m] = o => m = n
    BY <1>2, <1>3 DEF Bucket, Shape, OnePlace
  <2> QED
    BY <1>2, <1>4, <2>1 DEF SlotsMoved
<1>8. LinksMoved(link, link', s, nit, o)
  <2>1. link'[nit] = link[o]
    BY <1>2, <1>3, <1>4
  <2>2. ASSUME NEW j \in 1 .. Len(s), s[j] # o
        PROVE  link'[s[j]] = IF link[s[j]] = o THEN nit ELSE link[s[j]]
    <3>1. link'[s[j]] = link[s[j]]
      BY <1>2, <1>3, <1>4, <2>2
    <3>2. link[s[j]] # o
      <4>1. CASE j = Len(s)
        BY <1>3, <4>1
      <4>2. CASE j # Len(s)
        <5>1. j + 1 \in 1 .. Len(s) /\ j + 1 # 1
          BY <1>3, <4>2
        <5>2. slot[n] # s[j + 1]
          BY <5>1 DEF Bucket, Shape, OnePlace
        <5> QED
          BY <1>2, <1>3, <4>2, <5>2
      <4> QED
        BY <4>1, <4>2
    <3> QED
      BY <3>1, <3>2
  <2> QED
    BY <2>1, <2>2 DEF LinksMoved
<1> QED
  BY <1>1, <1>5, <1>6, <1>7, <1>8

\* hasht_put replaces an item of the chain.
LEMMA ChainedMoves ==
  ASSUME Table!HashTableAssumption, TbTypes, Mapped(refs, keyed, put), NEW s, Bucket(s),
         NEW k \in TableKeys, put[k] # NULL, NEW nit \in TableItems, refs[nit] = 0,
         NEW j \in 2 .. Len(s), s[j] = put[k], Table!ReplaceChained(nit, j - 1)
  PROVE  /\ slot' \in [1 .. B -> TableItems \cup {NULL}]
         /\ link' \in [TableItems -> TableItems \cup {NULL}]
         /\ refs' \in [TableItems -> Nat] /\ RefsMoved(refs, refs', nit, put[k])
         /\ SlotsMoved(slot, slot', nit, put[k]) /\ LinksMoved(link, link', s, nit, put[k])
<1>1. PICK o : o = put[k]
  OBVIOUS
<1>2. slot \in [1 .. B -> TableItems \cup {NULL}] /\ link \in [TableItems -> TableItems \cup {NULL}]
  BY DEF TbTypes
<1>3. /\ o \in TableItems /\ refs[o] = 1 /\ o # nit
      /\ \A i \in 1 .. Len(s) : s[i] \in TableItems /\ s[i] # nit
      /\ \A i \in 1 .. Len(s) : link[s[i]] = IF i = Len(s) THEN NULL ELSE s[i + 1]
      /\ NULL \notin TableItems /\ Len(s) \in Nat
  BY <1>1, ReplacedItem
<1>4. j \in 1 .. Len(s) /\ j - 1 \in 1 .. Len(s) /\ s[j] = o /\ j - 1 # j /\ j # 1
  BY <1>1, <1>3
<1>5. PICK p \in TableItems : p = s[j - 1]
  BY <1>3, <1>4
<1>6. \A i, h \in 1 .. Len(s) : s[i] = s[h] => i = h
  BY DEF Bucket, Shape, ChainFrom
<1>7. p # o /\ p # nit
  BY <1>3, <1>4, <1>5, <1>6
<1>8. Table!Walk[j - 1] = o /\ Table!Walk[j - 1 - 1] = p
  <2>1. M \in Nat /\ Len(s) <= M
    BY TbSizes, ChainShort DEF Bucket, Shape
  <2>2. \A m \in 0 .. M : Table!Walk[m] = IF m < Len(s) THEN s[m + 1] ELSE NULL
    BY WalkAlong DEF Bucket, Shape
  <2>3. j - 1 \in 0 .. M /\ j - 1 < Len(s) /\ j - 1 + 1 = j
    BY <1>3, <2>1
  <2>4. j - 1 - 1 \in 0 .. M /\ j - 1 - 1 < Len(s) /\ j - 1 - 1 + 1 = j - 1
    BY <1>3, <2>1
  <2> QED
    BY <1>4, <1>5, <2>2, <2>3, <2>4
<1>9. /\ slot' = slot
      /\ link' = [link EXCEPT ![nit] = link[o], ![p] = nit, ![o] = NULL]
      /\ refs' = Table!Move(o, nit)
  BY <1>8, Zenon DEF Table!ReplaceChained
<1>10. refs' \in [TableItems -> Nat] /\ RefsMoved(refs, refs', nit, o)
  BY <1>3, <1>9, MoveIs
<1>11. slot' \in [1 .. B -> TableItems \cup {NULL}] /\ link' \in [TableItems -> TableItems \cup {NULL}]
  BY <1>2, <1>3, <1>9
<1>12. SlotsMoved(slot, slot', nit, o)
  <2>1. \A m \in 1 .. B : slot[m] # o
    BY <1>4 DEF Bucket, Shape, OnePlace
  <2> QED
    BY <1>9, <2>1 DEF SlotsMoved
<1>13. LinksMoved(link, link', s, nit, o)
  <2>1. link'[nit] = link[o]
    BY <1>2, <1>3, <1>7, <1>9
  <2>2. ASSUME NEW i \in 1 .. Len(s), s[i] # o
        PROVE  link'[s[i]] = IF link[s[i]] = o THEN nit ELSE link[s[i]]
    <3>1. CASE i = j - 1
      <4>1. link[p] = o
        BY <1>3, <1>4, <1>5
      <4>2. link'[p] = nit
        BY <1>2, <1>7, <1>9
      <4> QED
        BY <1>5, <3>1, <4>1, <4>2
    <3>2. CASE i # j - 1
      <4>1. s[i] # p /\ s[i] # nit /\ s[i] \in TableItems
        BY <1>3, <1>4, <1>5, <1>6, <3>2
      <4>2. link'[s[i]] = link[s[i]]
        BY <1>2, <1>9, <2>2, <4>1
      <4>3. link[s[i]] # o
        <5>1. i # Len(s) => i + 1 \in 1 .. Len(s) /\ i + 1 # j
          BY <1>3, <3>2
        <5>2. i # Len(s) => s[i + 1] # o
          BY <1>4, <1>6, <5>1
        <5> QED
          BY <1>3, <5>2
      <4> QED
        BY <4>2, <4>3
    <3> QED
      BY <3>1, <3>2
  <2> QED
    BY <2>1, <2>2 DEF LinksMoved
<1> QED
  BY <1>1, <1>10, <1>11, <1>12, <1>13

\* hasht_put inserts an item of a new key.
LEMMA InsertMoves ==
  ASSUME Table!HashTableAssumption, TbTypes, NEW s, Bucket(s),
         NEW nit \in TableItems, refs[nit] = 0, Table!Insert(nit)
  PROVE  /\ slot' \in [1 .. B -> TableItems \cup {NULL}]
         /\ link' \in [TableItems -> TableItems \cup {NULL}]
         /\ refs' \in [TableItems -> Nat] /\ RefsMoved(refs, refs', nit, NULL)
         /\ \E t : Shape(slot', link', t) /\ Referred(slot', t, refs')
<1>1. /\ slot \in [1 .. B -> TableItems \cup {NULL}] /\ link \in [TableItems -> TableItems \cup {NULL}]
      /\ refs \in [TableItems -> Nat]
  BY DEF TbTypes
<1>2. B \in Nat /\ B \in 1 .. B /\ Table!Slots = 1 .. B /\ NULL \notin TableItems
  BY TbSizes
<1>3. PICK E : E = {n \in 1 .. B : slot[n] = NULL}
  OBVIOUS
<1>4. PICK d : d = IF E = {} THEN B ELSE CHOOSE n \in E : \A m \in E : m <= n
  OBVIOUS
<1>5. d \in 1 .. B /\ (slot[d] = NULL \/ d = B)
  <2>1. E \subseteq 1 .. B
    BY <1>3
  <2>2. CASE E # {}
    <3>1. d \in E
      BY <1>2, <1>4, <2>1, <2>2, LastOf
    <3> QED
      BY <1>3, <3>1
  <2>3. CASE E = {}
    BY <1>2, <1>4, <2>3
  <2> QED
    BY <2>2, <2>3
<1>6. /\ link' = [link EXCEPT ![nit] = slot[d]]
      /\ slot' = [slot EXCEPT ![d] = nit]
      /\ refs' = [refs EXCEPT ![nit] = @ + 1]
  BY <1>2, <1>3, <1>4 DEF Table!Insert, B
<1>7. slot' \in [1 .. B -> TableItems \cup {NULL}] /\ link' \in [TableItems -> TableItems \cup {NULL}]
  BY <1>1, <1>5, <1>6
<1>8. refs' \in [TableItems -> Nat] /\ RefsMoved(refs, refs', nit, NULL)
  BY <1>1, <1>2, <1>6 DEF RefsMoved
<1>9. \A n \in 1 .. B : slot'[n] = IF n = d THEN nit ELSE slot[n]
  BY <1>1, <1>5, <1>6
<1>10. link'[nit] = slot[d] /\ \A i \in TableItems : i # nit => link'[i] = link[i]
  BY <1>1, <1>6
<1>11. \E t : Shape(slot', link', t) /\ Referred(slot', t, refs')
  <2>1. Shape(slot, link, s) /\ Referred(slot, s, refs)
    BY DEF Bucket
  <2> QED
    BY <1>5, <1>8, <1>9, <1>10, <2>1, ShapeInserted
<1> QED
  BY <1>7, <1>8, <1>11

\* hasht_put keeps the bucket a map.
LEMMA PutKeeps ==
  ASSUME Table!HashTableAssumption, TbInv, NEW k \in TableKeys, NEW cas, Table!hasht_put(k, cas)
  PROVE  TbInv'
<1>1. TbTypes /\ Mapped(refs, keyed, put)
  BY DEF TbInv
<1>2. PICK s : Bucket(s)
  BY DEF TbInv
<1>3. PICK nit \in TableItems :
        nit = (CHOOSE i \in Table!Free : TRUE) /\ refs[nit] = 0 /\ nit # got
  BY <1>1, FreeItem
<1> refs[nit] = 0
  BY <1>3, Zenon
<1>4. got' = got /\ PutKeys(k, nit) /\ PutPlaces(k, nit)
  BY <1>3, PutIs, Zenon
<1>5. Shape(slot, link, s) /\ Referred(slot, s, refs)
  BY <1>2 DEF Bucket
<1>6. CASE UNCHANGED <<slot, link, refs, put>>
  <2>1. ASSUME NEW i \in TableItems, refs'[i] = 1 PROVE keyed'[i] = keyed[i]
    <3>1. i # nit /\ refs'[i] # 0
      BY <1>6, <2>1
    <3> QED
      BY <1>4, <3>1 DEF PutKeys
  <2>2. Mapped(refs', keyed', put')
    BY <1>1, <1>6, <2>1 DEF Mapped
  <2>3. TbTypes'
    BY <1>1, <1>4, <1>6 DEF TbTypes, PutKeys
  <2>4. Shape(slot', link', s) /\ Referred(slot', s, refs')
    BY <1>5, <1>6
  <2> QED
    BY <2>2, <2>3, <2>4 DEF TbInv, Bucket
<1>7. CASE /\ put' = [put EXCEPT ![k] = nit]
           /\ Table!Direct(k) # {} /\ Table!ReplaceDirect(nit, Table!First(Table!Direct(k)))
  <2>1. PICK n \in 1 .. B : n = Table!First(Table!Direct(k)) /\ slot[n] = put[k] /\ put[k] # NULL
    BY <1>1, <1>2, <1>7, WhereIs, Zenon
  <2>2. Table!ReplaceDirect(nit, n)
    BY <1>7, <2>1, Zenon
  <2>3. /\ slot' \in [1 .. B -> TableItems \cup {NULL}]
        /\ link' \in [TableItems -> TableItems \cup {NULL}]
        /\ refs' \in [TableItems -> Nat] /\ RefsMoved(refs, refs', nit, put[k])
        /\ SlotsMoved(slot, slot', nit, put[k]) /\ LinksMoved(link, link', s, nit, put[k])
    BY <1>1, <1>2, <1>3, <2>1, <2>2, DirectMoves, Zenon
  <2>4. put[k] \in TableItems /\ refs[put[k]] = 1
    BY <1>1, <2>1 DEF Mapped
  <2>5. \E t : Shape(slot', link', t) /\ Referred(slot', t, refs')
    BY <1>3, <1>5, <2>3, <2>4, ShapeReplaced, Zenon
  <2> QED
    BY <1>1, <1>3, <1>4, <1>7, <2>3, <2>5, PutStored, Zenon
<1>8. CASE /\ put' = [put EXCEPT ![k] = nit]
           /\ Table!Direct(k) = {} /\ Table!InChain(k) # {}
           /\ Table!ReplaceChained(nit, Table!First(Table!InChain(k)))
  <2>1. PICK j \in 2 .. Len(s) :
          j = Table!First(Table!InChain(k)) + 1 /\ s[j] = put[k] /\ put[k] # NULL
    BY <1>1, <1>2, <1>8, WhereIs, Zenon
  <2>2. Table!First(Table!InChain(k)) \in Nat
    <3>1. Table!InChain(k) \subseteq Nat
      BY TbSizes DEF Table!InChain
    <3> QED
      BY <1>8, <3>1, FirstOf
  <2>3. PICK n : n = Table!First(Table!InChain(k))
    OBVIOUS
  <2>4. j - 1 = n
    BY <2>1, <2>2, <2>3
  <2>5. Table!ReplaceChained(nit, j - 1)
    BY <1>8, <2>3, <2>4, Zenon
  <2>6. /\ slot' \in [1 .. B -> TableItems \cup {NULL}]
        /\ link' \in [TableItems -> TableItems \cup {NULL}]
        /\ refs' \in [TableItems -> Nat] /\ RefsMoved(refs, refs', nit, put[k])
        /\ SlotsMoved(slot, slot', nit, put[k]) /\ LinksMoved(link, link', s, nit, put[k])
    BY <1>1, <1>2, <1>3, <2>1, <2>5, ChainedMoves, Zenon
  <2>7. put[k] \in TableItems /\ refs[put[k]] = 1
    BY <1>1, <2>1 DEF Mapped
  <2>8. \E t : Shape(slot', link', t) /\ Referred(slot', t, refs')
    BY <1>3, <1>5, <2>6, <2>7, ShapeReplaced, Zenon
  <2> QED
    BY <1>1, <1>3, <1>4, <1>8, <2>6, <2>8, PutStored, Zenon
<1>9. CASE /\ put' = [put EXCEPT ![k] = nit]
           /\ Table!Direct(k) = {} /\ Table!InChain(k) = {} /\ Table!Insert(nit)
  <2>1. put[k] = NULL
    BY <1>1, <1>2, <1>9, WhereIs, Zenon
  <2>2. /\ slot' \in [1 .. B -> TableItems \cup {NULL}]
        /\ link' \in [TableItems -> TableItems \cup {NULL}]
        /\ refs' \in [TableItems -> Nat] /\ RefsMoved(refs, refs', nit, put[k])
        /\ \E t : Shape(slot', link', t) /\ Referred(slot', t, refs')
    BY <1>1, <1>2, <1>3, <1>9, <2>1, InsertMoves, Zenon
  <2> QED
    BY <1>1, <1>3, <1>4, <1>9, <2>2, PutStored, Zenon
<1> QED
  BY <1>4, <1>6, <1>7, <1>8, <1>9, Zenon DEF PutPlaces

\* The invariant is inductive, ...
LEMMA TbStep ==
  ASSUME Table!HashTableAssumption, TbInv, [Table!Next]_(Table!vars)
  PROVE  TbInv'
<1>1. ASSUME UNCHANGED Table!vars PROVE TbInv'
  <2>1. UNCHANGED <<slot, link, keyed, refs, put, got>>
    BY <1>1 DEF Table!vars
  <2> QED
    BY <2>1 DEF TbInv, TbTypes, Bucket
<1> QED
  BY <1>1, GetKeeps, PutKeeps DEF Table!Next

\* ... and says that the bucket is the map of what was put.
LEMMA TbRead ==
  ASSUME Table!HashTableAssumption, TbInv
  PROVE  Table!TableIsMap
<1>1. TbTypes /\ Mapped(refs, keyed, put)
  BY DEF TbInv
<1>2. PICK s : Bucket(s)
  BY DEF TbInv
<1>3. \A k \in TableKeys : Table!Lookup(k) = put[k]
  BY <1>1, <1>2, LookupIs
<1>4. /\ Table!Slots = 1 .. B /\ NULL \notin TableItems /\ M \in Nat /\ Len(s) \in Nat /\ Len(s) <= M
      /\ s \in Seq(TableItems)
  BY <1>2, TbSizes, ChainShort DEF Bucket, Shape, ChainFrom
<1>5. \A i \in TableItems : InBucket(slot, s, i) <=> \E k \in TableKeys : put[k] = i
  BY <1>1, <1>2, <1>4 DEF Bucket, Referred, Mapped
<1>6. Table!Chain = {s[j] : j \in 1 .. Len(s)}
  <2>1. \A n \in 0 .. M : Table!Walk[n] = IF n < Len(s) THEN s[n + 1] ELSE NULL
    BY <1>2, WalkAlong DEF Bucket, Shape
  <2>2. ASSUME NEW x, x \in Table!Chain PROVE x \in {s[j] : j \in 1 .. Len(s)}
    <3>1. PICK n \in 0 .. M : x = Table!Walk[n] /\ x # NULL
      BY <2>2 DEF Table!Chain, M, Table!Cardinality, Cardinality
    <3>2. n < Len(s) /\ x = s[n + 1] /\ n + 1 \in 1 .. Len(s)
      BY <1>4, <2>1, <3>1
    <3> QED
      BY <3>2
  <2>3. ASSUME NEW j \in 1 .. Len(s) PROVE s[j] \in Table!Chain
    <3>1. j - 1 \in 0 .. M /\ j - 1 < Len(s) /\ j - 1 + 1 = j
      BY <1>4
    <3>2. Table!Walk[j - 1] = s[j] /\ s[j] # NULL
      BY <1>4, <2>1, <3>1
    <3> QED
      BY <3>1, <3>2 DEF Table!Chain, M, Table!Cardinality, Cardinality
  <2> QED
    BY <2>2, <2>3
<1>7. \A i : i \in Table!Stored <=> i \in TableItems /\ InBucket(slot, s, i)
  <2>1. \A n \in 1 .. B : slot[n] \in TableItems \cup {NULL}
    BY <1>1 DEF TbTypes
  <2>2. \A j \in 1 .. Len(s) : s[j] \in TableItems
    BY <1>4
  <2> QED
    BY <1>4, <1>6, <2>1, <2>2 DEF Table!Stored, InBucket
<1>8. Table!Stored = {put[k] : k \in TableKeys} \ {NULL}
  <2>1. \A k \in TableKeys : put[k] \in TableItems \cup {NULL}
    BY <1>1 DEF TbTypes
  <2> QED
    BY <1>4, <1>5, <1>7, <2>1
<1>9. \A i \in TableItems : refs[i] = IF \E k \in TableKeys : put[k] = i THEN 1 ELSE 0
  BY <1>2, <1>5 DEF Bucket, Referred
<1> QED
  BY <1>3, <1>8, <1>9, Zenon DEF Table!TableIsMap

-----------------------------------------------------------------------------
\* A step of the composition is a step of the component that runs, if any.
LEMMA OneComponent ==
  ASSUME [Next]_vars
  PROVE  /\ used' = used
         /\ used = "receive" => [Receive!Next]_(Receive!vars)
         /\ used = "segment" => [Segment!Next]_(Segment!vars)
         /\ used = "smooth" => [Smooth!Next]_(Smooth!vars)
         /\ used = "table" => [Table!Next]_(Table!vars)
<1>1. used' = used
  BY DEF Next, vars
<1>2. used = "receive" => [Receive!Next]_(Receive!vars)
  BY Zenon DEF Next, XNext, vars, xVars, Receive!vars
<1>4. used = "segment" => [Segment!Next]_(Segment!vars)
  BY Zenon DEF Next, XNext, vars, xVars, Segment!vars
<1>5. used = "smooth" => [Smooth!Next]_(Smooth!vars)
  BY Zenon DEF Next, XNext, vars, xVars, Smooth!vars
<1>6. used = "table" => [Table!Next]_(Table!vars)
  BY Zenon DEF Next, XNext, vars, xVars, Table!vars
<1> QED
  BY <1>1, <1>2, <1>4, <1>5, <1>6

\* For every ring, header and longest request, and however requests and
\* arrivals cut the stream, the two segments connection_recv keeps are exactly
\* the bytes received and not given back, in order: neither its assertions nor
\* its abort ("weird situation") can be reached.
THEOREM SegmentsAreStream == Spec => []BufferIsStream
<1> DEFINE I == used = "receive" => StreamInv
<1>1. Receive!RecvBufferAssumption
  BY StoresAssumption
<1>2. Init => I
  BY <1>1, StreamInit DEF Init
<1>3. I /\ [Next]_vars => I'
  BY <1>1, OneComponent, StreamStep
<1>4. I => BufferIsStream
  BY <1>1, StreamRead DEF BufferIsStream
<1> QED
  BY <1>2, <1>3, <1>4, PTL DEF Spec

\* For every number of threads and segments: until the unlock of a lock it does
\* not hold takes the lock from its holder, segalloc hands no segment to two
\* threads, and none is lost from the free list.
THEOREM SegmentsAreOwned == Spec => []SegmentsOwned
<1> DEFINE I == used = "segment" => SegInv
<1>1. StoresAssumption
  BY StoresAssumption
<1>2. Init => I
  BY <1>1, SegInit DEF Init
<1>3. I /\ [Next]_vars => I'
  BY <1>1, OneComponent, SegStep
<1>4. I => SegmentsOwned
  BY <1>1, SegRead DEF SegmentsOwned
<1> QED
  BY <1>2, <1>3, <1>4, PTL DEF Spec

\* For every tree and number of neighbours: the incremental mean is the mean of
\* the two rings, whatever munmap takes away; and as long as it takes nothing,
\* a score counts pages among the neighbours only, each once, all those on the left and,
\* before the first gap in the tree, all those on the right.
THEOREM ScoresAreSmoothed == Spec => []SmoothedRight
<1> DEFINE I == used = "smooth" => SmoothInv
<1>1. Smooth!SmoothingAssumption
  BY StoresAssumption DEF StoresAssumption
<1>2. Init => I
  <2>1. Init /\ used = "smooth" => Smooth!Init
    BY Zenon DEF Init
  <2> QED
    BY <1>1, <2>1, SmoothInit
<1>3. I /\ [Next]_vars => I'
  BY <1>1, OneComponent, SmoothStep
<1>4. I => SmoothedRight
  BY <1>1, SmoothRead DEF SmoothedRight
<1> QED
  BY <1>2, <1>3, <1>4, PTL DEF Spec

\* For every number of keys, items and slots: whatever slots and places of the
\* chain the items of a bucket move through, hasht_get finds what hasht_put
\* stored last, and the table refers once to each item stored and to no other.
THEOREM TableIsRight == Spec => []TableIsMap
<1> DEFINE I == used = "table" => TbInv
<1>1. Table!HashTableAssumption
  BY StoresAssumption DEF StoresAssumption
<1>2. Init => I
  <2>1. Init /\ used = "table" => Table!Init
    BY Zenon DEF Init
  <2> QED
    BY <1>1, <2>1, TbInit
<1>3. I /\ [Next]_vars => I'
  BY <1>1, OneComponent, TbStep
<1>4. I => TableIsMap
  BY <1>1, TbRead DEF TableIsMap
<1> QED
  BY <1>2, <1>3, <1>4, PTL DEF Spec
=============================================================================
