--------------------------- MODULE ItemStoreProofs ---------------------------
(***************************************************************************)
(* Proofs about the store of flexkvs (ItemStore), within MCStores and for  *)
(* any cores, keys, values and segments: no item in use is lost or         *)
(* overwritten (ItemsSafe), and the store implements an atomic map         *)
(* (IsAtomicMap, the specification KvStore).                               *)
(*                                                                         *)
(* The invariant adds to ItemsSafe what keeps it: a segment is in one      *)
(* place and filled in order, a scan meets no segment that was given back, *)
(* and the item a SET or the cleaner has written but not yet stored is     *)
(* known to its core alone.                                                *)
(***************************************************************************)
EXTENDS MCStores, Functions, SequencesExt, FiniteSetTheorems, FunctionTheorems,
        SequenceTheorems, TLAPS

\* The range of a sequence, place by place.
LEMMA InRange ==
  ASSUME NEW f, NEW x
  PROVE  x \in Range(f) <=> \E n \in DOMAIN f : f[n] = x
BY DEF Range

\* The assumptions about the constants, one by one.
LEMMA Sizes ==
  ASSUME Store!StoreAssumption
  PROVE  /\ IsFiniteSet(Cores) /\ Cores # {} /\ IsFiniteSet(Keys) /\ IsFiniteSet(Segments)
         /\ None \notin Segments /\ None \notin Store!Items /\ None \notin Keys \X Values
         /\ ItemSize \in Nat /\ SegSize \in Nat /\ CqSize \in Nat
         /\ 0 < ItemSize /\ ItemSize < SegSize /\ 0 < CqSize
         /\ Segments = 1 .. Cardinality(Segments)
         /\ Cardinality(Segments) >= 2 * Cardinality(Cores)
<1>2. /\ IsFiniteSet(Cores) /\ Cores # {} /\ IsFiniteSet(Keys) /\ IsFiniteSet(Segments)
      /\ None \notin Segments \cup Store!Items \cup (Keys \X Values)
      /\ Segments = 1 .. Cardinality(Segments)
      /\ Cardinality(Segments) >= 2 * Cardinality(Cores)
  BY Zenon DEF Store!StoreAssumption, Store!Cardinality, Cardinality, Store!IsFiniteSet, IsFiniteSet
<1>3. SegSize \in Nat /\ ItemSize \in 1 .. SegSize - 1 /\ CqSize \in Nat \ {0}
  BY Zenon DEF Store!StoreAssumption
<1>4. ItemSize \in Nat /\ SegSize \in Nat /\ CqSize \in Nat
      /\ 0 < ItemSize /\ ItemSize < SegSize /\ 0 < CqSize
  BY <1>3
<1> QED
  BY <1>2, <1>4, Zenon DEF Store!Items

(***************************************************************************)
(* Occurrences in queues.                                                  *)
(***************************************************************************)

Places(Q, n, i) == {p \in Cores \X (1 .. n) : p[2] <= Len(Q[p[1]]) /\ Q[p[1]][p[2]] = i}
Queues(Q, n) == /\ Q \in [Cores -> Seq(Store!Items)]
                /\ \A c \in Cores : Len(Q[c]) <= n

\* Uses counts a finite set of places.
LEMMA PlacesFinite ==
  ASSUME Store!StoreAssumption, NEW Q, NEW n \in Nat, NEW i
  PROVE  /\ IsFiniteSet(Places(Q, n, i))
         /\ Cardinality(Places(Q, n, i)) \in Nat
         /\ Store!Uses(Q, n, i) = Cardinality(Places(Q, n, i))
<1>1. IsFiniteSet(1 .. n)
  BY FS_Interval
<1>2. IsFiniteSet(Cores \X (1 .. n))
  BY <1>1, Sizes, FS_Product, Zenon
<1>3. Places(Q, n, i) \subseteq Cores \X (1 .. n)
  BY Zenon DEF Places
<1>4. IsFiniteSet(Places(Q, n, i))
  BY <1>2, <1>3, FS_Subset
<1>5. Store!Uses(Q, n, i) = Cardinality(Places(Q, n, i))
  BY Zenon DEF Store!Uses, Places, Store!Cardinality, Cardinality
<1> QED
  BY <1>4, <1>5, FS_CardinalityType, Zenon

\* R is Q with x at the end of the queue of c ...
Pushed(Q, R, c, x) == /\ R[c] = Append(Q[c], x)
                      /\ \A d \in Cores \ {c} : R[d] = Q[d]
\* ... or without the first entry of it.
Popped(Q, R, c) == /\ Q[c] # <<>> /\ R[c] = Tail(Q[c])
                   /\ \A d \in Cores \ {c} : R[d] = Q[d]

\* An entry that joins the end of a queue is in one place more, ...
LEMMA UsesPushed ==
  ASSUME Store!StoreAssumption, NEW n \in Nat, NEW Q, NEW R, Queues(Q, n), Queues(R, n),
         NEW c \in Cores, NEW x \in Store!Items, Pushed(Q, R, c, x), NEW i
  PROVE  Store!Uses(R, n, i) = Store!Uses(Q, n, i) + (IF x = i THEN 1 ELSE 0)
<1>1. PICK l \in Nat : l = Len(Q[c]) /\ l + 1 <= n /\ Len(R[c]) = l + 1
  <2>1. Q[c] \in Seq(Store!Items) /\ R[c] = Append(Q[c], x) /\ Len(R[c]) <= n
    BY DEF Queues, Pushed
  <2> QED
    BY <2>1
<1>2. R[c][l + 1] = x /\ \A m \in 1 .. l : R[c][m] = Q[c][m]
  <2>1. Q[c] \in Seq(Store!Items) /\ R[c] = Append(Q[c], x)
    BY DEF Queues, Pushed
  <2> QED
    BY <1>1, <2>1
<1>3. CASE x = i
  <2>1. Places(R, n, i) = Places(Q, n, i) \cup {<<c, l + 1>>}
    BY <1>1, <1>2, <1>3 DEF Places, Pushed
  <2>2. <<c, l + 1>> \notin Places(Q, n, i)
    BY <1>1 DEF Places
  <2> QED
    BY <1>3, <2>1, <2>2, PlacesFinite, FS_AddElement
<1>4. CASE x # i
  <2>1. Places(R, n, i) = Places(Q, n, i)
    <3>1. ASSUME NEW y PROVE y \in Places(R, n, i) <=> y \in Places(Q, n, i)
      <4>1. ASSUME NEW d \in Cores, NEW m \in 1 .. n, d # c
            PROVE  <<d, m>> \in Places(R, n, i) <=> <<d, m>> \in Places(Q, n, i)
        <5>1. R[d] = Q[d]
          BY <4>1 DEF Pushed
        <5> QED
          BY <5>1 DEF Places
      <4>2. ASSUME NEW m \in 1 .. n
            PROVE  <<c, m>> \in Places(R, n, i) <=> <<c, m>> \in Places(Q, n, i)
        <5>1. CASE m <= l
          BY <1>1, <1>2, <4>2, <5>1 DEF Places
        <5>2. CASE m = l + 1
          BY <1>1, <1>2, <1>4, <4>2, <5>2 DEF Places
        <5>3. CASE m > l + 1
          BY <1>1, <4>2, <5>3 DEF Places
        <5> QED
          BY <1>1, <4>2, <5>1, <5>2, <5>3
      <4>3. y \in Places(R, n, i) \/ y \in Places(Q, n, i) => y \in Cores \X (1 .. n)
        BY Zenon DEF Places
      <4>4. ASSUME y \in Cores \X (1 .. n)
            PROVE  \E d \in Cores, m \in 1 .. n : y = <<d, m>>
        BY <4>4
      <4> QED
        BY <4>1, <4>2, <4>3, <4>4, Zenon
    <3> QED
      BY <3>1, Zenon
  <2> QED
    BY <1>4, <2>1, PlacesFinite
<1> QED
  BY <1>3, <1>4, Zenon

\* The same with what it needs in one piece, as it is cited.
Pushing(Q, R, n, c, x) == /\ n \in Nat /\ Queues(Q, n) /\ Queues(R, n)
                          /\ c \in Cores /\ x \in Store!Items /\ Pushed(Q, R, c, x)

\* ... in the form in which the steps cite it, ...
LEMMA UsesMore ==
  ASSUME Store!StoreAssumption, NEW Q, NEW R, NEW n, NEW c, NEW x, Pushing(Q, R, n, c, x), NEW i
  PROVE  Store!Uses(R, n, i) = Store!Uses(Q, n, i) + (IF x = i THEN 1 ELSE 0)
  BY UsesPushed DEF Pushing

\* ... and the entry that leaves the front of one is in one place less.
LEMMA UsesPopped ==
  ASSUME Store!StoreAssumption, NEW n \in Nat, NEW Q, NEW R, Queues(Q, n), Queues(R, n),
         NEW c \in Cores, Popped(Q, R, c), NEW i
  PROVE  Store!Uses(Q, n, i) = Store!Uses(R, n, i) + (IF Head(Q[c]) = i THEN 1 ELSE 0)
<1> DEFINE A == Places(Q, n, i) \ {<<c, 1>>}
           B == Places(R, n, i)
           f == [p \in A |-> IF p[1] = c THEN <<c, p[2] - 1>> ELSE p]
<1>1. PICK l \in Nat : l = Len(Q[c]) /\ 1 <= l /\ l <= n /\ Len(R[c]) = l - 1
  <2>1. Q[c] \in Seq(Store!Items) /\ Q[c] # <<>> /\ R[c] = Tail(Q[c]) /\ Len(Q[c]) <= n
    BY DEF Queues, Popped
  <2> QED
    BY <2>1
<1>2. Head(Q[c]) = Q[c][1] /\ \A m \in 1 .. l - 1 : R[c][m] = Q[c][m + 1]
  <2>1. Q[c] \in Seq(Store!Items) /\ Q[c] # <<>> /\ R[c] = Tail(Q[c])
    BY DEF Queues, Popped
  <2> QED
    BY <1>1, <2>1
<1>3. \A d \in Cores \ {c} : R[d] = Q[d]
  BY DEF Popped
<1>4. \A p \in A : /\ p \in Cores \X (1 .. n) /\ p # <<c, 1>>
                   /\ p[2] <= Len(Q[p[1]]) /\ Q[p[1]][p[2]] = i
  BY Zenon DEF Places
<1>5. \A p \in B : /\ p \in Cores \X (1 .. n)
                   /\ p[2] <= Len(R[p[1]]) /\ R[p[1]][p[2]] = i
  BY Zenon DEF Places
<1>6. ASSUME NEW p \in A PROVE f[p] \in B
  <2>1. CASE p[1] = c
    <3>1. PICK m \in 1 .. n : p = <<c, m>>
      BY <1>4, <2>1
    <3>2. m \in 2 .. l /\ Q[c][m] = i
      BY <1>1, <1>4, <3>1
    <3>3. m - 1 \in 1 .. n /\ m - 1 <= l - 1 /\ R[c][m - 1] = i
      BY <1>1, <1>2, <3>2
    <3>4. <<c, m - 1>> \in B
      BY <1>1, <3>3 DEF Places
    <3> QED
      BY <3>1, <3>4
  <2>2. CASE p[1] # c
    BY <1>3, <1>4, <2>2 DEF Places
  <2> QED
    BY <2>1, <2>2
<1>7. ASSUME NEW p \in A, NEW q \in A, f[p] = f[q] PROVE p = q
  BY <1>4, <1>7
<1>8. ASSUME NEW q \in B PROVE \E p \in A : f[p] = q
  <2>1. CASE q[1] = c
    <3>1. <<c, q[2] + 1>> \in A
      BY <1>1, <1>2, <1>5, <2>1 DEF Places
    <3>2. f[<<c, q[2] + 1>>] = q
      BY <1>5, <2>1, <3>1
    <3> QED
      BY <3>1, <3>2
  <2>2. CASE q[1] # c
    <3>1. q \in Cores \X (1 .. n) /\ q[1] \in Cores \ {c}
          /\ q[2] <= Len(R[q[1]]) /\ R[q[1]][q[2]] = i
      BY <1>5, <2>2
    <3>2. R[q[1]] = Q[q[1]]
      BY <1>3, <3>1
    <3>3. q \in A
      BY <3>1, <3>2 DEF Places
    <3>4. f[q] = q
      BY <2>2, <3>3
    <3> QED
      BY <3>3, <3>4
  <2> QED
    BY <2>1, <2>2
<1>9. ExistsBijection(A, B)
  <2>1. f \in [A -> B]
    BY <1>6
  <2>2. f \in Bijection(A, B)
    BY <1>7, <1>8, <2>1, Fun_IsBij
  <2> QED
    BY <2>2 DEF ExistsBijection
<1>10. IsFiniteSet(A) /\ Cardinality(A) = IF <<c, 1>> \in Places(Q, n, i)
                          THEN Cardinality(Places(Q, n, i)) - 1 ELSE Cardinality(Places(Q, n, i))
  BY PlacesFinite, FS_RemoveElement
<1>11. Cardinality(B) = Cardinality(A)
  BY <1>9, <1>10, FS_Bijection
<1>12. <<c, 1>> \in Places(Q, n, i) <=> Head(Q[c]) = i
  BY <1>1, <1>2 DEF Places
<1> HIDE DEF A, f
<1> QED
  BY <1>10, <1>11, <1>12, PlacesFinite

\* A place on top: an item in a queue is used, and one that is used once is there.
LEMMA UsesSome ==
  ASSUME Store!StoreAssumption, NEW n \in Nat, NEW Q, Queues(Q, n), NEW i
  PROVE  /\ Store!Uses(Q, n, i) \in Nat
         /\ \A c \in Cores : \A m \in 1 .. Len(Q[c]) : Q[c][m] = i => Store!Uses(Q, n, i) > 0
<1>1. Store!Uses(Q, n, i) \in Nat
  BY PlacesFinite
<1>2. ASSUME NEW c \in Cores, NEW m \in 1 .. Len(Q[c]), Q[c][m] = i
      PROVE  Store!Uses(Q, n, i) > 0
  <2>1. PICK l \in Nat : l = Len(Q[c]) /\ l <= n
    BY DEF Queues
  <2>2. <<c, m>> \in Places(Q, n, i)
    BY <1>2, <2>1 DEF Places
  <2>3. Cardinality(Places(Q, n, i)) # 0
    BY <2>2, PlacesFinite, FS_EmptySet
  <2> QED
    BY <2>3, PlacesFinite
<1> QED
  BY <1>1, <1>2
(***************************************************************************)
(* The invariant.                                                          *)
(***************************************************************************)

Entries == [ref : Nat, key : Keys \cup {None}, val : Values \cup {None}]
SegStates == [offset : Nat, freed : Nat, inactive : BOOLEAN, cleaned : BOOLEAN]
CoreStates == {Store!Idle} \cup [step : {"put", "copy", "clean", "abort"}, it : Store!Items]
              \cup [step : {"cas"}, it : Store!Items, nit : Store!Items]
              \cup [step : {"release"}, items : Seq(Store!Items)]
HeldBy == [c \in Cores |-> Store!Held(c)]

ItemTypes ==
    /\ item \in [Store!Items -> Entries]
    /\ seg \in [Segments -> SegStates]
    /\ log \in [Cores -> Seq(Segments)]
    /\ reserved \in [Cores -> Segments \cup {None}]
    /\ free_segments \in Seq(Segments)
    /\ Queues(cq, CqSize)
    /\ cleaning \in [Cores -> Segments \cup {None}]
    /\ clean_offset \in [Cores -> Nat]
    /\ table \in [Keys -> Store!Items \cup {None}]
    /\ core \in [Cores -> CoreStates]
    /\ Queues(HeldBy, 2)
    /\ \A c \in Cores : core[c].step = "release" => core[c].items # <<>>
    /\ maint \in [at : Cores, step : {"free", "scan", "done"}]

\* A segment is in one place: the free list, a log or a reserve.
Apart ==
    /\ \A m, n \in 1 .. Len(free_segments) : free_segments[m] = free_segments[n] => m = n
    /\ \A c, d \in Cores : \A m \in 1 .. Len(log[c]), n \in 1 .. Len(log[d]) :
          log[c][m] = log[d][n] => c = d /\ m = n
    /\ \A c \in Cores : \A m \in 1 .. Len(log[c]), n \in 1 .. Len(free_segments) :
          log[c][m] # free_segments[n]
    /\ \A c, d \in Cores : reserved[c] # None /\ reserved[c] = reserved[d] => c = d
    /\ \A c, d \in Cores : \A m \in 1 .. Len(log[d]) : reserved[c] # log[d][m]
    /\ \A c \in Cores : \A n \in 1 .. Len(free_segments) : reserved[c] # free_segments[n]

\* Where the allocation of a segment can have got to.
Offsets == {n * ItemSize : n \in 0 .. (SegSize \div ItemSize) - 1}
Marks == {n * ItemSize : n \in 0 .. SegSize \div ItemSize} \cup {SegSize}

\* Only the last segment of a log has room, and a reserved one is unused.
Filling ==
    /\ \A s \in Segments : seg[s].offset \in Marks
    /\ \A c \in Cores : Len(log[c]) > 0
    /\ \A c \in Cores : \A n \in 1 .. Len(log[c]) - 1 : seg[log[c][n]].offset = SegSize
    /\ \A c \in Cores : reserved[c] # None => seg[reserved[c]] = Store!Empty

\* A scan that goes on is of a segment of the core's log, or of one given back
\* and not yet handed out again.
ScanRight == \A c \in Cores :
    cleaning[c] # None /\ clean_offset[c] < SegSize /\ seg[cleaning[c]].cleaned
    => \/ \E n \in 1 .. Len(log[c]) : log[c][n] = cleaning[c]
       \/ \E n \in 1 .. Len(free_segments) : free_segments[n] = cleaning[c]

\* The item that core c has allocated and not yet put in the table.
Fresh(c) == IF core[c].step = "put" THEN core[c].it
            ELSE IF core[c].step = "cas" THEN core[c].nit ELSE None
FreshRight == \A c \in Cores : Fresh(c) # None =>
                 /\ \A k \in Keys : table[k] # Fresh(c)
                 /\ \A d \in Cores \ {c} : Fresh(d) # Fresh(c)

\* What is stored in items in use: a key and a value, and a copy is a copy.
Contents == /\ \A i \in Store!Items : item[i].ref > 0 => item[i].key \in Keys /\ item[i].val \in Values
            /\ \A c \in Cores : core[c].step = "cas" =>
                  /\ item[core[c].it].key = item[core[c].nit].key
                  /\ item[core[c].it].val = item[core[c].nit].val

ItemInv == /\ ItemTypes /\ Apart /\ Filling /\ ScanRight /\ FreshRight /\ Contents
           /\ Store!ItemsSafe

(***************************************************************************)
(* Sizes and sequences.                                                    *)
(***************************************************************************)

\* An item is a segment and an offset in it.
LEMMA ItemsAre == Store!Items = Segments \X Offsets
BY Zenon DEF Store!Items, Offsets

\* Division with remainder.
LEMMA Quotient ==
  ASSUME NEW a \in Nat, NEW b \in Nat \ {0}
  PROVE  /\ a \div b \in Nat
         /\ (a \div b) * b <= a
         /\ a < (a \div b) * b + b
<1>1. a \div b \in Int
  OBVIOUS
<1>2. a = b * (a \div b) + (a % b) /\ a % b \in 0 .. b - 1
  BY SMTT(60)
<1>3. b * (a \div b) = (a \div b) * b
  BY <1>1
<1>4. a \div b >= 0
  BY SMTT(60)
<1> QED
  BY <1>1, <1>2, <1>3, <1>4

\* Multiplication is monotonic and distributes.
LEMMA Multiples ==
  ASSUME NEW b \in Nat, NEW m \in Nat, NEW n \in Nat, m <= n
  PROVE  /\ m * b \in Nat /\ m * b <= n * b
         /\ (m + 1) * b = m * b + b
BY SMTT(60)

\* Items follow each other from offset 0; where one ends the next may begin, if
\* it fits.
LEMMA OffsetsRight ==
  ASSUME Store!StoreAssumption
  PROVE  /\ 0 \in Marks /\ SegSize \in Marks
         /\ \A o \in Marks : o \in Nat /\ o <= SegSize
         /\ \A o \in Offsets : o \in Nat /\ o + ItemSize \in Marks
         /\ \A o \in Marks : o + ItemSize <= SegSize => o \in Offsets
<1> DEFINE q == SegSize \div ItemSize
<1>1. /\ SegSize \in Nat /\ ItemSize \in Nat /\ ItemSize \in Nat \ {0} /\ ItemSize < SegSize
  BY Sizes
<1>2. q \in Nat /\ q * ItemSize <= SegSize /\ SegSize < q * ItemSize + ItemSize
  BY <1>1, Quotient
<1> HIDE DEF q
<1>3. \A m \in 0 .. q : m * ItemSize \in Nat /\ m * ItemSize <= SegSize
  <2>1. ASSUME NEW m \in 0 .. q PROVE m * ItemSize \in Nat /\ m * ItemSize <= SegSize
    <3>1. m \in Nat /\ m <= q
      BY <1>2
    <3>2. m * ItemSize \in Nat /\ m * ItemSize <= q * ItemSize
      BY <1>1, <1>2, <3>1, Multiples
    <3>3. q * ItemSize \in Nat
      BY <1>1, <1>2, Multiples
    <3> QED
      BY <1>1, <1>2, <3>2, <3>3
  <2> QED
    BY <2>1
<1>4. Marks = {n * ItemSize : n \in 0 .. q} \cup {SegSize}
      /\ Offsets = {n * ItemSize : n \in 0 .. q - 1}
  BY DEF Marks, Offsets, q
<1>5. \A o \in Marks : o \in Nat /\ o <= SegSize
  BY <1>1, <1>3, <1>4
<1>6. 0 \in Marks /\ SegSize \in Marks
  <2>1. 0 * ItemSize = 0 /\ 0 \in 0 .. q
    BY <1>1, <1>2
  <2> QED
    BY <1>4, <2>1
<1>7. ASSUME NEW o \in Offsets PROVE o \in Nat /\ o + ItemSize \in Marks
  <2>1. PICK n \in 0 .. q - 1 : o = n * ItemSize
    BY <1>4
  <2>2. n \in Nat /\ n + 1 \in 0 .. q /\ n \in 0 .. q
    BY <1>2
  <2>3. (n + 1) * ItemSize = o + ItemSize
    BY <1>1, <2>1, <2>2, Multiples
  <2>4. o \in Nat
    BY <1>3, <2>1, <2>2
  <2> QED
    BY <1>4, <2>2, <2>3, <2>4
<1>8. ASSUME NEW o \in Marks, o + ItemSize <= SegSize PROVE o \in Offsets
  <2>1. o # SegSize /\ o \in Nat
    BY <1>1, <1>5, <1>8
  <2>2. PICK n \in 0 .. q : o = n * ItemSize
    BY <1>4, <2>1
  <2>3. n # q
    BY <1>1, <1>2, <1>8, <2>1, <2>2
  <2>4. n \in 0 .. q - 1
    BY <1>2, <2>3
  <2> QED
    BY <1>4, <2>2, <2>4
<1> QED
  BY <1>5, <1>6, <1>7, <1>8

\* A sequence with an entry more at the end, ...
LEMMA Appended ==
  ASSUME NEW S, NEW s \in Seq(S), NEW x \in S
  PROVE  /\ Append(s, x) \in Seq(S)
         /\ Len(Append(s, x)) = Len(s) + 1
         /\ Append(s, x)[Len(s) + 1] = x
         /\ \A n \in 1 .. Len(s) : Append(s, x)[n] = s[n]
OBVIOUS

\* ... without the first, ...
LEMMA Shortened ==
  ASSUME NEW S, NEW s \in Seq(S), s # <<>>
  PROVE  /\ Tail(s) \in Seq(S) /\ Head(s) \in S /\ Head(s) = s[1]
         /\ Len(s) \in Nat /\ 1 <= Len(s)
         /\ Len(Tail(s)) = Len(s) - 1
         /\ \A n \in 1 .. Len(s) - 1 : Tail(s)[n] = s[n + 1]
OBVIOUS

\* ... with an entry more at the front, ...
LEMMA Prepended ==
  ASSUME NEW S, NEW s \in Seq(S), NEW x \in S
  PROVE  /\ <<x>> \o s \in Seq(S)
         /\ Len(<<x>> \o s) = Len(s) + 1
         /\ (<<x>> \o s)[1] = x
         /\ \A n \in 1 .. Len(s) : (<<x>> \o s)[n + 1] = s[n]
OBVIOUS

\* ... and without the one at n.
LEMMA Removed ==
  ASSUME NEW S, NEW s \in Seq(S), NEW n \in 1 .. Len(s)
  PROVE  /\ RemoveAt(s, n) \in Seq(S)
         /\ Len(RemoveAt(s, n)) = Len(s) - 1
         /\ \A m \in 1 .. Len(s) - 1 :
               RemoveAt(s, n)[m] = IF m < n THEN s[m] ELSE s[m + 1]
<1>1. PICK l \in Nat : l = Len(s)
  OBVIOUS
<1>2. SubSeq(s, 1, n - 1) \in Seq(S) /\ Len(SubSeq(s, 1, n - 1)) = n - 1
      /\ \A m \in 1 .. n - 1 : SubSeq(s, 1, n - 1)[m] = s[m]
  BY <1>1
<1>3. SubSeq(s, n + 1, l) \in Seq(S) /\ Len(SubSeq(s, n + 1, l)) = l - n
      /\ \A m \in 1 .. l - n : SubSeq(s, n + 1, l)[m] = s[m + n]
  BY <1>1
<1>4. RemoveAt(s, n) = SubSeq(s, 1, n - 1) \o SubSeq(s, n + 1, l)
  BY <1>1 DEF RemoveAt
<1>5. PICK a \in Seq(S) : a = SubSeq(s, 1, n - 1)
  BY <1>2
<1>6. PICK b \in Seq(S) : b = SubSeq(s, n + 1, l)
  BY <1>3
<1>7. PICK j \in Nat : j = Len(a) /\ j = n - 1
  BY <1>1, <1>2, <1>5
<1>8. PICK k \in Nat : k = Len(b) /\ k = l - n
  <2>1. Len(b) = l - n
    BY <1>3, <1>6, Zenon
  <2>2. l - n \in Nat
    BY <1>1
  <2> QED
    BY <2>1, <2>2, Zenon
<1>9. PICK r \in Seq(S) : /\ r = a \o b /\ Len(r) = j + k
                          /\ \A m \in 1 .. j + k : r[m] = IF m <= j THEN a[m] ELSE b[m - j]
  <2>1. /\ a \o b \in Seq(S) /\ Len(a \o b) = Len(a) + Len(b)
        /\ \A m \in 1 .. Len(a) + Len(b) :
              (a \o b)[m] = IF m <= Len(a) THEN a[m] ELSE b[m - Len(a)]
    BY ConcatProperties, Zenon
  <2> QED
    BY <1>7, <1>8, <2>1, Zenon
<1>10. r = RemoveAt(s, n)
  BY <1>4, <1>5, <1>6, <1>9
<1>11. Len(r) = l - 1
  BY <1>1, <1>7, <1>8, <1>9
<1>12. ASSUME NEW m \in 1 .. l - 1, m < n PROVE r[m] = s[m]
  BY <1>1, <1>2, <1>5, <1>7, <1>8, <1>9, <1>12
<1>13. ASSUME NEW m \in 1 .. l - 1, ~(m < n) PROVE r[m] = s[m + 1]
  <2>1. m - j \in 1 .. l - n /\ m - j + n = m + 1
    BY <1>1, <1>7, <1>13
  <2>2. b[m - j] = s[m - j + n]
    BY <1>3, <1>6, <2>1, Zenon
  <2>3. r[m] = b[m - j]
    <3>1. m \in 1 .. j + k /\ ~(m <= j)
      BY <1>1, <1>7, <1>8, <1>13
    <3> QED
      BY <1>9, <3>1, Zenon
  <2> QED
    BY <2>1, <2>2, <2>3, Zenon
<1> QED
  BY <1>1, <1>9, <1>10, <1>11, <1>12, <1>13
(***************************************************************************)
(* The references a core holds.                                            *)
(***************************************************************************)

HeldOf(u) == IF u.step \in {"put", "copy", "clean", "abort"} THEN <<u.it>>
             ELSE IF u.step = "cas" THEN <<u.it, u.nit>>
             ELSE IF u.step = "release" THEN u.items ELSE <<>>

\* What a core holds follows from its own state.
LEMMA HeldIs ==
  ASSUME NEW c \in Cores
  PROVE  /\ HeldBy[c] = HeldOf(core[c])
         /\ (HeldBy')[c] = HeldOf(core'[c])
<1>1. Store!Held(c) = HeldOf(core[c])
  BY DEF Store!Held, HeldOf
<1>2. Store!Held(c)' = HeldOf(core'[c])
  BY DEF Store!Held, HeldOf
<1> QED
  BY <1>1, <1>2 DEF HeldBy

\* What the state of a core may be, and what it names at each step.
LEMMA CoreIs ==
  ASSUME ItemTypes, NEW c \in Cores
  PROVE  /\ core[c] \in CoreStates
         /\ core[c].step \in {"idle", "put", "copy", "clean", "abort", "cas", "release"}
         /\ core[c].step \in {"put", "copy", "clean", "abort"} => core[c].it \in Store!Items
         /\ core[c].step = "cas" => core[c].it \in Store!Items /\ core[c].nit \in Store!Items
         /\ core[c].step = "release" => core[c].items \in Seq(Store!Items) /\ core[c].items # <<>>
<1>1. core[c] \in CoreStates /\ (core[c].step = "release" => core[c].items # <<>>)
  BY DEF ItemTypes
<1> QED
  BY <1>1 DEF CoreStates, Store!Idle

\* The states a step leaves a core in.
LEMMA CoreMoves ==
  ASSUME NEW n \in Store!Items, NEW m \in Store!Items, NEW w \in {"put", "copy", "clean", "abort"}
  PROVE  /\ Store!Idle \in CoreStates /\ HeldOf(Store!Idle) = <<>>
         /\ [step |-> w, it |-> n] \in CoreStates /\ HeldOf([step |-> w, it |-> n]) = <<n>>
         /\ [step |-> "cas", it |-> m, nit |-> n] \in CoreStates
         /\ HeldOf([step |-> "cas", it |-> m, nit |-> n]) = <<m, n>>
BY DEF CoreStates, HeldOf, Store!Idle

\* A core that has a list of references to give up holds just these.
LEMMA ReleaseMoves ==
  ASSUME NEW q \in Seq(Store!Items)
  PROVE  /\ [step |-> "release", items |-> q] \in CoreStates
         /\ HeldOf([step |-> "release", items |-> q]) = q
BY DEF CoreStates, HeldOf

\* Core c, and no other, moves to the state u.
LEMMA OneCore ==
  ASSUME core \in [Cores -> CoreStates], NEW c \in Cores, NEW u \in CoreStates,
         core' = [core EXCEPT ![c] = u]
  PROVE  /\ core' \in [Cores -> CoreStates]
         /\ core'[c] = u /\ (HeldBy')[c] = HeldOf(u)
         /\ \A d \in Cores \ {c} : core'[d] = core[d] /\ (HeldBy')[d] = HeldBy[d]
<1>1. core' \in [Cores -> CoreStates] /\ core'[c] = u /\ \A d \in Cores \ {c} : core'[d] = core[d]
  OBVIOUS
<1>2. \A d \in Cores : HeldBy[d] = HeldOf(core[d]) /\ (HeldBy')[d] = HeldOf(core'[d])
  BY HeldIs
<1> QED
  BY <1>1, <1>2

\* ... and holds one reference more, one less, or the same in another order.
LEMMA HoldsMore ==
  ASSUME ItemTypes, NEW c \in Cores, NEW u \in CoreStates, core' = [core EXCEPT ![c] = u],
         NEW x \in Store!Items, HeldOf(u) = Append(HeldOf(core[c]), x), Len(HeldOf(u)) <= 2
  PROVE  Queues(HeldBy', 2) /\ Pushed(HeldBy, HeldBy', c, x)
<1>1. Queues(HeldBy, 2) /\ core \in [Cores -> CoreStates]
  BY DEF ItemTypes
<1>2. /\ (HeldBy')[c] = HeldOf(u)
      /\ \A d \in Cores \ {c} : (HeldBy')[d] = HeldBy[d]
  BY <1>1, OneCore
<1>3. HeldBy[c] = HeldOf(core[c])
  BY HeldIs
<1>4. Pushed(HeldBy, HeldBy', c, x)
  BY <1>2, <1>3 DEF Pushed
<1>5. HeldBy[c] \in Seq(Store!Items) /\ \A d \in Cores : HeldBy[d] \in Seq(Store!Items) /\ Len(HeldBy[d]) <= 2
  BY <1>1 DEF Queues
<1>6. (HeldBy')[c] \in Seq(Store!Items) /\ Len((HeldBy')[c]) <= 2
  BY <1>2, <1>3, <1>5, Appended
<1>7. \A d \in Cores : (HeldBy')[d] \in Seq(Store!Items) /\ Len((HeldBy')[d]) <= 2
  BY <1>2, <1>5, <1>6
<1>8. HeldBy' = [d \in Cores |-> (HeldBy')[d]]
  BY DEF HeldBy
<1> QED
  BY <1>4, <1>7, <1>8 DEF Queues

\* A core gives up the first reference it holds.
LEMMA HoldsLess ==
  ASSUME ItemTypes, NEW c \in Cores, NEW u \in CoreStates, core' = [core EXCEPT ![c] = u],
         HeldOf(core[c]) # <<>>, HeldOf(u) = Tail(HeldOf(core[c]))
  PROVE  Queues(HeldBy', 2) /\ Popped(HeldBy, HeldBy', c)
<1>1. Queues(HeldBy, 2) /\ core \in [Cores -> CoreStates]
  BY DEF ItemTypes
<1>2. /\ (HeldBy')[c] = HeldOf(u)
      /\ \A d \in Cores \ {c} : (HeldBy')[d] = HeldBy[d]
  BY <1>1, OneCore
<1>3. HeldBy[c] = HeldOf(core[c])
  BY HeldIs
<1>4. Popped(HeldBy, HeldBy', c)
  BY <1>2, <1>3 DEF Popped
<1>5. HeldBy[c] \in Seq(Store!Items) /\ \A d \in Cores : HeldBy[d] \in Seq(Store!Items) /\ Len(HeldBy[d]) <= 2
  BY <1>1 DEF Queues
<1>6. (HeldBy')[c] \in Seq(Store!Items) /\ Len((HeldBy')[c]) <= 2
  BY <1>2, <1>3, <1>5, Shortened
<1>7. \A d \in Cores : (HeldBy')[d] \in Seq(Store!Items) /\ Len((HeldBy')[d]) <= 2
  BY <1>2, <1>5, <1>6
<1>8. HeldBy' = [d \in Cores |-> (HeldBy')[d]]
  BY DEF HeldBy
<1> QED
  BY <1>4, <1>7, <1>8 DEF Queues

\* A core takes a step and holds what it held.
LEMMA HoldsSame ==
  ASSUME ItemTypes, NEW c \in Cores, NEW u \in CoreStates, core' = [core EXCEPT ![c] = u],
         HeldOf(u) = HeldOf(core[c])
  PROVE  HeldBy' = HeldBy /\ Queues(HeldBy', 2)
<1>1. core \in [Cores -> CoreStates] /\ Queues(HeldBy, 2)
  BY DEF ItemTypes
<1>2. /\ (HeldBy')[c] = HeldOf(u)
      /\ \A d \in Cores \ {c} : (HeldBy')[d] = HeldBy[d]
  BY <1>1, OneCore
<1>3. HeldBy[c] = HeldOf(core[c])
  BY HeldIs
<1>4. \A d \in Cores : (HeldBy')[d] = HeldBy[d]
  BY <1>2, <1>3
<1>5. HeldBy' = HeldBy
  BY <1>4 DEF HeldBy
<1> QED
  BY <1>1, <1>5

\* A core holds the same two references in the other order.
LEMMA HoldsRotated ==
  ASSUME Store!StoreAssumption, ItemTypes, NEW c \in Cores, NEW u \in CoreStates,
         core' = [core EXCEPT ![c] = u], NEW m \in Store!Items, NEW n \in Store!Items,
         HeldOf(core[c]) = <<m, n>>, HeldOf(u) = <<n, m>>
  PROVE  /\ Queues(HeldBy', 2)
         /\ \A i \in Store!Items : Store!Uses(HeldBy', 2, i) = Store!Uses(HeldBy, 2, i)
<1> DEFINE Q == [d \in Cores |-> IF d = c THEN <<n>> ELSE HeldBy[d]]
<1>1. Queues(HeldBy, 2) /\ core \in [Cores -> CoreStates]
  BY DEF ItemTypes
<1>2. /\ (HeldBy')[c] = <<n, m>> /\ HeldBy[c] = <<m, n>>
      /\ \A d \in Cores \ {c} : (HeldBy')[d] = HeldBy[d]
  BY <1>1, OneCore, HeldIs
<1>3. \A d \in Cores : HeldBy[d] \in Seq(Store!Items) /\ Len(HeldBy[d]) <= 2
  BY <1>1 DEF Queues
<1>4. /\ <<n>> \in Seq(Store!Items) /\ Len(<<n>>) = 1 /\ <<n, m>> \in Seq(Store!Items) /\ Len(<<n, m>>) = 2
      /\ Tail(<<m, n>>) = <<n>> /\ Append(<<n>>, m) = <<n, m>> /\ Head(<<m, n>>) = m
      /\ <<m, n>> # <<>>
  <2>1. /\ <<n>> \in Seq(Store!Items) /\ Len(<<n>>) = 1 /\ <<n, m>> \in Seq(Store!Items) /\ Len(<<n, m>>) = 2
        /\ <<m, n>> # <<>> /\ Head(<<m, n>>) = m
    OBVIOUS
  <2>2. <<m, n>> \in Seq(Store!Items) /\ Len(<<m, n>>) = 2
    OBVIOUS
  <2>3. Tail(<<m, n>>) \in Seq(Store!Items) /\ Len(Tail(<<m, n>>)) = 1 /\ Tail(<<m, n>>)[1] = <<m, n>>[2]
    BY <2>1, <2>2, HeadTailProperties
  <2>4. Tail(<<m, n>>) = <<n>>
    BY <2>1, <2>3, SeqEqual
  <2>5. Append(<<n>>, m) = <<n, m>>
    <3>1. /\ Append(<<n>>, m) \in Seq(Store!Items) /\ Len(Append(<<n>>, m)) = 2
          /\ Append(<<n>>, m)[1] = n /\ Append(<<n>>, m)[2] = m
      BY <2>1, Appended
    <3>2. <<n, m>>[1] = n /\ <<n, m>>[2] = m
      OBVIOUS
    <3>3. PICK v \in Seq(Store!Items) : v = Append(<<n>>, m) /\ Len(v) = 2 /\ v[1] = n /\ v[2] = m
      BY <3>1, Zenon
    <3>4. PICK w \in Seq(Store!Items) : w = <<n, m>> /\ Len(w) = 2 /\ w[1] = n /\ w[2] = m
      BY <2>1, <3>2, Zenon
    <3>5. \A i \in 1 .. 2 : v[i] = w[i]
      BY <3>3, <3>4
    <3>6. v = w
      BY <3>3, <3>4, <3>5, SeqEqual
    <3> QED
      BY <3>3, <3>4, <3>6, Zenon
  <2> QED
    BY <2>1, <2>4, <2>5
<1>5. Q \in [Cores -> Seq(Store!Items)] /\ \A d \in Cores : Len(Q[d]) <= 2
  BY <1>3, <1>4
<1>6. Q[c] = <<n>> /\ \A d \in Cores \ {c} : Q[d] = HeldBy[d] /\ (HeldBy')[d] = Q[d]
  BY <1>2
<1> HIDE DEF Q
<1>7. \A d \in Cores : (HeldBy')[d] \in Seq(Store!Items) /\ Len((HeldBy')[d]) <= 2
  BY <1>2, <1>3, <1>4
<1>8. HeldBy' = [d \in Cores |-> (HeldBy')[d]]
  BY DEF HeldBy
<1>9. Queues(HeldBy', 2)
  BY <1>7, <1>8 DEF Queues
<1>10. Queues(Q, 2)
  BY <1>5, Zenon DEF Queues
<1>11. Popped(HeldBy, Q, c)
  BY <1>2, <1>4, <1>6, Zenon DEF Popped
<1>12. Pushed(Q, HeldBy', c, m)
  BY <1>2, <1>4, <1>6, Zenon DEF Pushed
<1>13. ASSUME NEW i \in Store!Items PROVE Store!Uses(HeldBy', 2, i) = Store!Uses(HeldBy, 2, i)
  <2>1. Store!Uses(HeldBy, 2, i) = Store!Uses(Q, 2, i) + (IF Head(HeldBy[c]) = i THEN 1 ELSE 0)
    BY <1>1, <1>10, <1>11, UsesPopped
  <2>2. Store!Uses(HeldBy', 2, i) = Store!Uses(Q, 2, i) + (IF m = i THEN 1 ELSE 0)
    BY <1>9, <1>10, <1>12, UsesPushed
  <2>3. Head(HeldBy[c]) = m
    BY <1>2, <1>4, Zenon
  <2> HIDE DEF Queues, Pushed, Popped
  <2> QED
    BY <2>1, <2>2, <2>3
<1> QED
  BY <1>9, <1>13

(***************************************************************************)
(* Counting references.                                                    *)
(***************************************************************************)

StoredAs(t, i) == Cardinality({k \in Keys : t[k] = i})
Refs(t, q, h, i) == StoredAs(t, i) + Store!Uses(q, CqSize, i) + Store!Uses(h, 2, i)

\* The references to an item, as a function of the tables that hold them.
LEMMA RefsAre ==
  ASSUME NEW i
  PROVE  /\ Store!References(i) = Refs(table, cq, HeldBy, i)
         /\ Store!References(i)' = Refs(table', cq', HeldBy', i)
<1>1. Store!References(i) = Refs(table, cq, HeldBy, i)
  BY Zenon DEF Store!References, Refs, StoredAs, HeldBy, Store!Cardinality, Cardinality
<1>2. Store!References(i)' = Refs(table', cq', HeldBy', i)
  BY Zenon DEF Store!References, Refs, StoredAs, HeldBy, Store!Cardinality, Cardinality
<1> QED
  BY <1>1, <1>2

\* Finitely many keys have an item, ...
LEMMA StoredFinite ==
  ASSUME Store!StoreAssumption, NEW t, NEW i
  PROVE  IsFiniteSet({k \in Keys : t[k] = i}) /\ StoredAs(t, i) \in Nat
<1>1. IsFiniteSet({k \in Keys : t[k] = i})
  BY Sizes, FS_Subset
<1> QED
  BY <1>1, FS_CardinalityType DEF StoredAs

\* ... so the references to an item have a number.
LEMMA RefsNat ==
  ASSUME Store!StoreAssumption, NEW t, NEW q, NEW h, NEW i
  PROVE  /\ StoredAs(t, i) \in Nat /\ Store!Uses(q, CqSize, i) \in Nat
         /\ Store!Uses(h, 2, i) \in Nat /\ Refs(t, q, h, i) \in Nat
<1>1. StoredAs(t, i) \in Nat
  BY StoredFinite
<1>2. CqSize \in Nat
  BY Sizes
<1>3. Store!Uses(q, CqSize, i) \in Nat
  BY <1>2, PlacesFinite
<1>4. Store!Uses(h, 2, i) \in Nat
  BY PlacesFinite
<1> QED
  BY <1>1, <1>3, <1>4 DEF Refs

\* An item with no count is stored nowhere; one that is stored has a count.
LEMMA StoredSome ==
  ASSUME Store!StoreAssumption, NEW t, NEW k \in Keys
  PROVE  StoredAs(t, t[k]) > 0
<1>1. k \in {j \in Keys : t[j] = t[k]}
  OBVIOUS
<1>2. IsFiniteSet({j \in Keys : t[j] = t[k]})
  BY StoredFinite, Zenon
<1>3. Cardinality({j \in Keys : t[j] = t[k]}) # 0
  BY <1>1, <1>2, FS_EmptySet, Zenon
<1>4. StoredAs(t, t[k]) # 0 /\ StoredAs(t, t[k]) \in Nat
  BY <1>3, StoredFinite, Zenon DEF StoredAs
<1> QED
  BY <1>4

\* t becomes r as item n takes the place of key k.
Replacing(t, r, k, n) == k \in Keys /\ t[k] # n /\ r[k] = n /\ \A j \in Keys \ {k} : r[j] = t[j]

\* A key that gets another item: one key more for that, one less for the old
\* one.
LEMMA StoredInstead ==
  ASSUME Store!StoreAssumption, NEW t, NEW r, NEW k, NEW n, Replacing(t, r, k, n), NEW i
  PROVE  StoredAs(r, i) = IF i = n THEN StoredAs(t, i) + 1
                          ELSE IF i = t[k] THEN StoredAs(t, i) - 1 ELSE StoredAs(t, i)
<1> DEFINE A == {j \in Keys : t[j] = i}
           B == {j \in Keys : r[j] = i}
<1>0. k \in Keys /\ t[k] # n /\ r[k] = n /\ \A j \in Keys \ {k} : r[j] = t[j]
  BY Zenon DEF Replacing
<1>1. IsFiniteSet(A) /\ StoredAs(t, i) = Cardinality(A) /\ StoredAs(r, i) = Cardinality(B)
      /\ Cardinality(A) \in Nat
  BY StoredFinite DEF StoredAs
<1>2. CASE i = n
  <2>1. B = A \cup {k} /\ k \notin A
    BY <1>0, <1>2
  <2> QED
    BY <1>1, <1>2, <2>1, FS_AddElement
<1>3. CASE i # n /\ i = t[k]
  <2>1. B = A \ {k} /\ k \in A
    BY <1>0, <1>3
  <2> QED
    BY <1>1, <1>3, <2>1, FS_RemoveElement
<1>4. CASE i # n /\ i # t[k]
  <2>1. B = A
    BY <1>0, <1>4
  <2> QED
    BY <1>1, <1>4, <2>1
<1> QED
  BY <1>2, <1>3, <1>4

\* An item in use is one that is stored, queued or held.
LEMMA UsedCounts ==
  ASSUME Store!StoreAssumption, ItemTypes, Store!Counted
  PROVE  /\ \A i \in Store!Items : item[i].ref = Refs(table, cq, HeldBy, i) /\ item[i].ref \in Nat
         /\ \A k \in Keys : table[k] # None => table[k] \in Store!Items /\ item[table[k]].ref > 0
         /\ \A c \in Cores : \A n \in 1 .. Len(cq[c]) : cq[c][n] \in Store!Items /\ item[cq[c][n]].ref > 0
         /\ \A c \in Cores : \A n \in 1 .. Len(HeldBy[c]) :
               HeldBy[c][n] \in Store!Items /\ item[HeldBy[c][n]].ref > 0
<1>1. \A i \in Store!Items : item[i].ref = Refs(table, cq, HeldBy, i)
  BY RefsAre DEF Store!Counted, Store!Items
<1>2. \A i \in Store!Items : item[i].ref \in Nat
  BY DEF ItemTypes, Entries
<1>3. ASSUME NEW k \in Keys, table[k] # None PROVE table[k] \in Store!Items /\ item[table[k]].ref > 0
  <2>1. table[k] \in Store!Items
    BY <1>3 DEF ItemTypes
  <2>2. item[table[k]].ref = Refs(table, cq, HeldBy, table[k])
    BY <1>1, <2>1
  <2>3. StoredAs(table, table[k]) > 0
    BY StoredSome
  <2> QED
    BY <2>1, <2>2, <2>3, RefsNat DEF Refs
<1>4. ASSUME NEW c \in Cores, NEW n \in 1 .. Len(cq[c])
      PROVE  cq[c][n] \in Store!Items /\ item[cq[c][n]].ref > 0
  <2>1. Queues(cq, CqSize) /\ CqSize \in Nat
    BY Sizes DEF ItemTypes
  <2>2. cq[c][n] \in Store!Items
    BY <2>1 DEF Queues
  <2>3. item[cq[c][n]].ref = Refs(table, cq, HeldBy, cq[c][n])
    BY <1>1, <2>2
  <2>4. Store!Uses(cq, CqSize, cq[c][n]) > 0
    BY <2>1, UsesSome
  <2> QED
    BY <2>2, <2>3, <2>4, RefsNat DEF Refs
<1>5. ASSUME NEW c \in Cores, NEW n \in 1 .. Len(HeldBy[c])
      PROVE  HeldBy[c][n] \in Store!Items /\ item[HeldBy[c][n]].ref > 0
  <2>1. Queues(HeldBy, 2)
    BY DEF ItemTypes
  <2>2. HeldBy[c][n] \in Store!Items
    BY <2>1 DEF Queues
  <2>3. item[HeldBy[c][n]].ref = Refs(table, cq, HeldBy, HeldBy[c][n])
    BY <1>1, <2>2
  <2>4. Store!Uses(HeldBy, 2, HeldBy[c][n]) > 0
    BY <2>1, UsesSome
  <2> QED
    BY <2>2, <2>3, <2>4, RefsNat DEF Refs
<1> QED
  BY <1>1, <1>2, <1>3, <1>4, <1>5

(***************************************************************************)
(* Segments.                                                               *)
(***************************************************************************)

\* The fields of a segment.
LEMMA SegIs ==
  ASSUME Store!StoreAssumption, ItemTypes, Filling, NEW s \in Segments
  PROVE  /\ seg[s].offset \in Nat /\ seg[s].freed \in Nat
         /\ seg[s].inactive \in BOOLEAN /\ seg[s].cleaned \in BOOLEAN
         /\ seg[s].offset <= SegSize /\ seg[s].offset \in Marks
<1>1. seg[s] \in SegStates
  BY DEF ItemTypes
<1>2. /\ seg[s].offset \in Nat /\ seg[s].freed \in Nat
      /\ seg[s].inactive \in BOOLEAN /\ seg[s].cleaned \in BOOLEAN
  BY <1>1 DEF SegStates
<1>3. seg[s].offset \in Marks
  BY DEF Filling
<1> QED
  BY <1>2, <1>3, OffsetsRight

\* The last segment of a log.
LEMMA CurIs ==
  ASSUME ItemTypes, Filling, NEW c \in Cores
  PROVE  /\ log[c] \in Seq(Segments)
         /\ Len(log[c]) \in Nat /\ Len(log[c]) > 0 /\ Len(log[c]) \in 1 .. Len(log[c])
         /\ Store!Cur(c) \in Segments /\ log[c][Len(log[c])] = Store!Cur(c)
<1>1. log[c] \in Seq(Segments) /\ Len(log[c]) > 0
  BY DEF ItemTypes, Filling
<1> QED
  BY <1>1 DEF Store!Cur

\* An item that no one refers to, in the words of ItemInv.
Unused(n) == n \in Store!Items /\ item[n].ref = 0

\* An item that is not in use has no reference.
LEMMA NotLive ==
  ASSUME ItemTypes, NEW n \in Store!Items, n \notin Store!Live
  PROVE  Unused(n)
<1>1. item[n].ref \in Nat
  BY DEF ItemTypes, Entries
<1>2. ~(item[n].ref > 0)
  BY DEF Store!Live, Store!Items
<1> QED
  BY <1>1, <1>2 DEF Unused

\* The place found for the next item is that of no item in use.
LEMMA RoomIsUnused ==
  ASSUME Store!StoreAssumption, ItemTypes, Filling, Store!Placed, NEW c \in Cores, Store!Room(c)
  PROVE  Unused(<<Store!Cur(c), seg[Store!Cur(c)].offset>>)
<1> DEFINE s == Store!Cur(c)
           o == seg[s].offset
<1>1. s \in Segments
  BY CurIs
<1>2. o \in Nat /\ o \in Marks
  BY <1>1, SegIs
<1>3. o + ItemSize <= SegSize
  BY DEF Store!Room
<1>4. o \in Offsets
  BY <1>2, <1>3, OffsetsRight
<1>5. ItemSize \in Nat /\ ItemSize > 0
  BY Sizes
<1> HIDE DEF s
<1>6. <<s, o>> \in Store!Items
  BY <1>1, <1>4, ItemsAre
<1>7. <<s, o>> \notin Store!Live
  BY <1>2, <1>5 DEF Store!Placed
<1>8. Unused(<<s, o>>)
  BY <1>6, <1>7, NotLive
<1> QED
  BY <1>8 DEF s

\* Nothing in a free segment is in use, ...
LEMMA FreeIsUnused ==
  ASSUME Store!StoreAssumption, ItemTypes, Filling, Store!Placed, NEW n \in 1 .. Len(free_segments)
  PROVE  Unused(<<free_segments[n], 0>>) /\ free_segments[n] \in Segments
<1>1. free_segments \in Seq(Segments)
  BY DEF ItemTypes
<1>2. PICK s \in Segments : s = free_segments[n]
  BY <1>1
<1>3. s \in Store!FreeSegments
  <2>1. n \in DOMAIN free_segments
    BY <1>1
  <2> QED
    BY <1>2, <2>1, InRange, Zenon DEF Store!FreeSegments, Store!Range, Range
<1>4. <<s, 0>> \in Store!Items
  BY <1>2, OffsetsRight, Sizes, ItemsAre
<1>5. <<s, 0>> \notin Store!Live
  BY <1>3 DEF Store!Placed
<1> QED
  BY <1>2, <1>4, <1>5, NotLive

\* ... nor in the reserve of a core.
LEMMA ReserveIsUnused ==
  ASSUME Store!StoreAssumption, ItemTypes, Filling, Store!Placed, NEW c \in Cores, reserved[c] # None
  PROVE  Unused(<<reserved[c], 0>>) /\ reserved[c] \in Segments
<1>1. PICK s \in Segments : s = reserved[c]
  BY DEF ItemTypes
<1>2. seg[s].offset = 0
  BY <1>1 DEF Filling, Store!Empty
<1>3. <<s, 0>> \in Store!Items
  BY <1>1, OffsetsRight, Sizes, ItemsAre
<1>4. ItemSize \in Nat /\ ItemSize > 0
  BY Sizes
<1>5. <<s, 0>> \notin Store!Live
  BY <1>2, <1>4 DEF Store!Placed
<1> QED
  BY <1>1, <1>3, <1>5, NotLive

\* Segment h can take items: nothing refers to it.
Blank(h) == /\ h \in Segments /\ Unused(<<h, 0>>)
            /\ \A i \in Store!Items : i[1] = h => item[i].ref = 0
            /\ \A c \in Cores : \A n \in 1 .. Len(log[c]) : log[c][n] # h

\* The first free segment is in no log and holds nothing, ...
LEMMA FreeIsBlank ==
  ASSUME Store!StoreAssumption, ItemTypes, Apart, Filling, Store!Placed, free_segments # <<>>
  PROVE  /\ Head(free_segments) = free_segments[1] /\ Blank(Head(free_segments))
         /\ 1 \in 1 .. Len(free_segments)
<1>1. free_segments \in Seq(Segments)
  BY DEF ItemTypes
<1>2. Head(free_segments) = free_segments[1] /\ 1 \in 1 .. Len(free_segments)
  BY <1>1, Shortened
<1>3. PICK h \in Segments : h = free_segments[1] /\ Unused(<<h, 0>>)
  BY <1>2, FreeIsUnused
<1>4. h \in Store!FreeSegments
  <2>1. 1 \in DOMAIN free_segments
    BY <1>1, <1>2
  <2> QED
    BY <1>3, <2>1, InRange, Zenon DEF Store!FreeSegments, Store!Range, Range
<1>5. ASSUME NEW i \in Store!Items, i[1] = h PROVE item[i].ref = 0
  <2>1. i \notin Store!Live
    BY <1>4, <1>5 DEF Store!Placed
  <2> QED
    BY <2>1, NotLive DEF Unused
<1>6. \A c \in Cores : \A n \in 1 .. Len(log[c]) : log[c][n] # h
  BY <1>2, <1>3 DEF Apart
<1> QED
  BY <1>2, <1>3, <1>5, <1>6 DEF Blank

\* ... and so is the reserve of a core.
LEMMA ReserveIsBlank ==
  ASSUME Store!StoreAssumption, ItemTypes, Apart, Filling, Store!Placed,
         NEW c \in Cores, reserved[c] # None
  PROVE  Blank(reserved[c])
<1>1. PICK h \in Segments : h = reserved[c] /\ Unused(<<h, 0>>)
  BY ReserveIsUnused
<1>2. seg[h].offset = 0
  BY <1>1 DEF Filling, Store!Empty
<1>3. ItemSize \in Nat /\ ItemSize > 0
  BY Sizes
<1>4. ASSUME NEW i \in Store!Items, i[1] = h PROVE item[i].ref = 0
  <2>1. i[2] \in Nat
    BY ItemsAre, OffsetsRight
  <2>2. i \notin Store!Live
    BY <1>2, <1>3, <1>4, <2>1 DEF Store!Placed
  <2> QED
    BY <2>2, NotLive DEF Unused
<1>5. \A d \in Cores : \A n \in 1 .. Len(log[d]) : log[d][n] # h
  BY <1>1 DEF Apart
<1> QED
  BY <1>1, <1>4, <1>5 DEF Blank

(***************************************************************************)
(* Space in use.                                                           *)
(***************************************************************************)

InUse(s) == {i \in Store!Live : i[1] = s}
Unfree(s) == \A n \in 1 .. Len(free_segments) : free_segments[n] # s

\* There are finitely many items, ...
LEMMA ItemsFinite ==
  ASSUME Store!StoreAssumption
  PROVE  IsFiniteSet(Store!Items)
<1>1. Offsets \subseteq 0 .. SegSize
  <2>1. ASSUME NEW o \in Offsets PROVE o \in 0 .. SegSize
    <3>1. o \in Nat /\ o + ItemSize \in Marks
      BY OffsetsRight
    <3>2. o + ItemSize <= SegSize /\ ItemSize \in Nat /\ SegSize \in Nat
      BY <3>1, OffsetsRight, Sizes
    <3> QED
      BY <3>1, <3>2
  <2> QED
    BY <2>1
<1>2. SegSize \in Nat
  BY Sizes
<1>3. IsFiniteSet(0 .. SegSize)
  BY <1>2, FS_Interval
<1>4. IsFiniteSet(Offsets)
  BY <1>1, <1>3, FS_Subset
<1> QED
  BY <1>4, Sizes, FS_Product, ItemsAre

\* ... so those in use in a segment have a number.
LEMMA InUseFinite ==
  ASSUME Store!StoreAssumption, NEW s
  PROVE  /\ IsFiniteSet(InUse(s)) /\ Cardinality(InUse(s)) \in Nat
         /\ IsFiniteSet(InUse(s)') /\ Cardinality(InUse(s)') \in Nat
<1>1. InUse(s) \subseteq Store!Items /\ InUse(s)' \subseteq Store!Items
  BY DEF InUse, Store!Live, Store!Items
<1>2. IsFiniteSet(InUse(s)) /\ IsFiniteSet(InUse(s)')
  BY <1>1, ItemsFinite, FS_Subset
<1> QED
  BY <1>2, FS_CardinalityType

\* A segment is off the free list when no place of the list has it.
LEMMA FreeIs ==
  ASSUME NEW s
  PROVE  /\ free_segments \in Seq(Segments) => (s \notin Store!FreeSegments <=> Unfree(s))
         /\ free_segments' \in Seq(Segments) => (s \notin Store!FreeSegments' <=> Unfree(s)')
<1>1. ASSUME free_segments \in Seq(Segments) PROVE DOMAIN free_segments = 1 .. Len(free_segments)
  BY <1>1
<1>2. ASSUME free_segments' \in Seq(Segments) PROVE DOMAIN free_segments' = 1 .. Len(free_segments')
  BY <1>2
<1> QED
  BY <1>1, <1>2, InRange, Zenon DEF Store!FreeSegments, Unfree, Store!Range, Range

\* The space of segment s is accounted for.
SpaceOf(s) == seg[s].freed + ItemSize * Cardinality(InUse(s)) = seg[s].offset

\* Accounted, segment by segment.
LEMMA AccountedIs ==
  /\ free_segments \in Seq(Segments)
     => (Store!Accounted <=> \A s \in Segments : Unfree(s) => SpaceOf(s))
  /\ free_segments' \in Seq(Segments)
     => (Store!Accounted' <=> \A s \in Segments : Unfree(s)' => SpaceOf(s)')
<1>1. ASSUME NEW s PROVE SpaceOf(s) <=>
        seg[s].freed + ItemSize * Cardinality({i \in Store!Live : i[1] = s}) = seg[s].offset
  BY Zenon DEF SpaceOf, InUse
<1>2. ASSUME NEW s PROVE SpaceOf(s)' <=>
        (seg'[s].freed + ItemSize * Cardinality({i \in Store!Live' : i[1] = s}) = seg'[s].offset)
  BY Zenon DEF SpaceOf, InUse
<1>3. ASSUME free_segments \in Seq(Segments)
      PROVE  Store!Accounted <=> \A s \in Segments : Unfree(s) => SpaceOf(s)
  BY <1>1, <1>3, FreeIs, Zenon DEF Store!Accounted, Store!Cardinality, Cardinality
<1>4. ASSUME free_segments' \in Seq(Segments)
      PROVE  Store!Accounted' <=> \A s \in Segments : Unfree(s)' => SpaceOf(s)'
  BY <1>2, <1>4, FreeIs, Zenon DEF Store!Accounted, Store!Cardinality, Cardinality
<1> QED
  BY <1>3, <1>4

\* Multiplication by one more, by 0 and by 1.
LEMMA OneMore ==
  ASSUME NEW a \in Nat, NEW n \in Nat
  PROVE  a * n \in Nat /\ a * (n + 1) = a * n + a /\ a * 0 = 0 /\ a * 1 = a
BY SMTT(60)

\* The space of s when the same items are in use ...
LEMMA SpaceSame ==
  ASSUME Store!StoreAssumption, NEW s, SpaceOf(s), InUse(s)' = InUse(s),
         seg[s].freed \in Nat, seg[s].offset \in Nat, NEW g \in Int,
         seg'[s].freed = seg[s].freed + g, seg'[s].offset = seg[s].offset + g
  PROVE  SpaceOf(s)'
<1>1. PICK u \in Nat : u = Cardinality(InUse(s)) /\ u = Cardinality(InUse(s)')
  BY InUseFinite
<1>2. PICK w \in Nat : w = ItemSize * u
  BY Sizes, OneMore
<1>3. seg[s].freed + w = seg[s].offset
  BY <1>1, <1>2, Zenon DEF SpaceOf
<1>4. seg'[s].freed + w = seg'[s].offset
  BY <1>2, <1>3
<1> QED
  BY <1>1, <1>2, <1>4, Zenon DEF SpaceOf

\* ... when one more is, at the end ...
LEMMA SpaceMore ==
  ASSUME Store!StoreAssumption, NEW s, SpaceOf(s), NEW n, n \notin InUse(s), InUse(s)' = InUse(s) \cup {n},
         seg[s].freed \in Nat, seg[s].offset \in Nat,
         seg'[s].freed = seg[s].freed, seg'[s].offset = seg[s].offset + ItemSize
  PROVE  SpaceOf(s)'
<1>1. PICK u \in Nat : u = Cardinality(InUse(s)) /\ u + 1 = Cardinality(InUse(s)')
  <2>1. Cardinality(InUse(s) \cup {n}) = Cardinality(InUse(s)) + 1
    BY InUseFinite, FS_AddElement, Zenon
  <2> QED
    BY <2>1, InUseFinite, Zenon
<1>2. PICK w \in Nat : w = ItemSize * u /\ ItemSize * (u + 1) = w + ItemSize
  BY Sizes, OneMore
<1>3. seg[s].freed + w = seg[s].offset
  BY <1>1, <1>2, Zenon DEF SpaceOf
<1>4. seg'[s].freed + (w + ItemSize) = seg'[s].offset
  <2>1. ItemSize \in Nat
    BY Sizes, Zenon
  <2> QED
    BY <1>2, <1>3, <2>1
<1>5. seg'[s].freed + ItemSize * Cardinality(InUse(s)') = seg'[s].offset
  BY <1>1, <1>2, <1>4, Zenon
<1> QED
  BY <1>5, Zenon DEF SpaceOf

\* ... and when one is free.
LEMMA SpaceLess ==
  ASSUME Store!StoreAssumption, NEW s, SpaceOf(s), NEW n, n \in InUse(s), InUse(s)' = InUse(s) \ {n},
         seg[s].freed \in Nat, seg[s].offset \in Nat,
         seg'[s].freed = seg[s].freed + ItemSize, seg'[s].offset = seg[s].offset
  PROVE  SpaceOf(s)'
<1>1. PICK u \in Nat : u = Cardinality(InUse(s)') /\ u + 1 = Cardinality(InUse(s))
  <2>1. Cardinality(InUse(s) \ {n}) = Cardinality(InUse(s)) - 1
    BY InUseFinite, FS_RemoveElement, Zenon
  <2>2. PICK u \in Nat : u = Cardinality(InUse(s)')
    BY InUseFinite, Zenon
  <2>3. PICK v \in Nat : v = Cardinality(InUse(s))
    BY InUseFinite, Zenon
  <2>4. u = v - 1
    BY <2>1, <2>2, <2>3, Zenon
  <2>5. u + 1 = v
    BY <2>4
  <2> QED
    BY <2>2, <2>3, <2>5, Zenon
<1>2. PICK w \in Nat : w = ItemSize * u /\ ItemSize * (u + 1) = w + ItemSize
  BY Sizes, OneMore
<1>3. seg[s].freed + (w + ItemSize) = seg[s].offset
  BY <1>1, <1>2, Zenon DEF SpaceOf
<1>4. seg'[s].freed + w = seg'[s].offset
  <2>1. ItemSize \in Nat
    BY Sizes, Zenon
  <2> QED
    BY <1>2, <1>3, <2>1
<1>5. seg'[s].freed + ItemSize * Cardinality(InUse(s)') = seg'[s].offset
  BY <1>1, <1>2, <1>4, Zenon
<1> QED
  BY <1>5, Zenon DEF SpaceOf

\* A full segment without free space has no item in use.
LEMMA AllFree ==
  ASSUME Store!StoreAssumption, NEW s, SpaceOf(s), seg[s].freed = SegSize, seg[s].offset = SegSize
  PROVE  InUse(s) = {}
<1>1. PICK u \in Nat : u = Cardinality(InUse(s))
  BY InUseFinite
<1>2. SegSize + ItemSize * u = SegSize
  BY <1>1, Zenon DEF SpaceOf
<1>3. u = 0
  <2>1. SUFFICES ASSUME u # 0 PROVE FALSE
    OBVIOUS
  <2>2. u - 1 \in Nat /\ (u - 1) + 1 = u /\ ItemSize \in Nat /\ SegSize \in Nat /\ ItemSize > 0
    BY <2>1, Sizes
  <2>3. PICK w \in Nat : w = ItemSize * (u - 1) /\ ItemSize * ((u - 1) + 1) = w + ItemSize
    BY <2>2, OneMore
  <2>4. ItemSize * u = w + ItemSize
    BY <2>2, <2>3, Zenon
  <2> QED
    BY <1>2, <2>2, <2>4
<1> QED
  BY <1>1, <1>3, InUseFinite, FS_EmptySet

(***************************************************************************)
(* Allocation.                                                             *)
(***************************************************************************)

\* The part of the invariant about segments.
Laid == /\ seg \in [Segments -> SegStates] /\ log \in [Cores -> Seq(Segments)]
        /\ reserved \in [Cores -> Segments \cup {None}] /\ free_segments \in Seq(Segments)
        /\ Apart /\ Filling /\ Store!Placed /\ Store!Accounted

\* No segment leaves the log of its core, or leaves the free list as cleaned.
LogsGrow == \A d \in Cores : \A m \in 1 .. Len(log[d]) :
               m \in 1 .. Len(log'[d]) /\ log'[d][m] = log[d][m]
NotReset == \A s \in Segments : seg'[s].cleaned => seg[s].cleaned /\ (Unfree(s)' => Unfree(s))

\* The invariant has the part about segments, ...
LEMMA InvLaid == ItemInv => Laid
BY DEF ItemInv, ItemTypes, Laid, Store!ItemsSafe

NewItem(k, v) == [ref |-> 1, key |-> k, val |-> v]

\* An item that is written where none was in use is in use from then on.
LEMMA ItemAdded ==
  ASSUME ItemTypes, NEW n, Unused(n), NEW k \in Keys, NEW v \in Values,
         item' = [item EXCEPT ![n] = NewItem(k, v)]
  PROVE  /\ item' \in [Store!Items -> Entries] /\ item'[n] = NewItem(k, v)
         /\ \A j \in Store!Items \ {n} : item'[j] = item[j]
         /\ Store!Live' = Store!Live \cup {n} /\ n \in Store!Items
         /\ \A s : n \notin InUse(s)
         /\ InUse(n[1])' = InUse(n[1]) \cup {n}
         /\ \A s : s # n[1] => InUse(s)' = InUse(s)
<1>1. n \in Store!Items /\ item[n].ref = 0 /\ item \in [Store!Items -> Entries]
  BY DEF Unused, ItemTypes
<1>2. item' \in [Store!Items -> Entries] /\ item'[n] = NewItem(k, v)
  BY <1>1 DEF Entries, NewItem
<1>3. \A j \in Store!Items \ {n} : item'[j] = item[j]
  BY <1>1
<1>4. Store!Live' = Store!Live \cup {n} /\ n \notin Store!Live
  <2>1. item'[n].ref = 1
    BY <1>2 DEF NewItem
  <2> QED
    BY <1>1, <1>3, <2>1 DEF Store!Live, Store!Items
<1>5. \A s : n \notin InUse(s)
  BY <1>4 DEF InUse
<1>6. InUse(n[1])' = InUse(n[1]) \cup {n}
  BY <1>4 DEF InUse
<1>7. \A s : s # n[1] => InUse(s)' = InUse(s)
  BY <1>4 DEF InUse
<1> QED
  BY <1>1, <1>2, <1>3, <1>4, <1>5, <1>6, <1>7

\* The next item fits into the current segment ...
LEMMA AllocateInRoom ==
  ASSUME Store!StoreAssumption, ItemInv, NEW c \in Cores, NEW h, NEW k \in Keys, NEW v \in Values,
         Store!Room(c), Store!Allocate(c, h, k, v)
  PROVE  /\ Unused(Store!NextItem(c, h)) /\ item' = [item EXCEPT ![Store!NextItem(c, h)] = NewItem(k, v)]
         /\ Laid' /\ LogsGrow /\ NotReset
<1>1. /\ ItemTypes /\ Apart /\ Filling /\ Store!Placed /\ Store!Accounted
      /\ seg \in [Segments -> SegStates]
  BY DEF ItemInv, Store!ItemsSafe, ItemTypes
<1>2. PICK s \in Segments : /\ s = Store!Cur(c)
                            /\ Len(log[c]) \in 1 .. Len(log[c]) /\ log[c][Len(log[c])] = s
  BY <1>1, CurIs
<1>3. PICK n \in Store!Items : n = <<s, seg[s].offset>> /\ Unused(n)
  BY <1>1, <1>2, RoomIsUnused DEF Unused
<1>4. /\ Store!NextItem(c, h) = n
      /\ item' = [item EXCEPT ![n] = NewItem(k, v)]
      /\ seg' = [seg EXCEPT ![s].offset = @ + ItemSize]
      /\ log' = log /\ reserved' = reserved /\ free_segments' = free_segments
  BY <1>2, <1>3 DEF Store!Allocate, Store!NextItem, Store!logVars, NewItem
<1>5. seg[s].offset + ItemSize <= SegSize
  BY <1>2 DEF Store!Room
<1>55. n[1] = s /\ n[2] = seg[s].offset
  BY <1>3
<1>6. /\ n \in Store!Items /\ Store!Live' = Store!Live \cup {n} /\ \A t : n \notin InUse(t)
      /\ InUse(s)' = InUse(s) \cup {n} /\ \A t : t # s => InUse(t)' = InUse(t)
  <2>1. /\ n \in Store!Items /\ Store!Live' = Store!Live \cup {n} /\ \A t : n \notin InUse(t)
        /\ InUse(n[1])' = InUse(n[1]) \cup {n} /\ \A t : t # n[1] => InUse(t)' = InUse(t)
    BY <1>1, <1>3, <1>4, ItemAdded, Zenon
  <2> QED
    BY <1>55, <2>1, Zenon DEF InUse
<1>7. \A t \in Segments : /\ seg[t].offset \in Nat /\ seg[t].freed \in Nat
                          /\ seg[t].offset \in Marks
  BY <1>1, SegIs
<1>8. ItemSize \in Nat
  BY Sizes
<1>9. /\ seg' \in [Segments -> SegStates]
      /\ seg'[s].offset = seg[s].offset + ItemSize /\ seg'[s].freed = seg[s].freed
      /\ seg'[s].cleaned = seg[s].cleaned
      /\ \A t \in Segments \ {s} : seg'[t] = seg[t]
  <2>1. \A t \in Segments \ {s} : seg'[t] = seg[t]
    BY <1>1, <1>4
  <2>2. PICK a \in SegStates : a = seg[s]
    BY <1>1, <1>2
  <2>3. seg'[s] = [a EXCEPT !.offset = a.offset + ItemSize]
    BY <1>1, <1>2, <1>4, <2>2
  <2>4. /\ seg'[s] \in SegStates /\ seg'[s].offset = a.offset + ItemSize
        /\ seg'[s].freed = a.freed /\ seg'[s].cleaned = a.cleaned
    BY <1>8, <2>3 DEF SegStates
  <2>5. seg' = [t \in Segments |-> seg'[t]]
    BY <1>1, <1>4
  <2> QED
    BY <1>1, <2>1, <2>2, <2>4, <2>5
<1>10. Apart'
  BY <1>1, <1>4 DEF Apart
<1>11. Filling'
  <2>1. seg'[s].offset \in Marks
    BY <1>2, <1>5, <1>7, <1>9, OffsetsRight
  <2>2. ASSUME NEW d \in Cores, NEW m \in 1 .. Len(log[d]) - 1
        PROVE  log[d][m] \in Segments \ {s} /\ seg[log[d][m]].offset = SegSize
    <3>1. log[d] \in Seq(Segments) /\ m \in 1 .. Len(log[d])
      BY <1>1 DEF ItemTypes
    <3>2. log[d][m] \in Segments /\ seg[log[d][m]].offset = SegSize
      BY <1>1, <3>1 DEF Filling
    <3>3. SegSize \in Nat /\ ItemSize > 0
      BY Sizes
    <3> QED
      BY <1>5, <1>7, <1>8, <3>2, <3>3
  <2>3. ASSUME NEW d \in Cores, reserved[d] # None PROVE reserved[d] \in Segments \ {s}
    BY <1>1, <1>2, <2>3 DEF Apart, ItemTypes
  <2> QED
    BY <1>1, <1>4, <1>9, <2>1, <2>2, <2>3 DEF Filling
<1>12. Store!Placed'
  <2>1. Unfree(s) /\ free_segments \in Seq(Segments)
    <3>1. \A m \in 1 .. Len(log[c]), j \in 1 .. Len(free_segments) : log[c][m] # free_segments[j]
      BY <1>1 DEF Apart
    <3>2. Unfree(s)
      BY <1>2, <3>1, Zenon DEF Unfree
    <3>3. free_segments \in Seq(Segments)
      BY <1>1 DEF ItemTypes
    <3> QED
      BY <3>2, <3>3
  <2>2. s \notin Store!FreeSegments'
    BY <1>4, <2>1, FreeIs, Zenon DEF Unfree
  <2>3. Store!FreeSegments' = Store!FreeSegments
    BY <1>4, Zenon DEF Store!FreeSegments
  <2>4. ASSUME NEW i \in Store!Live'
        PROVE  i[1] \notin Store!FreeSegments' /\ i[2] + ItemSize <= seg'[i[1]].offset
    <3>1. CASE i = n
      BY <1>55, <1>7, <1>8, <1>2, <1>9, <2>2, <3>1
    <3>2. CASE i # n
      <4>1. i \in Store!Live
        BY <1>6, <3>2
      <4>2. i[1] \notin Store!FreeSegments /\ i[2] + ItemSize <= seg[i[1]].offset
        BY <1>1, <4>1 DEF Store!Placed
      <4>3. i \in Store!Items
        BY <4>1 DEF Store!Live, Store!Items
      <4>4. i[1] \in Segments /\ i[2] \in Nat
        BY <4>3, ItemsAre, OffsetsRight
      <4> QED
        BY <1>7, <1>8, <1>9, <2>3, <4>2, <4>4
    <3> QED
      BY <3>1, <3>2
  <2> QED
    BY <2>4 DEF Store!Placed
<1>13. Store!Accounted'
  <2>1. ASSUME NEW t \in Segments, Unfree(t)' PROVE SpaceOf(t)'
    <3>1. Unfree(t) /\ SpaceOf(t)
      BY <1>1, <1>4, <2>1, AccountedIs DEF Unfree, ItemTypes
    <3>2. CASE t = s
      BY <1>2, <1>6, <1>7, <1>9, <3>1, <3>2, SpaceMore
    <3>3. CASE t # s
      <4>1. /\ InUse(t)' = InUse(t) /\ seg[t].freed \in Nat /\ seg[t].offset \in Nat
            /\ seg'[t].freed = seg[t].freed + 0 /\ seg'[t].offset = seg[t].offset + 0
        BY <1>6, <1>7, <1>9, <3>3
      <4> QED
        BY <3>1, <4>1, SpaceSame
    <3> QED
      BY <3>2, <3>3
  <2>2. free_segments' \in Seq(Segments)
    BY <1>1, <1>4 DEF ItemTypes
  <2> QED
    BY <2>1, <2>2, AccountedIs
<1>14. LogsGrow
  BY <1>4, Zenon DEF LogsGrow
<1>15. NotReset
  BY <1>4, <1>9 DEF NotReset, Unfree
<1>16. Laid'
  BY <1>1, <1>4, <1>9, <1>10, <1>11, <1>12, <1>13 DEF Laid, ItemTypes
<1> QED
  BY <1>3, <1>4, <1>14, <1>15, <1>16

\* Segment h is not on the free list any more.
OffList(h) ==
    /\ free_segments' \in Seq(Segments)
    /\ \A m, n \in 1 .. Len(free_segments') : free_segments'[m] = free_segments'[n] => m = n
    /\ \A t \in Segments : Unfree(t)' <=> Unfree(t) \/ t = h
\* Segment h is taken from the free list or from a reserve.
Taken(h) ==
    /\ OffList(h)
    /\ reserved' \in [Cores -> Segments \cup {None}]
    /\ \A d \in Cores : reserved'[d] # None => reserved'[d] = reserved[d] /\ reserved[d] # h

\* What is taken from the free list was on it once and in no reserve, ...
LEMMA HeadOffList ==
  ASSUME Store!StoreAssumption, ItemTypes, Apart, free_segments # <<>>,
         free_segments' = Tail(free_segments)
  PROVE  /\ OffList(Head(free_segments))
         /\ \A d \in Cores : reserved[d] # Head(free_segments)
<1>1. free_segments \in Seq(Segments) /\ reserved \in [Cores -> Segments \cup {None}]
  BY DEF ItemTypes
<1>2. PICK l \in Nat : l = Len(free_segments) /\ 1 <= l
  BY <1>1, Shortened
<1>3. PICK h \in Segments : h = Head(free_segments) /\ h = free_segments[1]
  BY <1>1, Shortened
<1>4. /\ free_segments' \in Seq(Segments) /\ Len(free_segments') = l - 1
      /\ \A n \in 1 .. l - 1 : free_segments'[n] = free_segments[n + 1]
  BY <1>1, <1>2, Shortened
<1>5. /\ \A m, n \in 1 .. l : free_segments[m] = free_segments[n] => m = n
      /\ \A d \in Cores : \A n \in 1 .. l : reserved[d] # free_segments[n]
  BY <1>2 DEF Apart
<1>6. \A m, n \in 1 .. l - 1 : free_segments'[m] = free_segments'[n] => m = n
  <2>1. SUFFICES ASSUME NEW m \in 1 .. l - 1, NEW n \in 1 .. l - 1,
                        free_segments'[m] = free_segments'[n]
                 PROVE  m = n
    OBVIOUS
  <2>2. m + 1 \in 1 .. l /\ n + 1 \in 1 .. l
    BY <1>2
  <2>3. free_segments[m + 1] = free_segments[n + 1]
    BY <1>4, <2>1
  <2>4. m + 1 = n + 1
    BY <1>5, <2>2, <2>3, Zenon
  <2> QED
    BY <1>2, <2>4
<1>7. ASSUME NEW t \in Segments PROVE Unfree(t)' <=> Unfree(t) \/ t = h
  <2>1. ASSUME Unfree(t)' PROVE Unfree(t) \/ t = h
    <3>1. \A n \in 1 .. l - 1 : free_segments[n + 1] # t
      BY <1>4, <2>1 DEF Unfree
    <3>2. \A n \in 2 .. l : free_segments[n] # t
      <4>1. ASSUME NEW n \in 2 .. l PROVE free_segments[n] # t
        <5>1. n - 1 \in 1 .. l - 1 /\ (n - 1) + 1 = n
          BY <1>2
        <5> QED
          BY <3>1, <5>1
      <4> QED
        BY <4>1
    <3> QED
      BY <1>2, <1>3, <3>2 DEF Unfree
  <2>2. ASSUME Unfree(t) PROVE Unfree(t)'
    <3>1. \A n \in 1 .. l - 1 : n + 1 \in 1 .. l
      BY <1>2
    <3> QED
      BY <1>2, <1>4, <2>2, <3>1 DEF Unfree
  <2>3. Unfree(h)'
    <3>1. \A n \in 1 .. l - 1 : n + 1 \in 1 .. l /\ n + 1 # 1 /\ 1 \in 1 .. l
      BY <1>2
    <3>2. \A n \in 1 .. l - 1 : free_segments[n + 1] # free_segments[1]
      BY <1>5, <3>1, Zenon
    <3> QED
      BY <1>3, <1>4, <3>2 DEF Unfree
  <2> QED
    BY <2>1, <2>2, <2>3
<1>8. \A d \in Cores : reserved[d] # h
  <2>1. 1 \in 1 .. l
    BY <1>2
  <2> QED
    BY <1>3, <1>5, <2>1, Zenon
<1> QED
  BY <1>1, <1>3, <1>4, <1>6, <1>7, <1>8 DEF OffList

\* ... so it is nowhere else, ...
LEMMA HeadTaken ==
  ASSUME Store!StoreAssumption, ItemTypes, Apart, free_segments # <<>>,
         free_segments' = Tail(free_segments), reserved' = reserved
  PROVE  Taken(Head(free_segments))
<1>1. reserved \in [Cores -> Segments \cup {None}]
  BY DEF ItemTypes
<1> QED
  BY <1>1, HeadOffList DEF Taken

\* ... and neither is a reserve that its core takes into use.
LEMMA ReserveTaken ==
  ASSUME Store!StoreAssumption, ItemTypes, Apart, NEW c \in Cores, reserved[c] # None,
         free_segments' = free_segments, reserved' = [reserved EXCEPT ![c] = None]
  PROVE  Taken(reserved[c])
<1>1. /\ free_segments \in Seq(Segments) /\ reserved \in [Cores -> Segments \cup {None}]
      /\ \A m, n \in 1 .. Len(free_segments) : free_segments[m] = free_segments[n] => m = n
      /\ \A d, e \in Cores : reserved[d] # None /\ reserved[d] = reserved[e] => d = e
      /\ \A d \in Cores : \A n \in 1 .. Len(free_segments) : reserved[d] # free_segments[n]
  BY DEF ItemTypes, Apart
<1>2. reserved' \in [Cores -> Segments \cup {None}]
  BY <1>1
<1>3. \A d \in Cores : reserved'[d] # None => reserved'[d] = reserved[d] /\ reserved[d] # reserved[c]
  BY <1>1
<1>4. \A t \in Segments : Unfree(t)' <=> Unfree(t) \/ t = reserved[c]
  BY <1>1, Zenon DEF Unfree
<1> QED
  BY <1>1, <1>2, <1>3, <1>4 DEF Taken, OffList

\* The effect of ialloc_alloc on the segments when it opens segment h.
Opening(c, h, s, k, v) ==
    /\ item' = [item EXCEPT ![<<h, 0>>] = NewItem(k, v)]
    /\ seg' = [seg EXCEPT ![s] = [Store!Closed(s) EXCEPT !.inactive = TRUE],
                          ![h] = [Store!Empty EXCEPT !.offset = ItemSize]]
    /\ log' = [log EXCEPT ![c] = Append(@, h)]

\* ... or the current segment is closed and the log goes on in segment h.
LEMMA SegmentOpened ==
  ASSUME Store!StoreAssumption, ItemInv, NEW c \in Cores, NEW h, Blank(h), Taken(h),
         NEW k \in Keys, NEW v \in Values,
         NEW s, s = Store!Cur(c), Opening(c, h, s, k, v)
  PROVE  Laid' /\ LogsGrow /\ NotReset
<1>1. /\ ItemTypes /\ Apart /\ Filling /\ Store!Placed /\ Store!Accounted
      /\ seg \in [Segments -> SegStates] /\ log \in [Cores -> Seq(Segments)]
      /\ reserved \in [Cores -> Segments \cup {None}] /\ free_segments \in Seq(Segments)
  BY DEF ItemInv, Store!ItemsSafe, ItemTypes
<1>2. PICK l \in Nat : /\ l = Len(log[c]) /\ l \in 1 .. Len(log[c]) /\ log[c][l] = s /\ l > 0
                       /\ s \in Segments
  BY <1>1, CurIs
<1>3. /\ h \in Segments /\ <<h, 0>> \in Store!Items
      /\ \A i \in Store!Items : i[1] = h => item[i].ref = 0
      /\ \A d \in Cores : \A n \in 1 .. Len(log[d]) : log[d][n] # h
  BY DEF Blank, Unused
<1>4. s # h
  BY <1>2, <1>3
<1>5. PICK n \in Store!Items : n = <<h, 0>> /\ Unused(n)
  BY DEF Blank, Unused
<1>6. /\ Store!Live' = Store!Live \cup {n} /\ \A t : n \notin InUse(t)
      /\ InUse(h)' = InUse(h) \cup {n} /\ \A t : t # h => InUse(t)' = InUse(t)
  <2>1. item' = [item EXCEPT ![n] = NewItem(k, v)] /\ n[1] = h
    BY <1>5 DEF Opening
  <2>2. ItemTypes /\ Unused(n)
    BY <1>1, <1>5
  <2>3. /\ Store!Live' = Store!Live \cup {n} /\ \A t : n \notin InUse(t)
        /\ InUse(n[1])' = InUse(n[1]) \cup {n} /\ \A t : t # n[1] => InUse(t)' = InUse(t)
    BY <2>1, <2>2, ItemAdded
  <2> QED
    BY <2>1, <2>3, Zenon
<1>7. InUse(h) = {}
  BY <1>3 DEF InUse, Store!Live, Store!Items
<1>8. \A t \in Segments : /\ seg[t].offset \in Nat /\ seg[t].freed \in Nat /\ seg[t].offset <= SegSize
                          /\ seg[t].offset \in Marks
  BY <1>1, SegIs
<1>9. ItemSize \in Nat /\ SegSize \in Nat /\ ItemSize > 0
  BY Sizes
<1>10. /\ seg' \in [Segments -> SegStates]
       /\ seg'[s].offset = SegSize /\ seg'[s].freed = seg[s].freed + SegSize - seg[s].offset
       /\ seg'[s].cleaned = seg[s].cleaned
       /\ seg'[h].offset = ItemSize /\ seg'[h].freed = 0 /\ seg'[h].cleaned = FALSE
       /\ \A t \in Segments : t # s /\ t # h => seg'[t] = seg[t]
  <2>0. seg' = [seg EXCEPT ![s] = [Store!Closed(s) EXCEPT !.inactive = TRUE],
                          ![h] = [Store!Empty EXCEPT !.offset = ItemSize]]
    BY DEF Opening
  <2>1. \A t \in Segments : t # s /\ t # h => seg'[t] = seg[t]
    BY <1>1, <2>0
  <2>2. PICK a \in SegStates : a = seg[s]
    BY <1>1, <1>2
  <2>3. seg'[s] = [[a EXCEPT !.freed = a.freed + SegSize - a.offset, !.offset = SegSize] EXCEPT !.inactive = TRUE]
    BY <1>1, <1>2, <1>4, <2>0, <2>2 DEF Store!Closed
  <2>4. a.freed \in Nat /\ a.offset \in Nat /\ a.offset <= SegSize
    BY <1>2, <1>8, <2>2
  <2>45. seg'[s] = [offset |-> SegSize, freed |-> a.freed + SegSize - a.offset,
                    inactive |-> TRUE, cleaned |-> a.cleaned]
    BY <2>3 DEF SegStates
  <2>46. a.freed + SegSize - a.offset \in Nat /\ a.cleaned \in BOOLEAN
    BY <1>9, <2>4 DEF SegStates
  <2>5. /\ seg'[s] \in SegStates /\ seg'[s].offset = SegSize
        /\ seg'[s].freed = a.freed + SegSize - a.offset /\ seg'[s].cleaned = a.cleaned
    BY <1>9, <2>45, <2>46 DEF SegStates
  <2>6. seg'[h] = [Store!Empty EXCEPT !.offset = ItemSize]
    BY <1>1, <1>3, <2>0
  <2>65. seg'[h] = [offset |-> ItemSize, freed |-> 0, inactive |-> FALSE, cleaned |-> FALSE]
    BY <2>6 DEF Store!Empty
  <2>7. /\ seg'[h] \in SegStates /\ seg'[h].offset = ItemSize /\ seg'[h].freed = 0
        /\ seg'[h].cleaned = FALSE
    BY <1>9, <2>65 DEF SegStates
  <2>8. seg' = [t \in Segments |-> seg'[t]]
    BY <1>1, <2>0
  <2>9. \A t \in Segments : seg'[t] \in SegStates
    BY <1>1, <2>1, <2>5, <2>7
  <2> QED
    BY <2>1, <2>2, <2>5, <2>7, <2>8, <2>9
<1>11. /\ log' \in [Cores -> Seq(Segments)]
       /\ Len(log'[c]) = l + 1 /\ log'[c][l + 1] = h /\ \A m \in 1 .. l : log'[c][m] = log[c][m]
       /\ \A d \in Cores \ {c} : log'[d] = log[d]
  <2>1. PICK g \in Seq(Segments) : g = log[c] /\ Len(g) = l
    BY <1>1, <1>2
  <2>2. /\ Append(g, h) \in Seq(Segments) /\ Len(Append(g, h)) = l + 1
        /\ Append(g, h)[l + 1] = h /\ \A m \in 1 .. l : Append(g, h)[m] = g[m]
    BY <1>3, <2>1, Appended
  <2>3. log'[c] = Append(g, h) /\ \A d \in Cores \ {c} : log'[d] = log[d]
    BY <1>1, <2>1 DEF Opening
  <2>4. log' \in [Cores -> Seq(Segments)]
    BY <1>1, <2>1, <2>2 DEF Opening
  <2> QED
    BY <2>1, <2>2, <2>3, <2>4
<1>12. LogsGrow
  <2>1. ASSUME NEW d \in Cores, NEW m \in 1 .. Len(log[d])
        PROVE  m \in 1 .. Len(log'[d]) /\ log'[d][m] = log[d][m]
    BY <1>2, <1>11
  <2> QED
    BY <2>1 DEF LogsGrow
<1>13. \A d \in Cores : \A m \in 1 .. Len(log'[d]) :
          \/ m \in 1 .. Len(log[d]) /\ log'[d][m] = log[d][m]
          \/ d = c /\ m = l + 1 /\ log'[d][m] = h
  <2>1. ASSUME NEW d \in Cores, NEW m \in 1 .. Len(log'[d])
        PROVE  \/ m \in 1 .. Len(log[d]) /\ log'[d][m] = log[d][m]
               \/ d = c /\ m = l + 1 /\ log'[d][m] = h
    BY <1>2, <1>11
  <2> QED
    BY <2>1
<1>14. NotReset
  <2>1. ASSUME NEW t \in Segments, seg'[t].cleaned
        PROVE  seg[t].cleaned /\ (Unfree(t)' => Unfree(t))
    <3>1. t # h
      BY <1>10, <2>1
    <3>2. Unfree(t)' => Unfree(t)
      BY <3>1 DEF Taken, OffList
    <3> QED
      BY <1>10, <2>1, <3>1, <3>2
  <2> QED
    BY <2>1 DEF NotReset
<1>15. \A d \in Cores : \A m \in 1 .. Len(log[d]) : log[d][m] \in Segments /\ Unfree(log[d][m])
  <2>1. ASSUME NEW d \in Cores, NEW m \in 1 .. Len(log[d])
        PROVE  log[d][m] \in Segments /\ Unfree(log[d][m])
    <3>1. log[d][m] \in Segments
      BY <1>1
    <3>2. \A j \in 1 .. Len(free_segments) : log[d][m] # free_segments[j]
      BY <1>1 DEF Apart
    <3> QED
      BY <3>1, <3>2 DEF Unfree
  <2> QED
    BY <2>1
<1>16. \A d \in Cores : reserved[d] # None => reserved[d] \in Segments /\ Unfree(reserved[d])
  <2>1. ASSUME NEW d \in Cores, reserved[d] # None
        PROVE  reserved[d] \in Segments /\ Unfree(reserved[d])
    <3>1. \A j \in 1 .. Len(free_segments) : reserved[d] # free_segments[j]
      BY <1>1 DEF Apart
    <3> QED
      BY <1>1, <2>1, <3>1 DEF Unfree
  <2> QED
    BY <2>1
<1>17. Apart'
  <2>1. \A m, j \in 1 .. Len(free_segments') : free_segments'[m] = free_segments'[j] => m = j
    BY DEF Taken, OffList
  <2>2. ASSUME NEW d \in Cores, NEW e \in Cores,
               NEW m \in 1 .. Len(log'[d]), NEW j \in 1 .. Len(log'[e]), log'[d][m] = log'[e][j]
        PROVE  d = e /\ m = j
    <3>1. /\ \/ m \in 1 .. Len(log[d]) /\ log'[d][m] = log[d][m]
             \/ d = c /\ m = l + 1 /\ log'[d][m] = h
          /\ \/ j \in 1 .. Len(log[e]) /\ log'[e][j] = log[e][j]
             \/ e = c /\ j = l + 1 /\ log'[e][j] = h
      BY <1>13
    <3>2. CASE m \in 1 .. Len(log[d]) /\ log'[d][m] = log[d][m]
      <4>1. log'[e][j] # h
        BY <1>3, <2>2, <3>2
      <4>2. j \in 1 .. Len(log[e]) /\ log'[e][j] = log[e][j]
        BY <3>1, <4>1
      <4>3. log[d][m] = log[e][j]
        BY <2>2, <3>2, <4>2
      <4>4. \A a, b \in Cores : \A x \in 1 .. Len(log[a]), y \in 1 .. Len(log[b]) :
               log[a][x] = log[b][y] => a = b /\ x = y
        BY <1>1 DEF Apart
      <4> QED
        BY <3>2, <4>2, <4>3, <4>4, Zenon
    <3>3. CASE d = c /\ m = l + 1 /\ log'[d][m] = h
      <4>1. ~(j \in 1 .. Len(log[e]) /\ log'[e][j] = log[e][j])
        BY <1>3, <2>2, <3>3
      <4> QED
        BY <3>1, <3>3, <4>1
    <3> QED
      BY <3>1, <3>2, <3>3
  <2>7. \A d \in Cores : \A m \in 1 .. Len(log'[d]), j \in 1 .. Len(free_segments') :
           log'[d][m] # free_segments'[j]
    <3>1. ASSUME NEW d \in Cores, NEW m \in 1 .. Len(log'[d])
          PROVE  \A j \in 1 .. Len(free_segments') : log'[d][m] # free_segments'[j]
      <4>1. PICK t \in Segments : t = log'[d][m]
        BY <1>11
      <4>2. Unfree(t) \/ t = h
        BY <1>13, <1>15, <4>1
      <4>3. Unfree(t)'
        BY <4>2 DEF Taken, OffList
      <4> QED
        BY <4>1, <4>3 DEF Unfree
    <3> QED
      BY <3>1
  <2>4. \A d, e \in Cores : reserved'[d] # None /\ reserved'[d] = reserved'[e] => d = e
    <3>1. \A d, e \in Cores : reserved[d] # None /\ reserved[d] = reserved[e] => d = e
      BY <1>1 DEF Apart
    <3>2. \A d \in Cores : reserved'[d] # None => reserved'[d] = reserved[d] /\ reserved[d] # h
      BY DEF Taken, OffList
    <3> QED
      BY <3>1, <3>2
  <2>5. \A d, e \in Cores : \A m \in 1 .. Len(log'[e]) : reserved'[d] # log'[e][m]
    <3>1. ASSUME NEW d \in Cores, NEW e \in Cores, NEW m \in 1 .. Len(log'[e]),
                 reserved'[d] = log'[e][m]
          PROVE  FALSE
      <4>1. log'[e][m] \in Segments
        BY <1>11
      <4>2. reserved'[d] # None
        BY <3>1, <4>1, Sizes
      <4>3. reserved'[d] = reserved[d] /\ reserved[d] # h
        BY <4>2 DEF Taken, OffList
      <4>4. \A j \in 1 .. Len(log[e]) : reserved[d] # log[e][j]
        BY <1>1 DEF Apart
      <4> QED
        BY <1>13, <3>1, <4>3, <4>4
    <3> QED
      BY <3>1
  <2>6. \A d \in Cores : \A j \in 1 .. Len(free_segments') : reserved'[d] # free_segments'[j]
    <3>1. ASSUME NEW d \in Cores, NEW j \in 1 .. Len(free_segments'),
                 reserved'[d] = free_segments'[j]
          PROVE  FALSE
      <4>1. free_segments'[j] \in Segments
        BY DEF Taken, OffList
      <4>2. reserved'[d] # None
        BY <3>1, <4>1, Sizes
      <4>3. PICK t \in Segments : t = reserved'[d] /\ t = reserved[d] /\ reserved[d] # None
        BY <3>1, <4>1, <4>2 DEF Taken, OffList
      <4>4. Unfree(t)
        BY <1>16, <4>3
      <4>5. Unfree(t)'
        BY <4>4 DEF Taken, OffList
      <4> QED
        BY <3>1, <4>3, <4>5 DEF Unfree
    <3> QED
      BY <3>1
  <2> QED
    BY <2>1, <2>2, <2>4, <2>5, <2>6, <2>7 DEF Apart
<1>18. Filling'
  <2>1. \A t \in Segments : seg'[t].offset \in Marks
    <3>1. ItemSize \in Marks
      <4>1. 0 \in Offsets
        BY <1>9, Sizes, OffsetsRight
      <4> QED
        BY <1>9, <4>1, OffsetsRight
    <3> QED
      BY <1>8, <1>10, <3>1, OffsetsRight
  <2>2. ASSUME NEW d \in Cores PROVE Len(log'[d]) > 0
    <3>1. CASE d = c
      BY <1>2, <1>11, <3>1
    <3>2. CASE d # c
      <4>1. log'[d] = log[d] /\ Len(log[d]) > 0
        BY <1>1, <1>11, <3>2 DEF Filling
      <4> QED
        BY <4>1
    <3> QED
      BY <3>1, <3>2
  <2>3. ASSUME NEW d \in Cores, NEW m \in 1 .. Len(log'[d]) - 1
        PROVE  seg'[log'[d][m]].offset = SegSize
    <3>1. CASE d = c
      <4>1. m \in 1 .. l /\ log'[c][m] = log[c][m]
        BY <1>2, <1>11, <3>1
      <4>2. CASE m = l
        BY <1>2, <1>10, <3>1, <4>1, <4>2
      <4>3. CASE m # l
        <5>1. m \in 1 .. Len(log[c]) - 1 /\ m \in 1 .. Len(log[c])
          BY <1>2, <4>1, <4>3
        <5>2. PICK t \in Segments : t = log[c][m] /\ t # h /\ seg[t].offset = SegSize
          BY <1>1, <1>3, <1>15, <5>1 DEF Filling
        <5> QED
          BY <1>10, <3>1, <4>1, <5>2
      <4> QED
        BY <4>2, <4>3
    <3>2. CASE d # c
      <4>1. log'[d] = log[d]
        BY <1>11, <3>2
      <4>15. PICK q \in Nat : q = Len(log[d])
        BY <1>1
      <4>16. m \in 1 .. q - 1
        BY <2>3, <4>1, <4>15, Zenon
      <4>2. m \in 1 .. Len(log[d]) - 1 /\ m \in 1 .. Len(log[d])
        BY <4>15, <4>16
      <4>3. PICK t \in Segments : t = log[d][m] /\ t # h /\ seg[t].offset = SegSize
        BY <1>1, <1>3, <1>15, <4>2 DEF Filling
      <4> QED
        BY <1>10, <4>1, <4>3
    <3> QED
      BY <3>1, <3>2
  <2>4. ASSUME NEW d \in Cores, reserved'[d] # None PROVE seg'[reserved'[d]] = Store!Empty
    <3>1. reserved'[d] = reserved[d] /\ reserved[d] # h /\ reserved[d] \in Segments
      BY <1>1, <2>4 DEF Taken, OffList
    <3>2. reserved[d] # log[c][l]
      BY <1>1, <1>2 DEF Apart
    <3>3. seg[reserved[d]] = Store!Empty
      BY <1>1, <2>4, <3>1 DEF Filling
    <3> QED
      BY <1>2, <1>10, <3>1, <3>2, <3>3
  <2> QED
    BY <2>1, <2>2, <2>3, <2>4 DEF Filling
<1>19. Store!Placed'
  <2>1. Unfree(h)' /\ free_segments' \in Seq(Segments)
    BY <1>3 DEF Taken, OffList
  <2>2. h \notin Store!FreeSegments'
    BY <2>1, FreeIs, Zenon
  <2>3. ASSUME NEW i \in Store!Live'
        PROVE  i[1] \notin Store!FreeSegments' /\ i[2] + ItemSize <= seg'[i[1]].offset
    <3>1. CASE i = n
      BY <1>5, <1>9, <1>10, <2>2, <3>1
    <3>2. CASE i # n
      <4>1. i \in Store!Live
        BY <1>6, <3>2
      <4>2. i[1] \notin Store!FreeSegments /\ i[2] + ItemSize <= seg[i[1]].offset
        BY <1>1, <4>1 DEF Store!Placed
      <4>3. i \in Store!Items /\ item[i].ref > 0
        BY <4>1 DEF Store!Live, Store!Items
      <4>4. i[1] \in Segments /\ i[2] \in Nat /\ i[1] # h
        BY <1>3, <4>3, ItemsAre, OffsetsRight
      <4>5. PICK t \in Segments : t = i[1] /\ Unfree(t)
        BY <1>1, <4>2, <4>4, FreeIs, Zenon
      <4>6. Unfree(t)'
        BY <4>5 DEF Taken, OffList
      <4>7. t \notin Store!FreeSegments'
        BY <2>1, <4>6, FreeIs, Zenon
      <4>8. i[2] + ItemSize <= seg'[t].offset
        <5>1. i[2] + ItemSize <= seg[t].offset /\ seg[t].offset <= SegSize /\ seg[t].offset \in Nat
          BY <1>8, <4>2, <4>5, Zenon
        <5>2. seg'[t].offset = SegSize \/ seg'[t].offset = seg[t].offset
          BY <1>10, <4>4, <4>5, Zenon
        <5> QED
          BY <1>9, <4>4, <5>1, <5>2
      <4> QED
        BY <4>5, <4>7, <4>8
    <3> QED
      BY <3>1, <3>2
  <2> QED
    BY <2>3 DEF Store!Placed
<1>20. Store!Accounted'
  <2>1. ASSUME NEW t \in Segments, Unfree(t)' PROVE SpaceOf(t)'
    <3>1. CASE t = h
      <4>1. InUse(h)' = {n}
        BY <1>6, <1>7, Zenon
      <4>2. Cardinality(InUse(h)') = 1
        BY <4>1, FS_Singleton, Zenon
      <4>3. ItemSize * 1 = ItemSize
        BY <1>9
      <4>4. 0 + ItemSize * Cardinality(InUse(h)') = ItemSize
        BY <1>9, <4>2, <4>3
      <4> QED
        BY <1>10, <3>1, <4>4, Zenon DEF SpaceOf
    <3>2. CASE t # h
      <4>1. Unfree(t) /\ SpaceOf(t)
        <5>1. Unfree(t)
          BY <2>1, <3>2 DEF Taken, OffList
        <5> QED
          BY <1>1, <5>1, AccountedIs
      <4>2. InUse(t)' = InUse(t)
        BY <1>6, <3>2
      <4>3. seg[t].freed \in Nat /\ seg[t].offset \in Nat
        BY <1>8
      <4>4. CASE t = s
        <5>1. SegSize - seg[t].offset \in Int
          BY <1>9, <4>3
        <5>2. /\ seg'[t].freed = seg[t].freed + (SegSize - seg[t].offset)
              /\ seg'[t].offset = seg[t].offset + (SegSize - seg[t].offset)
          <6>1. PICK o \in Nat, f \in Nat : o = seg[t].offset /\ f = seg[t].freed
            BY <4>3, Zenon
          <6>2. seg'[t].offset = SegSize /\ seg'[t].freed = f + SegSize - o
            BY <1>10, <4>4, <6>1, Zenon
          <6>3. f + SegSize - o = f + (SegSize - o) /\ SegSize = o + (SegSize - o)
            BY <1>9
          <6> QED
            BY <6>1, <6>2, <6>3, Zenon
        <5> QED
          BY <4>1, <4>2, <4>3, <5>1, <5>2, SpaceSame
      <4>5. CASE t # s
        <5>1. seg'[t].freed = seg[t].freed + 0 /\ seg'[t].offset = seg[t].offset + 0
          <6>1. PICK o \in Nat, f \in Nat : o = seg[t].offset /\ f = seg[t].freed
            BY <4>3, Zenon
          <6>2. seg'[t].offset = o /\ seg'[t].freed = f
            BY <1>10, <3>2, <4>5, <6>1, Zenon
          <6>3. o = o + 0 /\ f = f + 0
            OBVIOUS
          <6> QED
            BY <6>1, <6>2, <6>3, Zenon
        <5> QED
          BY <4>1, <4>2, <4>3, <5>1, SpaceSame
      <4> QED
        BY <4>4, <4>5
    <3> QED
      BY <3>1, <3>2
  <2>2. free_segments' \in Seq(Segments)
    BY DEF Taken, OffList
  <2> QED
    BY <2>1, <2>2, AccountedIs
<1>21. Laid'
  BY <1>10, <1>11, <1>17, <1>18, <1>19, <1>20 DEF Laid, Taken, OffList
<1> QED
  BY <1>12, <1>14, <1>21

\* ialloc_alloc as a whole.
LEMMA AllocateRight ==
  ASSUME Store!StoreAssumption, ItemInv, NEW c \in Cores, NEW b, NEW h,
         h \in Store!NewSegments(c, b), NEW k \in Keys, NEW v \in Values,
         Store!Allocate(c, h, k, v)
  PROVE  /\ Unused(Store!NextItem(c, h)) /\ item' = [item EXCEPT ![Store!NextItem(c, h)] = NewItem(k, v)]
         /\ Laid' /\ LogsGrow /\ NotReset
<1>1. /\ ItemTypes /\ Apart /\ Filling /\ Store!Placed
  BY DEF ItemInv, Store!ItemsSafe
<1>2. CASE Store!Room(c)
  BY <1>2, AllocateInRoom
<1>3. CASE ~Store!Room(c)
  <2>1. PICK s \in Segments : s = Store!Cur(c)
    BY <1>1, CurIs
  <2>2. Store!NextItem(c, h) = <<h, 0>> /\ Opening(c, h, s, k, v)
    BY <1>3, <2>1, Zenon DEF Store!Allocate, Store!NextItem, Opening, NewItem
  <2>3. IF free_segments # <<>>
        THEN free_segments' = Tail(free_segments) /\ reserved' = reserved
        ELSE reserved' = [reserved EXCEPT ![c] = None] /\ free_segments' = free_segments
    BY <1>3, Zenon DEF Store!Allocate
  <2>4. Taken(h) /\ Blank(h)
    <3>1. CASE free_segments # <<>>
      <4>1. h = Head(free_segments)
        BY <1>3, <3>1 DEF Store!NewSegments
      <4> QED
        BY <1>1, <2>3, <3>1, <4>1, HeadTaken, FreeIsBlank
    <3>2. CASE free_segments = <<>>
      <4>1. reserved[c] # None /\ h = reserved[c]
        BY <1>3, <3>2 DEF Store!NewSegments
      <4> QED
        BY <1>1, <2>3, <3>2, <4>1, ReserveTaken, ReserveIsBlank
    <3> QED
      BY <3>1, <3>2
  <2>5. Laid' /\ LogsGrow /\ NotReset
    BY <2>1, <2>2, <2>4, SegmentOpened
  <2>6. Unused(<<h, 0>>)
    BY <2>4 DEF Blank
  <2>7. item' = [item EXCEPT ![<<h, 0>>] = NewItem(k, v)]
    BY <2>2 DEF Opening
  <2> QED
    BY <2>2, <2>5, <2>6, <2>7, Zenon
<1> QED
  BY <1>2, <1>3

(***************************************************************************)
(* Other steps that change segments.                                       *)
(***************************************************************************)

\* Segments stay apart while logs, reserves and free list are the same.
LEMMA ApartStays ==
  ASSUME Apart, log' = log, reserved' = reserved, free_segments' = free_segments
  PROVE  Apart'
  BY DEF Apart

\* Segments stay where they are, none loses its offset, and no item comes into use.
LEMMA LaidKept ==
  ASSUME Store!StoreAssumption, ItemTypes, Laid, seg' \in [Segments -> SegStates],
         log' = log, reserved' = reserved, free_segments' = free_segments,
         \A s \in Segments : seg'[s].offset = seg[s].offset,
         \A d \in Cores : reserved[d] # None => seg'[reserved[d]] = seg[reserved[d]],
         Store!Live' \subseteq Store!Live,
         \A s \in Segments : Unfree(s) => SpaceOf(s)'
  PROVE  Laid' /\ LogsGrow
<1>1. /\ Apart /\ Filling /\ Store!Placed /\ Store!Accounted
      /\ log \in [Cores -> Seq(Segments)] /\ reserved \in [Cores -> Segments \cup {None}]
      /\ free_segments \in Seq(Segments)
  BY DEF Laid
<1>2. Apart'
  BY <1>1, ApartStays
<1>3. \A d \in Cores : \A n \in 1 .. Len(log[d]) - 1 : log[d][n] \in Segments
  <2>1. ASSUME NEW d \in Cores, NEW n \in 1 .. Len(log[d]) - 1 PROVE log[d][n] \in Segments
    <3>1. log[d] \in Seq(Segments) /\ n \in 1 .. Len(log[d])
      BY <1>1
    <3> QED
      BY <3>1
  <2> QED
    BY <2>1
<1>4. Filling'
  BY <1>1, <1>3, Zenon DEF Filling
<1>5. Store!FreeSegments' = Store!FreeSegments
  BY Zenon DEF Store!FreeSegments
<1>6. Store!Placed'
  <2>1. ASSUME NEW i \in Store!Live'
        PROVE  i[1] \notin Store!FreeSegments' /\ i[2] + ItemSize <= seg'[i[1]].offset
    <3>1. i \in Store!Live /\ i \in Store!Items
      BY DEF Store!Live, Store!Items
    <3>2. i[1] \in Segments
      BY <3>1, ItemsAre
    <3> QED
      BY <1>1, <1>5, <3>1, <3>2, Zenon DEF Store!Placed
  <2> QED
    BY <2>1 DEF Store!Placed
<1>7. \A s \in Segments : Unfree(s)' => Unfree(s)
  BY Zenon DEF Unfree
<1>8. Store!Accounted'
  BY <1>1, <1>7, AccountedIs, Zenon
<1>9. LogsGrow
  BY Zenon DEF LogsGrow
<1> QED
  BY <1>1, <1>2, <1>4, <1>6, <1>8, <1>9 DEF Laid

\* The segment of an item in use is no reserve and not free.
LEMMA LiveSegment ==
  ASSUME Store!StoreAssumption, ItemTypes, Laid, NEW i \in Store!Items, item[i].ref > 0
  PROVE  /\ i[1] \in Segments /\ i[2] \in Nat /\ Unfree(i[1])
         /\ i[2] + ItemSize <= seg[i[1]].offset
         /\ \A d \in Cores : reserved[d] # i[1]
<1>1. i \in Store!Live
  BY DEF Store!Live, Store!Items
<1>2. Filling /\ Store!Placed /\ free_segments \in Seq(Segments)
  BY DEF Laid
<1>3. i[1] \notin Store!FreeSegments /\ i[2] + ItemSize <= seg[i[1]].offset
  BY <1>1, <1>2, Zenon DEF Store!Placed
<1>4. i[1] \in Segments /\ i[2] \in Nat
  BY ItemsAre, OffsetsRight
<1>5. Unfree(i[1])
  BY <1>2, <1>3, FreeIs, Zenon
<1>6. ASSUME NEW d \in Cores, reserved[d] = i[1] PROVE FALSE
  <2>1. reserved[d] # None
    BY <1>4, <1>6, Sizes
  <2>2. seg[i[1]] = Store!Empty
    BY <1>2, <1>6, <2>1 DEF Filling
  <2>3. seg[i[1]].offset = 0
    BY <2>2 DEF Store!Empty
  <2>4. ItemSize \in Nat /\ ItemSize > 0
    BY Sizes
  <2> QED
    BY <1>3, <1>4, <2>3, <2>4
<1> QED
  BY <1>3, <1>4, <1>5, <1>6

\* An item is given up, perhaps by its last user.
Dropping(n) ==
    /\ item' \in [Store!Items -> Entries]
    /\ item'[n].ref = item[n].ref - 1
    /\ \A i \in Store!Items \ {n} : (item'[i].ref > 0) = (item[i].ref > 0)
    /\ seg' = IF item[n].ref = 1 THEN [seg EXCEPT ![n[1]].freed = @ + ItemSize] ELSE seg

\* Giving up a reference: if it was the last, the room of the item is accounted
\* as freed.
LEMMA DroppingKeeps ==
  ASSUME Store!StoreAssumption, ItemTypes, Laid, NEW n \in Store!Items, item[n].ref > 0, Dropping(n),
         log' = log, reserved' = reserved, free_segments' = free_segments
  PROVE  Laid' /\ LogsGrow /\ NotReset
<1>1. /\ seg \in [Segments -> SegStates] /\ free_segments \in Seq(Segments) /\ Store!Accounted
      /\ Filling
  BY DEF Laid
<1>2. PICK r \in Nat : r = item[n].ref /\ r > 0
  BY DEF ItemTypes, Entries
<1>3. PICK s \in Segments : s = n[1] /\ Unfree(s) /\ \A d \in Cores : reserved[d] # s
  BY LiveSegment
<1>4. item'[n].ref = r - 1 /\ \A i \in Store!Items \ {n} : (item'[i].ref > 0) = (item[i].ref > 0)
  BY <1>2 DEF Dropping
<1>5. ItemSize \in Nat
  BY Sizes
<1>6. \A t \in Segments : seg[t].offset \in Nat /\ seg[t].freed \in Nat
  BY <1>1, SegIs
<1>7. \A t \in Segments : Unfree(t) => SpaceOf(t)
  BY <1>1, AccountedIs
<1>8. CASE r = 1
  <2>1. seg' = [seg EXCEPT ![s].freed = @ + ItemSize]
    BY <1>2, <1>3, <1>8 DEF Dropping
  <2>2. PICK a \in SegStates : a = seg[s]
    BY <1>1, <1>3
  <2>3. seg'[s] = [a EXCEPT !.freed = a.freed + ItemSize]
    BY <1>1, <1>3, <2>1, <2>2
  <2>4. /\ seg'[s] \in SegStates /\ seg'[s].freed = a.freed + ItemSize
        /\ seg'[s].offset = a.offset /\ seg'[s].cleaned = a.cleaned
    BY <1>5, <2>3 DEF SegStates
  <2>5. \A t \in Segments \ {s} : seg'[t] = seg[t]
    BY <1>1, <2>1
  <2>6. seg' = [t \in Segments |-> seg'[t]]
    BY <1>1, <2>1
  <2>7. \A t \in Segments : seg'[t] \in SegStates
    BY <1>1, <2>4, <2>5
  <2>8. seg' \in [Segments -> SegStates]
    BY <2>6, <2>7
  <2>9. Store!Live' = Store!Live \ {n} /\ n \in Store!Live
    <3>1. ~(item'[n].ref > 0)
      BY <1>4, <1>8
    <3>2. item[n].ref > 0
      BY <1>2
    <3> QED
      BY <1>4, <3>1, <3>2 DEF Store!Live, Store!Items
  <2>10. n \in InUse(s) /\ InUse(s)' = InUse(s) \ {n} /\ \A t : t # s => InUse(t)' = InUse(t)
    BY <1>3, <2>9 DEF InUse
  <2>11. ASSUME NEW t \in Segments, Unfree(t) PROVE SpaceOf(t)'
    <3>1. CASE t = s
      <4>1. /\ seg'[t].freed = seg[t].freed + ItemSize /\ seg'[t].offset = seg[t].offset
            /\ seg[t].freed \in Nat /\ seg[t].offset \in Nat
        BY <1>6, <2>2, <2>4, <3>1
      <4> QED
        BY <1>7, <2>10, <2>11, <3>1, <4>1, SpaceLess
    <3>2. CASE t # s
      <4>1. /\ InUse(t)' = InUse(t) /\ seg[t].freed \in Nat /\ seg[t].offset \in Nat
            /\ seg'[t].freed = seg[t].freed + 0 /\ seg'[t].offset = seg[t].offset + 0
        BY <1>6, <2>5, <2>10, <3>2
      <4> QED
        BY <1>7, <2>11, <4>1, SpaceSame
    <3> QED
      BY <3>1, <3>2
  <2>12. Store!Live' \subseteq Store!Live
    BY <2>9
  <2>13. \A t \in Segments : seg'[t].offset = seg[t].offset /\ seg'[t].cleaned = seg[t].cleaned
    BY <2>2, <2>4, <2>5
  <2>14. \A d \in Cores : reserved[d] # None => seg'[reserved[d]] = seg[reserved[d]]
    BY <1>3, <2>5 DEF ItemTypes
  <2>15. NotReset
    BY <2>13 DEF NotReset, Unfree
  <2>16. Laid' /\ LogsGrow
    BY <2>8, <2>11, <2>12, <2>13, <2>14, LaidKept
  <2> QED
    BY <2>15, <2>16
<1>9. CASE r # 1
  <2>1. seg' = seg
    BY <1>2, <1>9 DEF Dropping
  <2>2. Store!Live' = Store!Live
    <3>1. item'[n].ref > 0 /\ item[n].ref > 0
      BY <1>2, <1>4, <1>9
    <3> QED
      BY <1>4, <3>1 DEF Store!Live, Store!Items
  <2>3. \A t : InUse(t)' = InUse(t)
    BY <2>2 DEF InUse
  <2>4. \A t \in Segments : Unfree(t) => SpaceOf(t)'
    BY <1>7, <2>1, <2>3, Zenon DEF SpaceOf
  <2>5. Store!Live' \subseteq Store!Live
    BY <2>2
  <2>6. Laid' /\ LogsGrow
    BY <1>1, <2>1, <2>4, <2>5, LaidKept
  <2>7. NotReset
    BY <2>1, Zenon DEF NotReset, Unfree
  <2> QED
    BY <2>6, <2>7
<1> QED
  BY <1>8, <1>9

\* Nothing about segments changes, and the same items are in use.
LEMMA CountingKeeps ==
  ASSUME Store!StoreAssumption, ItemTypes, Laid, seg' = seg,
         \A i \in Store!Items : (item'[i].ref > 0) = (item[i].ref > 0),
         log' = log, reserved' = reserved, free_segments' = free_segments
  PROVE  Laid' /\ LogsGrow /\ NotReset
<1>1. /\ seg \in [Segments -> SegStates] /\ free_segments \in Seq(Segments) /\ Store!Accounted
  BY DEF Laid
<1>2. Store!Live' = Store!Live
  BY DEF Store!Live, Store!Items
<1>3. \A t : InUse(t)' = InUse(t)
  BY <1>2 DEF InUse
<1>4. \A t \in Segments : Unfree(t) => SpaceOf(t)
  BY <1>1, AccountedIs
<1>5. \A t \in Segments : Unfree(t) => SpaceOf(t)'
  BY <1>3, <1>4, Zenon DEF SpaceOf
<1>6. Store!Live' \subseteq Store!Live
  BY <1>2
<1>7. Laid' /\ LogsGrow
  BY <1>1, <1>5, <1>6, LaidKept
<1>8. NotReset
  BY Zenon DEF NotReset, Unfree
<1> QED
  BY <1>7, <1>8

\* A segment is marked as cleaned.
LEMMA MarkingKeeps ==
  ASSUME Store!StoreAssumption, ItemTypes, Laid, NEW s \in Segments,
         seg' = [seg EXCEPT ![s].cleaned = TRUE], \A d \in Cores : reserved[d] # s,
         item' = item, log' = log, reserved' = reserved, free_segments' = free_segments
  PROVE  /\ Laid' /\ LogsGrow /\ seg'[s].cleaned
         /\ \A t \in Segments \ {s} : seg'[t] = seg[t]
<1>1. /\ seg \in [Segments -> SegStates] /\ free_segments \in Seq(Segments) /\ Store!Accounted
  BY DEF Laid
<1>2. \A t \in Segments \ {s} : seg'[t] = seg[t]
  BY <1>1
<1>3. seg'[s] = [seg[s] EXCEPT !.cleaned = TRUE] /\ seg[s] \in SegStates
  BY <1>1
<1>4. /\ seg'[s] \in SegStates /\ seg'[s].freed = seg[s].freed
      /\ seg'[s].offset = seg[s].offset /\ seg'[s].cleaned
  <2>1. PICK a \in SegStates : a = seg[s]
    BY <1>3
  <2>2. PICK b : b = seg'[s]
    OBVIOUS
  <2>25. b = [a EXCEPT !.cleaned = TRUE]
    BY <1>3, <2>1, <2>2, Zenon
  <2>3. b = [offset |-> a.offset, freed |-> a.freed, inactive |-> a.inactive, cleaned |-> TRUE]
    <3>1. a = [offset |-> a.offset, freed |-> a.freed, inactive |-> a.inactive, cleaned |-> a.cleaned]
      BY <2>1 DEF SegStates
    <3> QED
      BY <2>25, <3>1
  <2>4. /\ b \in SegStates /\ b.freed = a.freed
        /\ b.offset = a.offset /\ b.cleaned = TRUE
    BY <2>1, <2>3 DEF SegStates
  <2> QED
    BY <2>1, <2>2, <2>4, Zenon
<1>5. seg' \in [Segments -> SegStates]
  <2>1. seg' = [t \in Segments |-> seg'[t]]
    BY <1>1
  <2>2. \A t \in Segments : seg'[t] \in SegStates
    BY <1>1, <1>2, <1>4
  <2> QED
    BY <2>1, <2>2
<1>6. Store!Live' = Store!Live
  BY Zenon DEF Store!Live
<1>7. \A t : InUse(t)' = InUse(t)
  BY <1>6 DEF InUse
<1>8. \A t \in Segments : Unfree(t) => SpaceOf(t)
  BY <1>1, AccountedIs
<1>9. \A t \in Segments : seg'[t].freed = seg[t].freed /\ seg'[t].offset = seg[t].offset
  BY <1>2, <1>4
<1>10. \A t \in Segments : Unfree(t) => SpaceOf(t)'
  BY <1>7, <1>8, <1>9, Zenon DEF SpaceOf
<1>11. \A d \in Cores : reserved[d] # None => seg'[reserved[d]] = seg[reserved[d]]
  BY <1>2 DEF ItemTypes
<1>12. Store!Live' \subseteq Store!Live
  BY <1>6
<1>13. Laid' /\ LogsGrow
  BY <1>5, <1>9, <1>10, <1>11, <1>12, LaidKept
<1> QED
  BY <1>2, <1>4, <1>13

\* What is left of the current segment is given up.
Closing(s) == /\ seg' = [seg EXCEPT ![s] = Store!Closed(s)]
              /\ item' = item /\ log' = log /\ reserved' = reserved
              /\ free_segments' = free_segments

\* A current segment that is closed: what is left of it counts as freed.
LEMMA ClosingKeeps ==
  ASSUME Store!StoreAssumption, ItemTypes, Laid, NEW c \in Cores, NEW s, s = Store!Cur(c), Closing(s)
  PROVE  Laid' /\ LogsGrow /\ NotReset
<1>1. /\ Apart /\ Filling /\ Store!Placed /\ Store!Accounted
      /\ seg \in [Segments -> SegStates] /\ log \in [Cores -> Seq(Segments)]
      /\ reserved \in [Cores -> Segments \cup {None}] /\ free_segments \in Seq(Segments)
      /\ item' = item /\ log' = log /\ reserved' = reserved /\ free_segments' = free_segments
  BY DEF Laid, Closing
<1>2. PICK l \in Nat : l \in 1 .. Len(log[c]) /\ log[c][l] = s /\ s \in Segments
  BY <1>1, CurIs
<1>3. \A t \in Segments : /\ seg[t].offset \in Nat /\ seg[t].freed \in Nat /\ seg[t].offset <= SegSize
                          /\ seg[t].offset \in Marks
  BY <1>1, SegIs
<1>4. SegSize \in Nat /\ ItemSize \in Nat
  BY Sizes
<1>5. PICK a \in SegStates : a = seg[s]
  BY <1>1, <1>2
<1>6. PICK b : b = seg'[s]
  OBVIOUS
<1>7. b = [a EXCEPT !.freed = a.freed + SegSize - a.offset, !.offset = SegSize]
  BY <1>1, <1>2, <1>5, <1>6 DEF Closing, Store!Closed
<1>8. a.freed + SegSize - a.offset \in Nat
  BY <1>2, <1>3, <1>4, <1>5
<1>9. /\ b \in SegStates /\ b.offset = SegSize /\ b.freed = a.freed + SegSize - a.offset
      /\ b.cleaned = a.cleaned
  BY <1>4, <1>7, <1>8 DEF SegStates
<1>10. \A t \in Segments \ {s} : seg'[t] = seg[t]
  BY <1>1 DEF Closing
<1>11. seg' \in [Segments -> SegStates]
  <2>1. seg' = [t \in Segments |-> seg'[t]]
    BY <1>1 DEF Closing
  <2>2. \A t \in Segments : seg'[t] \in SegStates
    BY <1>1, <1>6, <1>9, <1>10
  <2> QED
    BY <2>1, <2>2
<1>12. Apart'
  <2>1. log' = log /\ reserved' = reserved /\ free_segments' = free_segments /\ Apart
    BY <1>1
  <2> QED
    BY <2>1, ApartStays
<1>13. Filling'
  <2>1. \A t \in Segments : seg'[t].offset \in Marks
    BY <1>3, <1>6, <1>9, <1>10, OffsetsRight
  <2>2. ASSUME NEW d \in Cores, NEW m \in 1 .. Len(log[d]) - 1
        PROVE  seg'[log[d][m]].offset = SegSize
    <3>1. log[d] \in Seq(Segments) /\ m \in 1 .. Len(log[d])
      BY <1>1
    <3>2. PICK t \in Segments : t = log[d][m] /\ seg[t].offset = SegSize
      BY <1>1, <3>1 DEF Filling
    <3>3. seg'[t].offset = SegSize
      BY <1>6, <1>9, <1>10, <3>2
    <3> QED
      BY <3>2, <3>3
  <2>3. ASSUME NEW d \in Cores, reserved[d] # None PROVE seg'[reserved[d]] = seg[reserved[d]]
    <3>1. reserved[d] # s /\ reserved[d] \in Segments
      BY <1>1, <1>2, <2>3 DEF Apart
    <3> QED
      BY <1>10, <3>1
  <2> QED
    BY <1>1, <2>1, <2>2, <2>3 DEF Filling
<1>14. Store!Live' = Store!Live /\ Store!FreeSegments' = Store!FreeSegments
  BY <1>1, Zenon DEF Store!Live, Store!FreeSegments
<1>15. Store!Placed'
  <2>1. ASSUME NEW i \in Store!Live'
        PROVE  i[1] \notin Store!FreeSegments' /\ i[2] + ItemSize <= seg'[i[1]].offset
    <3>1. i \in Store!Live /\ i \in Store!Items
      BY <1>14 DEF Store!Live, Store!Items
    <3>2. PICK t \in Segments, o \in Nat : t = i[1] /\ o = i[2]
      BY <3>1, ItemsAre, OffsetsRight
    <3>3. t \notin Store!FreeSegments' /\ o + ItemSize <= seg[t].offset
      BY <1>1, <1>14, <3>1, <3>2, Zenon DEF Store!Placed
    <3>4. o + ItemSize <= SegSize
      BY <1>3, <1>4, <3>3
    <3>5. o + ItemSize <= seg'[t].offset
      BY <1>6, <1>9, <1>10, <3>3, <3>4, Zenon
    <3> QED
      BY <3>2, <3>3, <3>5, Zenon
  <2> QED
    BY <2>1 DEF Store!Placed
<1>16. \A t : InUse(t)' = InUse(t)
  BY <1>14 DEF InUse
<1>17. Store!Accounted'
  <2>1. ASSUME NEW t \in Segments, Unfree(t)' PROVE SpaceOf(t)'
    <3>1. Unfree(t) /\ SpaceOf(t)
      <4>1. Unfree(t)
        BY <1>1, <2>1 DEF Unfree
      <4> QED
        BY <1>1, <4>1, AccountedIs
    <3>2. PICK g \in Int : /\ seg'[t].freed = seg[t].freed + g
                           /\ seg'[t].offset = seg[t].offset + g
      <4>1. PICK o \in Nat, f \in Nat : o = seg[t].offset /\ f = seg[t].freed
        BY <1>3
      <4>2. CASE t = s
        <5>1. seg'[t].offset = SegSize /\ seg'[t].freed = f + SegSize - o
          BY <1>5, <1>6, <1>9, <4>1, <4>2, Zenon
        <5>2. f + SegSize - o = f + (SegSize - o) /\ SegSize = o + (SegSize - o) /\ SegSize - o \in Int
          BY <1>4
        <5> QED
          BY <4>1, <5>1, <5>2, Zenon
      <4>3. CASE t # s
        <5>1. seg'[t].offset = o /\ seg'[t].freed = f
          BY <1>10, <4>1, <4>3
        <5>2. o = o + 0 /\ f = f + 0 /\ 0 \in Int
          OBVIOUS
        <5> QED
          BY <4>1, <5>1, <5>2, Zenon
      <4> QED
        BY <4>2, <4>3
    <3>3. InUse(t)' = InUse(t) /\ seg[t].freed \in Nat /\ seg[t].offset \in Nat
      BY <1>3, <1>16
    <3> QED
      BY <3>1, <3>2, <3>3, SpaceSame
  <2> QED
    BY <1>1, <2>1, AccountedIs
<1>18. LogsGrow
  BY <1>1, Zenon DEF LogsGrow
<1>19. \A t \in Segments : seg'[t].cleaned = seg[t].cleaned
  BY <1>5, <1>6, <1>9, <1>10
<1>20. NotReset
  BY <1>1, <1>19 DEF NotReset, Unfree
<1> QED
  BY <1>1, <1>11, <1>12, <1>13, <1>15, <1>17, <1>18, <1>20 DEF Laid

\* Core c gets a new reserved segment.
Reserving(c) == /\ seg' = [seg EXCEPT ![Head(free_segments)] = Store!Empty]
                /\ reserved' = [reserved EXCEPT ![c] = Head(free_segments)]
                /\ free_segments' = Tail(free_segments)
                /\ item' = item /\ log' = log

\* A core puts a free segment into its reserve.
LEMMA ReservingKeeps ==
  ASSUME Store!StoreAssumption, ItemTypes, Laid, NEW c \in Cores, reserved[c] = None,
         free_segments # <<>>, Reserving(c)
  PROVE  Laid' /\ LogsGrow /\ NotReset
<1>1. /\ Apart /\ Filling /\ Store!Placed /\ Store!Accounted
      /\ seg \in [Segments -> SegStates] /\ log \in [Cores -> Seq(Segments)]
      /\ reserved \in [Cores -> Segments \cup {None}] /\ free_segments \in Seq(Segments)
      /\ item' = item /\ log' = log /\ free_segments' = Tail(free_segments)
  BY DEF Laid, Reserving
<1>2. PICK h \in Segments : /\ h = Head(free_segments) /\ Blank(h) /\ h = free_segments[1]
                            /\ 1 \in 1 .. Len(free_segments)
  BY <1>1, FreeIsBlank DEF Blank
<1>3. OffList(h) /\ \A d \in Cores : reserved[d] # h
  BY <1>1, <1>2, HeadOffList
<1>4. /\ reserved' \in [Cores -> Segments \cup {None}] /\ reserved'[c] = h
      /\ \A d \in Cores \ {c} : reserved'[d] = reserved[d]
  BY <1>1, <1>2 DEF Reserving
<1>5. Store!Empty \in SegStates /\ Store!Empty.offset = 0 /\ Store!Empty.freed = 0
      /\ Store!Empty.cleaned = FALSE
  BY DEF Store!Empty, SegStates
<1>6. /\ seg' \in [Segments -> SegStates] /\ seg'[h] = Store!Empty
      /\ \A t \in Segments \ {h} : seg'[t] = seg[t]
  BY <1>1, <1>2, <1>5 DEF Reserving
<1>7. \A d \in Cores : \A n \in 1 .. Len(log[d]) : log[d][n] # h /\ log[d][n] \in Segments
                                                    /\ Unfree(log[d][n])
  <2>1. ASSUME NEW d \in Cores, NEW n \in 1 .. Len(log[d])
        PROVE  log[d][n] # h /\ log[d][n] \in Segments /\ Unfree(log[d][n])
    <3>1. \A j \in 1 .. Len(free_segments) : log[d][n] # free_segments[j]
      BY <1>1 DEF Apart
    <3> QED
      BY <1>1, <1>2, <3>1 DEF Unfree
  <2> QED
    BY <2>1
<1>8. Apart'
  <2>1. \A m, n \in 1 .. Len(free_segments') : free_segments'[m] = free_segments'[n] => m = n
    BY <1>3 DEF OffList
  <2>2. \A d, e \in Cores : \A m \in 1 .. Len(log'[d]), n \in 1 .. Len(log'[e]) :
          log'[d][m] = log'[e][n] => d = e /\ m = n
    BY <1>1 DEF Apart
  <2>3. ASSUME NEW d \in Cores, NEW m \in 1 .. Len(log'[d]), NEW n \in 1 .. Len(free_segments')
        PROVE  log'[d][m] # free_segments'[n]
    <3>1. PICK t \in Segments : t = log[d][m] /\ Unfree(t)
      BY <1>1, <1>7
    <3>2. Unfree(t)'
      BY <1>3, <3>1 DEF OffList
    <3> QED
      BY <1>1, <3>1, <3>2 DEF Unfree
  <2>4. \A d, e \in Cores : reserved'[d] # None /\ reserved'[d] = reserved'[e] => d = e
    <3>1. \A d, e \in Cores : reserved[d] # None /\ reserved[d] = reserved[e] => d = e
      BY <1>1 DEF Apart
    <3> QED
      BY <1>3, <1>4, <3>1
  <2>5. \A d, e \in Cores : \A m \in 1 .. Len(log'[e]) : reserved'[d] # log'[e][m]
    <3>1. \A d, e \in Cores : \A m \in 1 .. Len(log[e]) : reserved[d] # log[e][m]
      BY <1>1 DEF Apart
    <3> QED
      BY <1>1, <1>4, <1>7, <3>1
  <2>6. ASSUME NEW d \in Cores, NEW n \in 1 .. Len(free_segments') PROVE reserved'[d] # free_segments'[n]
    <3>1. CASE d = c
      <4>1. Unfree(h)'
        BY <1>3 DEF OffList
      <4> QED
        BY <1>4, <3>1, <4>1 DEF Unfree
    <3>2. CASE d # c
      <4>1. free_segments'[n] \in Segments
        BY <1>3 DEF OffList
      <4>2. CASE reserved[d] = None
        BY <1>4, <3>2, <4>1, <4>2, Sizes
      <4>3. CASE reserved[d] # None
        <5>1. PICK t \in Segments : t = reserved[d]
          BY <1>1, <4>3
        <5>2. Unfree(t)
          BY <1>1, <5>1 DEF Apart, Unfree
        <5>3. Unfree(t)'
          BY <1>3, <5>2 DEF OffList
        <5> QED
          BY <1>4, <3>2, <5>1, <5>3 DEF Unfree
      <4> QED
        BY <4>2, <4>3
    <3> QED
      BY <3>1, <3>2
  <2> QED
    BY <2>1, <2>2, <2>3, <2>4, <2>5, <2>6 DEF Apart
<1>9. Filling'
  <2>1. \A t \in Segments : seg'[t].offset \in Marks
    BY <1>1, <1>5, <1>6, OffsetsRight DEF Filling
  <2>2. ASSUME NEW d \in Cores, NEW m \in 1 .. Len(log[d]) - 1
        PROVE  seg'[log[d][m]].offset = SegSize
    <3>1. log[d] \in Seq(Segments) /\ m \in 1 .. Len(log[d])
      BY <1>1
    <3>2. PICK t \in Segments : t = log[d][m] /\ t # h /\ seg[t].offset = SegSize
      BY <1>1, <1>7, <3>1 DEF Filling
    <3> QED
      BY <1>6, <3>2
  <2>3. ASSUME NEW d \in Cores, reserved'[d] # None PROVE seg'[reserved'[d]] = Store!Empty
    <3>1. CASE d = c
      BY <1>4, <1>6, <3>1
    <3>2. CASE d # c
      <4>1. PICK t \in Segments : t = reserved[d] /\ t = reserved'[d] /\ t # h
        BY <1>1, <1>3, <1>4, <2>3, <3>2
      <4>2. seg[t] = Store!Empty
        BY <1>1, <1>4, <2>3, <3>2, <4>1 DEF Filling
      <4> QED
        BY <1>6, <4>1, <4>2
    <3> QED
      BY <3>1, <3>2
  <2> QED
    BY <1>1, <2>1, <2>2, <2>3 DEF Filling
<1>10. Store!Live' = Store!Live
  BY <1>1, Zenon DEF Store!Live
<1>11. free_segments' \in Seq(Segments)
  BY <1>3 DEF OffList
<1>12. ASSUME NEW i \in Store!Live
       PROVE  /\ i[1] \in Segments /\ i[1] # h /\ i[1] \notin Store!FreeSegments'
              /\ i[2] + ItemSize <= seg'[i[1]].offset
  <2>1. i \in Store!Items /\ item[i].ref > 0
    BY DEF Store!Live, Store!Items
  <2>2. PICK t \in Segments : t = i[1] /\ Unfree(t) /\ i[2] + ItemSize <= seg[t].offset
    BY <2>1, LiveSegment
  <2>3. t # h
    BY <1>2, <2>2 DEF Unfree
  <2>4. Unfree(t)'
    BY <1>3, <2>2 DEF OffList
  <2>5. t \notin Store!FreeSegments'
    BY <1>11, <2>4, FreeIs, Zenon
  <2> QED
    BY <1>6, <2>2, <2>3, <2>5
<1>13. Store!Placed'
  BY <1>10, <1>12 DEF Store!Placed
<1>14. \A t : InUse(t)' = InUse(t)
  BY <1>10 DEF InUse
<1>15. Store!Accounted'
  <2>1. ASSUME NEW t \in Segments, Unfree(t)' PROVE SpaceOf(t)'
    <3>1. CASE t = h
      <4>1. InUse(h)' = {}
        BY <1>12, <1>14 DEF InUse
      <4>2. Cardinality(InUse(h)') = 0
        BY <4>1, FS_EmptySet, Zenon
      <4>3. 0 + ItemSize * 0 = 0
        BY Sizes
      <4> QED
        BY <1>5, <1>6, <3>1, <4>2, <4>3, Zenon DEF SpaceOf
    <3>2. CASE t # h
      <4>1. Unfree(t)
        BY <1>3, <2>1, <3>2 DEF OffList
      <4>2. SpaceOf(t)
        BY <1>1, <4>1, AccountedIs
      <4>3. seg'[t] = seg[t] /\ InUse(t)' = InUse(t)
        BY <1>6, <1>14, <3>2
      <4> QED
        BY <4>2, <4>3, Zenon DEF SpaceOf
    <3> QED
      BY <3>1, <3>2
  <2> QED
    BY <1>11, <2>1, AccountedIs
<1>16. LogsGrow
  BY <1>1, Zenon DEF LogsGrow
<1>17. NotReset
  <2>1. ASSUME NEW t \in Segments, seg'[t].cleaned PROVE seg[t].cleaned /\ (Unfree(t)' => Unfree(t))
    <3>1. t # h
      BY <1>5, <1>6, <2>1
    <3>2. Unfree(t)' => Unfree(t)
      BY <1>3, <3>1 DEF OffList
    <3> QED
      BY <1>6, <2>1, <3>1, <3>2
  <2> QED
    BY <2>1 DEF NotReset
<1> QED
  BY <1>1, <1>4, <1>6, <1>8, <1>9, <1>11, <1>13, <1>15, <1>16, <1>17 DEF Laid

\* The n-th segment s of core c's log, not its last, is given back.
Freeing(c, n, s) ==
    /\ log' = [log EXCEPT ![c] = RemoveAt(@, n)]
    /\ free_segments' = <<s>> \o free_segments
    /\ seg' = [seg EXCEPT ![s].offset = 0]
    /\ item' = item /\ reserved' = reserved

\* Entry m of core d's log without the n-th of c's was this entry of it before.
Before(c, n, d, m) == IF d = c /\ m >= n THEN m + 1 ELSE m

Shrunk(c, n) ==
    /\ log' \in [Cores -> Seq(Segments)]
    /\ \A d \in Cores : /\ Len(log'[d]) > 0 \/ Len(log[d]) = 0
                        /\ Len(log'[d]) = IF d = c THEN Len(log[d]) - 1 ELSE Len(log[d])
    /\ \A d \in Cores : \A m \in 1 .. Len(log'[d]) :
          /\ Before(c, n, d, m) \in 1 .. Len(log[d])
          /\ log'[d][m] = log[d][Before(c, n, d, m)]
    /\ \A d \in Cores : \A m \in 1 .. Len(log[d]) : d # c \/ m # n =>
          \E j \in 1 .. Len(log'[d]) : Before(c, n, d, j) = m

\* A log without its entry at n.
LEMMA LogShrinks ==
  ASSUME log \in [Cores -> Seq(Segments)], NEW c \in Cores, NEW n \in 1 .. Len(log[c]) - 1,
         log' = [log EXCEPT ![c] = RemoveAt(@, n)]
  PROVE  Shrunk(c, n)
<1>1. PICK g \in Seq(Segments) : g = log[c]
  OBVIOUS
<1>2. PICK l \in Nat : l = Len(g)
  BY <1>1
<1>3. n \in 1 .. l - 1 /\ n \in 1 .. l /\ l > 1
  BY <1>1, <1>2
<1>4. PICK r : r = RemoveAt(g, n)
  OBVIOUS
<1>5. /\ r \in Seq(Segments) /\ Len(r) = l - 1
      /\ \A m \in 1 .. l - 1 : r[m] = IF m < n THEN g[m] ELSE g[m + 1]
  BY <1>2, <1>3, <1>4, Removed
<1>6. log' = [log EXCEPT ![c] = r]
  BY <1>1, <1>4
<1>7. /\ log'[c] = r /\ \A d \in Cores \ {c} : log'[d] = log[d]
      /\ log' \in [Cores -> Seq(Segments)]
  BY <1>5, <1>6
<1>8. ASSUME NEW d \in Cores
      PROVE  /\ Len(log'[d]) > 0 \/ Len(log[d]) = 0
             /\ Len(log'[d]) = IF d = c THEN Len(log[d]) - 1 ELSE Len(log[d])
             /\ \A m \in 1 .. Len(log'[d]) : /\ Before(c, n, d, m) \in 1 .. Len(log[d])
                                             /\ log'[d][m] = log[d][Before(c, n, d, m)]
             /\ \A m \in 1 .. Len(log[d]) : d # c \/ m # n =>
                  \E j \in 1 .. Len(log'[d]) : Before(c, n, d, j) = m
  <2>1. CASE d # c
    <3>1. PICK q \in Seq(Segments), k \in Nat : q = log[d] /\ q = log'[d] /\ k = Len(q)
      BY <1>7, <2>1
    <3>2. \A m : Before(c, n, d, m) = m
      BY <2>1 DEF Before
    <3>3. \A m \in 1 .. k : \E j \in 1 .. k : Before(c, n, d, j) = m
      BY <3>2
    <3> QED
      BY <2>1, <3>1, <3>2, <3>3
  <2>2. CASE d = c
    <3>1. \A m \in 1 .. l - 1 : /\ Before(c, n, c, m) \in 1 .. l
                                /\ r[m] = g[Before(c, n, c, m)]
      BY <1>2, <1>3, <1>5 DEF Before
    <3>2. ASSUME NEW m \in 1 .. l, m # n PROVE \E j \in 1 .. l - 1 : Before(c, n, c, j) = m
      <4>1. CASE m < n
        <5>1. m \in 1 .. l - 1 /\ Before(c, n, c, m) = m
          BY <1>3, <4>1 DEF Before
        <5> QED
          BY <5>1
      <4>2. CASE m > n
        <5>1. m - 1 \in 1 .. l - 1 /\ Before(c, n, c, m - 1) = m
          BY <1>3, <4>2 DEF Before
        <5> QED
          BY <5>1
      <4> QED
        BY <1>3, <3>2, <4>1, <4>2
    <3>3. log'[d] = r /\ log[d] = g /\ Len(r) = l - 1 /\ Len(g) = l /\ l - 1 > 0
      BY <1>1, <1>2, <1>3, <1>5, <1>7, <2>2
    <3> QED
      BY <2>2, <3>1, <3>2, <3>3
  <2> QED
    BY <2>1, <2>2
<1> QED
  BY <1>7, <1>8 DEF Shrunk

\* A segment without an item in use leaves its log for the free list.
LEMMA FreeingKeeps ==
  ASSUME Store!StoreAssumption, ItemTypes, Laid, NEW c \in Cores, NEW n \in 1 .. Len(log[c]) - 1,
         NEW s, s = log[c][n], seg[s].freed = SegSize, Freeing(c, n, s)
  PROVE  /\ Laid' /\ NotReset /\ s \in Segments /\ Unfree(s) /\ InUse(s) = {}
         /\ \A t \in Segments : Unfree(t)' <=> Unfree(t) /\ t # s
         /\ \A t \in Segments : seg'[t].cleaned = seg[t].cleaned
         /\ \A d \in Cores : \A m \in 1 .. Len(log[d]) : log[d][m] # s =>
               \E j \in 1 .. Len(log'[d]) : log'[d][j] = log[d][m]
<1>1. /\ Apart /\ Filling /\ Store!Placed /\ Store!Accounted
      /\ seg \in [Segments -> SegStates] /\ log \in [Cores -> Seq(Segments)]
      /\ reserved \in [Cores -> Segments \cup {None}] /\ free_segments \in Seq(Segments)
      /\ item' = item /\ reserved' = reserved /\ free_segments' = <<s>> \o free_segments
      /\ log' = [log EXCEPT ![c] = RemoveAt(@, n)]
  BY DEF Laid, Freeing
<1>2. /\ log' \in [Cores -> Seq(Segments)]
      /\ \A d \in Cores : /\ Len(log'[d]) > 0 \/ Len(log[d]) = 0
                          /\ Len(log'[d]) = IF d = c THEN Len(log[d]) - 1 ELSE Len(log[d])
      /\ \A d \in Cores : \A m \in 1 .. Len(log'[d]) :
            /\ Before(c, n, d, m) \in 1 .. Len(log[d])
            /\ log'[d][m] = log[d][Before(c, n, d, m)]
      /\ \A d \in Cores : \A m \in 1 .. Len(log[d]) : d # c \/ m # n =>
            \E j \in 1 .. Len(log'[d]) : Before(c, n, d, j) = m
  <2>1. Shrunk(c, n)
    BY <1>1, LogShrinks
  <2> QED
    BY <2>1 DEF Shrunk
<1>3. \A d \in Cores : \A m \in 1 .. Len(log[d]) :
         /\ log[d][m] \in Segments /\ Unfree(log[d][m])
         /\ log[d][m] = s => d = c /\ m = n
         /\ \A e \in Cores : reserved[e] # log[d][m]
  <2>1. ASSUME NEW d \in Cores, NEW m \in 1 .. Len(log[d])
        PROVE  log[d][m] \in Segments
    BY <1>1, <2>1
  <2>2. n \in 1 .. Len(log[c])
    BY <1>1
  <2>3. ASSUME NEW d \in Cores, NEW m \in 1 .. Len(log[d])
        PROVE  Unfree(log[d][m])
    BY <1>1 DEF Apart, Unfree
  <2> QED
    BY <1>1, <2>1, <2>2, <2>3 DEF Apart
<1>4. s \in Segments /\ Unfree(s) /\ \A e \in Cores : reserved[e] # s
  <2>1. n \in 1 .. Len(log[c])
    BY <1>1
  <2> QED
    BY <1>3, <2>1
<1>5. SegSize \in Nat /\ ItemSize \in Nat
  BY Sizes
<1>6. PICK a \in SegStates : a = seg[s]
  BY <1>1, <1>4
<1>7. PICK b : b = seg'[s]
  OBVIOUS
<1>8. b = [a EXCEPT !.offset = 0]
  BY <1>1, <1>4, <1>6, <1>7 DEF Freeing
<1>9. /\ b \in SegStates /\ b.offset = 0 /\ b.cleaned = a.cleaned
  BY <1>8 DEF SegStates
<1>10. \A t \in Segments \ {s} : seg'[t] = seg[t]
  BY <1>1 DEF Freeing
<1>11. seg' \in [Segments -> SegStates]
  <2>1. seg' = [t \in Segments |-> seg'[t]]
    BY <1>1 DEF Freeing
  <2>2. \A t \in Segments : seg'[t] \in SegStates
    BY <1>1, <1>7, <1>9, <1>10
  <2> QED
    BY <2>1, <2>2
<1>12. \A t \in Segments : seg'[t].cleaned = seg[t].cleaned
  BY <1>6, <1>7, <1>9, <1>10
<1>13. PICK l \in Nat : l = Len(free_segments)
  BY <1>1
<1>14. /\ free_segments' \in Seq(Segments) /\ Len(free_segments') = l + 1
       /\ free_segments'[1] = s
       /\ \A m \in 1 .. l : free_segments'[m + 1] = free_segments[m]
  BY <1>1, <1>4, <1>13, Prepended
<1>15. \A m \in 1 .. Len(free_segments') :
          \/ m = 1 /\ free_segments'[m] = s
          \/ m - 1 \in 1 .. l /\ free_segments'[m] = free_segments[m - 1]
  <2>1. ASSUME NEW m \in 1 .. Len(free_segments'), m # 1
        PROVE  m - 1 \in 1 .. l /\ free_segments'[m] = free_segments[m - 1]
    <3>1. m - 1 \in 1 .. l /\ (m - 1) + 1 = m
      BY <1>14, <2>1
    <3> QED
      BY <1>14, <3>1
  <2> QED
    BY <1>14, <2>1
<1>16. \A t \in Segments : Unfree(t)' <=> Unfree(t) /\ t # s
  <2>1. ASSUME NEW t \in Segments, Unfree(t)' PROVE Unfree(t) /\ t # s
    <3>1. \A m \in 1 .. l + 1 : free_segments'[m] # t
      BY <1>14, <2>1 DEF Unfree
    <3>2. \A m \in 1 .. l : m + 1 \in 1 .. l + 1
      OBVIOUS
    <3> QED
      BY <1>13, <1>14, <3>1, <3>2 DEF Unfree
  <2>2. ASSUME NEW t \in Segments, Unfree(t), t # s PROVE Unfree(t)'
    BY <1>13, <1>15, <2>2 DEF Unfree
  <2> QED
    BY <2>1, <2>2
<1>17. NotReset
  BY <1>12, <1>16 DEF NotReset
<1>18. \A d \in Cores : \A m \in 1 .. Len(log[d]) : log[d][m] # s =>
          \E j \in 1 .. Len(log'[d]) : log'[d][j] = log[d][m]
  <2>1. ASSUME NEW d \in Cores, NEW m \in 1 .. Len(log[d]), log[d][m] # s
        PROVE  \E j \in 1 .. Len(log'[d]) : log'[d][j] = log[d][m]
    <3>1. d # c \/ m # n
      BY <2>1
    <3>2. PICK j \in 1 .. Len(log'[d]) : Before(c, n, d, j) = m
      BY <1>2, <3>1
    <3> QED
      BY <1>2, <3>2
  <2> QED
    BY <2>1
<1>19. InUse(s) = {}
  <2>1. seg[s].offset = SegSize
    BY <1>1 DEF Filling
  <2>2. SpaceOf(s)
    BY <1>1, <1>4, AccountedIs
  <2> QED
    BY <2>1, <2>2, AllFree
<1>20. Filling'
  <2>1. \A t \in Segments : seg'[t].offset \in Marks
    BY <1>1, <1>7, <1>9, <1>10, OffsetsRight DEF Filling
  <2>2. ASSUME NEW d \in Cores, NEW m \in 1 .. Len(log'[d]) - 1
        PROVE  seg'[log'[d][m]].offset = SegSize
    <3>1. m \in 1 .. Len(log'[d]) /\ log[d] \in Seq(Segments) /\ log'[d] \in Seq(Segments)
      BY <1>1, <1>2
    <3>2. PICK j : j = Before(c, n, d, m)
      OBVIOUS
    <3>3. j \in 1 .. Len(log[d]) - 1 /\ j \in 1 .. Len(log[d])
      <4>1. PICK x \in Nat, y \in Nat : x = Len(log[d]) /\ y = Len(log'[d])
        BY <3>1
      <4>2. y = (IF d = c THEN x - 1 ELSE x) /\ m \in 1 .. y - 1
        BY <1>2, <2>2, <4>1
      <4>3. j \in 1 .. x - 1
        BY <3>2, <4>2 DEF Before
      <4> QED
        BY <4>1, <4>3
    <3>4. ~(d = c /\ j = n)
      BY <3>1, <3>2 DEF Before
    <3>5. log'[d][m] = log[d][j]
      BY <1>2, <3>1, <3>2
    <3>6. log[d][j] \in Segments \ {s} /\ seg[log[d][j]].offset = SegSize
      BY <1>1, <1>3, <3>3, <3>4 DEF Filling
    <3> QED
      BY <1>10, <3>5, <3>6
  <2>3. ASSUME NEW d \in Cores, reserved[d] # None PROVE seg'[reserved[d]] = seg[reserved[d]]
    <3>1. reserved[d] # s /\ reserved[d] \in Segments
      BY <1>1, <1>4, <2>3
    <3> QED
      BY <1>10, <3>1
  <2>4. \A d \in Cores : Len(log'[d]) > 0
    BY <1>1, <1>2 DEF Filling
  <2>5. \A d \in Cores : reserved'[d] # None => seg'[reserved'[d]] = Store!Empty
    BY <1>1, <2>3 DEF Filling
  <2> QED
    BY <2>1, <2>2, <2>4, <2>5 DEF Filling, Store!Empty
<1>21. Apart'
  <2>1. ASSUME NEW d \in Cores, NEW m \in 1 .. Len(log'[d])
        PROVE  /\ log'[d][m] \in Segments /\ log'[d][m] # s /\ Unfree(log'[d][m])
               /\ Before(c, n, d, m) \in 1 .. Len(log[d])
               /\ log'[d][m] = log[d][Before(c, n, d, m)]
               /\ \A e \in Cores : reserved'[e] # log'[d][m]
    <3>1. PICK j \in 1 .. Len(log[d]) : j = Before(c, n, d, m) /\ log'[d][m] = log[d][j]
      BY <1>2
    <3>2. ~(d = c /\ j = n)
      <4>1. m \in Nat /\ n \in Nat
        BY <1>1, <1>2
      <4> QED
        BY <3>1, <4>1 DEF Before
    <3> QED
      BY <1>1, <1>3, <3>1, <3>2
  <2>2. ASSUME NEW d \in Cores, NEW e \in Cores, NEW m \in 1 .. Len(log'[d]),
               NEW j \in 1 .. Len(log'[e]), log'[d][m] = log'[e][j]
        PROVE  d = e /\ m = j
    <3>1. PICK x \in 1 .. Len(log[d]) : x = Before(c, n, d, m) /\ log'[d][m] = log[d][x]
      BY <2>1
    <3>5. PICK y \in 1 .. Len(log[e]) : y = Before(c, n, e, j) /\ log'[e][j] = log[e][y]
      BY <2>1
    <3>2. d = e /\ x = y
      BY <1>1, <2>2, <3>1, <3>5 DEF Apart
    <3>3. m \in Nat /\ j \in Nat /\ n \in Nat
      BY <1>1, <1>2
    <3>4. m = j
      BY <3>1, <3>2, <3>3, <3>5 DEF Before
    <3> QED
      BY <3>2, <3>4
  <2>3. ASSUME NEW d \in Cores, NEW m \in 1 .. Len(log'[d]), NEW j \in 1 .. Len(free_segments')
        PROVE  log'[d][m] # free_segments'[j]
    <3>1. PICK t \in Segments : t = log'[d][m] /\ t # s /\ Unfree(t)
      BY <2>1
    <3>2. Unfree(t)'
      BY <1>16, <3>1
    <3> QED
      BY <3>1, <3>2 DEF Unfree
  <2>4. ASSUME NEW m \in 1 .. Len(free_segments'), NEW j \in 1 .. Len(free_segments'),
               free_segments'[m] = free_segments'[j]
        PROVE  m = j
    <3>1. \A x \in 1 .. l : free_segments[x] # s
      BY <1>4, <1>13 DEF Unfree
    <3>2. \A x, y \in 1 .. l : free_segments[x] = free_segments[y] => x = y
      BY <1>1, <1>13 DEF Apart
    <3>3. m \in Int /\ j \in Int
      BY <1>14
    <3> QED
      BY <1>15, <2>4, <3>1, <3>2, <3>3
  <2>5. ASSUME NEW d \in Cores, NEW j \in 1 .. Len(free_segments')
        PROVE  reserved'[d] # free_segments'[j]
    <3>1. \A x \in 1 .. l : reserved[d] # free_segments[x]
      BY <1>1, <1>13 DEF Apart
    <3> QED
      BY <1>1, <1>4, <1>15, <3>1
  <2>6. \A d, e \in Cores : reserved'[d] # None /\ reserved'[d] = reserved'[e] => d = e
    BY <1>1 DEF Apart
  <2> QED
    BY <2>1, <2>2, <2>3, <2>4, <2>5, <2>6 DEF Apart
<1>22. Store!Live' = Store!Live
  BY <1>1, Zenon DEF Store!Live
<1>23. Store!Placed'
  <2>1. ASSUME NEW i \in Store!Live'
        PROVE  i[1] \notin Store!FreeSegments' /\ i[2] + ItemSize <= seg'[i[1]].offset
    <3>1. i \in Store!Live /\ i \in Store!Items
      BY <1>22 DEF Store!Live, Store!Items
    <3>2. PICK t \in Segments : t = i[1]
      BY <3>1, ItemsAre, OffsetsRight
    <3>3. t # s
      BY <1>19, <3>1, <3>2 DEF InUse
    <3>4. t \notin Store!FreeSegments /\ i[2] + ItemSize <= seg[t].offset
      BY <1>1, <3>1, <3>2, Zenon DEF Store!Placed
    <3>5. Unfree(t)
      BY <1>1, <3>4, FreeIs
    <3>6. Unfree(t)'
      BY <1>16, <3>3, <3>5
    <3>7. t \notin Store!FreeSegments'
      BY <1>14, <3>6, FreeIs
    <3> QED
      BY <1>10, <3>2, <3>3, <3>4, <3>7
  <2> QED
    BY <2>1, Zenon DEF Store!Placed
<1>24. Store!Accounted'
  <2>1. \A t \in Segments : Unfree(t) => SpaceOf(t)
    BY <1>1, AccountedIs
  <2>2. ASSUME NEW t \in Segments, Unfree(t)' PROVE SpaceOf(t)'
    <3>1. t # s /\ Unfree(t)
      BY <1>16, <2>2
    <3>2. SpaceOf(t) /\ seg'[t] = seg[t]
      BY <1>10, <2>1, <3>1
    <3>3. InUse(t)' = InUse(t)
      BY <1>22 DEF InUse
    <3> QED
      BY <3>2, <3>3, Zenon DEF SpaceOf
  <2> QED
    BY <1>14, <2>2, AccountedIs
<1> QED
  BY <1>1, <1>2, <1>4, <1>11, <1>12, <1>14, <1>16, <1>17, <1>18, <1>19, <1>20, <1>21, <1>23, <1>24 DEF Laid

(***************************************************************************)
(* The parts of the invariant from one state to the next.                  *)
(***************************************************************************)

\* The part of ItemTypes that Laid does not have.
Users == /\ item \in [Store!Items -> Entries]
         /\ Queues(cq, CqSize)
         /\ cleaning \in [Cores -> Segments \cup {None}]
         /\ clean_offset \in [Cores -> Nat]
         /\ table \in [Keys -> Store!Items \cup {None}]
         /\ core \in [Cores -> CoreStates]
         /\ Queues(HeldBy, 2)
         /\ \A c \in Cores : core[c].step = "release" => core[c].items # <<>>
         /\ maint \in [at : Cores, step : {"free", "scan", "done"}]

\* ... and the part about cores, queues and the table; ...
LEMMA InvUsers == ItemInv => Users
BY DEF ItemInv, ItemTypes, Users

\* ... the types are in the two of them ...
LEMMA UsersAndLaid ==
  /\ Users /\ Laid => ItemTypes
  /\ Users' /\ Laid' => ItemTypes'
BY DEF Users, Laid, ItemTypes

\* ... and all parts make the invariant.
LEMMA Assembled ==
  ASSUME Users', Laid', ScanRight', FreshRight', Contents', Store!Counted', Store!Queued',
         Store!Stored'
  PROVE  ItemInv'
<1>1. ItemTypes'
  BY UsersAndLaid
<1>2. Apart' /\ Filling' /\ Store!Placed' /\ Store!Accounted'
  BY DEF Laid
<1> QED
  BY <1>1, <1>2 DEF ItemInv, Store!ItemsSafe

\* UsedCounts in the next state.
LEMMA UsedNext ==
  ASSUME Store!StoreAssumption, Users', Store!Counted'
  PROVE  /\ \A k \in Keys : table'[k] # None => table'[k] \in Store!Items /\ item'[table'[k]].ref > 0
         /\ \A c \in Cores : \A n \in 1 .. Len((HeldBy')[c]) :
               (HeldBy')[c][n] \in Store!Items /\ item'[(HeldBy')[c][n]].ref > 0
<1>1. \A i \in Store!Items : item'[i].ref = Refs(table', cq', HeldBy', i)
  BY RefsAre DEF Store!Counted, Store!Items
<1>2. \A i : /\ StoredAs(table', i) \in Nat /\ Store!Uses(cq', CqSize, i) \in Nat
             /\ Store!Uses(HeldBy', 2, i) \in Nat
  BY RefsNat
<1>3. ASSUME NEW k \in Keys, table'[k] # None PROVE table'[k] \in Store!Items /\ item'[table'[k]].ref > 0
  <2>1. PICK i \in Store!Items : i = table'[k]
    BY <1>3 DEF Users
  <2>2. StoredAs(table', i) > 0
    BY <2>1, StoredSome
  <2> QED
    BY <1>1, <1>2, <2>1, <2>2 DEF Refs
<1>4. ASSUME NEW c \in Cores, NEW n \in 1 .. Len((HeldBy')[c])
      PROVE  (HeldBy')[c][n] \in Store!Items /\ item'[(HeldBy')[c][n]].ref > 0
  <2>1. Queues(HeldBy', 2)
    BY DEF Users
  <2>2. PICK i \in Store!Items : i = (HeldBy')[c][n]
    BY <2>1 DEF Queues
  <2>3. Store!Uses(HeldBy', 2, i) > 0
    BY <2>1, <2>2, UsesSome
  <2> QED
    BY <1>1, <1>2, <2>2, <2>3 DEF Refs
<1> QED
  BY <1>3, <1>4

\* The counts move with the references.
LEMMA CountsMove ==
  ASSUME Store!StoreAssumption, ItemInv, item' \in [Store!Items -> Entries],
         \A i \in Store!Items : Refs(table', cq', HeldBy', i) - Refs(table, cq, HeldBy, i)
                          = item'[i].ref - item[i].ref
  PROVE  Store!Counted'
<1>1. ASSUME NEW i \in Store!Items PROVE item'[i].ref = Store!References(i)'
  <2>1. item[i].ref = Refs(table, cq, HeldBy, i)
    BY RefsAre DEF ItemInv, Store!ItemsSafe, Store!Counted, Store!Items
  <2>2. /\ Refs(table, cq, HeldBy, i) \in Nat /\ Refs(table', cq', HeldBy', i) \in Nat
    BY RefsNat
  <2>3. item'[i].ref \in Nat
    BY DEF Entries
  <2>4. item'[i].ref = Refs(table', cq', HeldBy', i)
    BY <2>1, <2>2, <2>3
  <2> QED
    BY <2>4, RefsAre
<1> QED
  BY <1>1, Zenon DEF Store!Counted, Store!Items

\* Every item in use was and keeps its key and value, but perhaps n.
SameContents(n) == \A i \in Store!Items \ {n} :
    item'[i].ref > 0 => /\ item[i].ref > 0 /\ item'[i].key = item[i].key
                        /\ item'[i].val = item[i].val

\* Contents stay when no item that is in use changes and a key keeps its item
\* or gets one of its own.
LEMMA ContentsKept ==
  ASSUME Store!StoreAssumption, ItemInv, Users', Store!Counted', SameContents(None),
         \A c \in Cores : core'[c].step = "cas" => core'[c] = core[c],
         \A k \in Keys : table'[k] # None => table'[k] = table[k] \/ item[table'[k]].key = k
  PROVE  Contents' /\ Store!Stored'
<1>1. None \notin Store!Items
  BY Sizes
<1>2. \A i \in Store!Items : item'[i].ref > 0 => /\ item[i].ref > 0 /\ item'[i].key = item[i].key
                                                 /\ item'[i].val = item[i].val
  BY <1>1 DEF SameContents
<1>3. Contents /\ Store!Stored
  BY DEF ItemInv, Store!ItemsSafe
<1>4. \A i \in Store!Items : item'[i].ref > 0 => item'[i].key \in Keys /\ item'[i].val \in Values
  BY <1>2, <1>3 DEF Contents
<1>5. ASSUME NEW c \in Cores, core'[c].step = "cas"
      PROVE  /\ item'[core'[c].it].key = item'[core'[c].nit].key
             /\ item'[core'[c].it].val = item'[core'[c].nit].val
  <2>1. PICK u \in CoreStates : u = core[c] /\ u = core'[c]
    BY <1>5 DEF Users
  <2>2. u.step = "cas" /\ (HeldBy')[c] = <<u.it, u.nit>>
    BY <1>5, <2>1, HeldIs DEF HeldOf
  <2>3. PICK m \in Store!Items, n \in Store!Items : m = u.it /\ n = u.nit
    BY <2>1, <2>2 DEF CoreStates, Store!Idle
  <2>4. PICK h : h = (HeldBy')[c]
    OBVIOUS
  <2>5. 1 \in 1 .. Len(h) /\ 2 \in 1 .. Len(h) /\ h[1] = m /\ h[2] = n
    BY <2>2, <2>3, <2>4
  <2>6. item'[m].ref > 0 /\ item'[n].ref > 0
    BY <2>4, <2>5, UsedNext
  <2>7. item[m].key = item[n].key /\ item[m].val = item[n].val
    BY <1>3, <2>1, <2>2, <2>3 DEF Contents
  <2>8. item'[m].key = item'[n].key /\ item'[m].val = item'[n].val
    BY <1>2, <2>6, <2>7
  <2> QED
    BY <2>1, <2>3, <2>8
<1>6. ASSUME NEW k \in Keys, table'[k] # None PROVE item'[table'[k]].key = k
  <2>1. PICK i \in Store!Items : i = table'[k] /\ item'[i].ref > 0
    BY <1>6, UsedNext
  <2>2. item[i].key = k
    BY <1>3, <1>6, <2>1 DEF Store!Stored
  <2> QED
    BY <1>2, <2>1, <2>2
<1> QED
  BY <1>4, <1>5, <1>6, Zenon DEF Contents, Store!Stored

FreshOf(u) == IF u.step = "put" THEN u.it ELSE IF u.step = "cas" THEN u.nit ELSE None

\* What a core has written but not stored follows from its own state, ...
LEMMA FreshIs ==
  ASSUME NEW c
  PROVE  Fresh(c) = FreshOf(core[c]) /\ Fresh(c)' = FreshOf(core'[c])
BY DEF Fresh, FreshOf

\* ... which is one of two.
LEMMA FreshSome ==
  ASSUME NEW u, FreshOf(u) # None
  PROVE  \/ u.step = "put" /\ u.it = FreshOf(u)
         \/ u.step = "cas" /\ u.nit = FreshOf(u)
<1>1. CASE u.step = "put"
  <2>1. FreshOf(u) = u.it
    BY <1>1 DEF FreshOf
  <2> QED
    BY <1>1, <2>1
<1>2. CASE u.step # "put"
  <2>1. u.step = "cas"
    BY <1>2 DEF FreshOf
  <2> QED
    BY <1>2, <2>1 DEF FreshOf
<1> QED
  BY <1>1, <1>2

\* Items that were fresh still are, or are put in the table.
LEMMA FreshKept ==
  ASSUME ItemInv, \A c \in Cores : FreshOf(core'[c]) \in {None, FreshOf(core[c])},
         \A k \in Keys : \/ table'[k] = table[k]
                         \/ \A c \in Cores : FreshOf(core'[c]) # None => table'[k] # FreshOf(core'[c])
  PROVE  FreshRight'
<1>1. \A c \in Cores : FreshOf(core[c]) # None =>
         /\ \A k \in Keys : table[k] # FreshOf(core[c])
         /\ \A d \in Cores \ {c} : FreshOf(core[d]) # FreshOf(core[c])
  BY FreshIs DEF ItemInv, FreshRight
<1>2. ASSUME NEW c \in Cores, FreshOf(core'[c]) # None
      PROVE  /\ \A k \in Keys : table'[k] # FreshOf(core'[c])
             /\ \A d \in Cores \ {c} : FreshOf(core'[d]) # FreshOf(core'[c])
  BY <1>1, <1>2
<1>3. ASSUME NEW c \in Cores, Fresh(c)' # None
      PROVE  /\ \A k \in Keys : table'[k] # Fresh(c)'
             /\ \A d \in Cores \ {c} : Fresh(d)' # Fresh(c)'
  BY <1>2, <1>3, FreshIs
<1> QED
  BY <1>3, Zenon DEF FreshRight

\* A new item is nowhere yet.
LEMMA FreshAdded ==
  ASSUME Store!StoreAssumption, ItemInv, NEW c \in Cores, NEW n, Unused(n), table' = table,
         FreshOf(core'[c]) = n, \A d \in Cores \ {c} : core'[d] = core[d]
  PROVE  FreshRight'
<1>1. \A d \in Cores : FreshOf(core[d]) # None =>
         /\ \A k \in Keys : table[k] # FreshOf(core[d])
         /\ \A e \in Cores \ {d} : FreshOf(core[e]) # FreshOf(core[d])
  BY FreshIs DEF ItemInv, FreshRight
<1>2. /\ \A k \in Keys : table[k] # None => table[k] \in Store!Items /\ item[table[k]].ref > 0
      /\ \A d \in Cores : \A j \in 1 .. Len(HeldBy[d]) :
               HeldBy[d][j] \in Store!Items /\ item[HeldBy[d][j]].ref > 0
  BY UsedCounts DEF ItemInv, Store!ItemsSafe
<1>3. n \in Store!Items /\ item[n].ref = 0 /\ n # None
  BY Sizes DEF Unused
<1>4. \A k \in Keys : table[k] # n
  BY <1>2, <1>3
<1>5. ASSUME NEW d \in Cores, FreshOf(core[d]) = n PROVE FALSE
  <2>1. PICK u \in CoreStates : u = core[d]
    BY DEF ItemInv, ItemTypes
  <2>2. \/ u.step = "put" /\ u.it = n
        \/ u.step = "cas" /\ u.nit = n
    <3>1. FreshOf(u) = n /\ n # None
      BY <1>3, <1>5, <2>1
    <3> QED
      BY <3>1, FreshSome
  <2>3. PICK h : h = HeldBy[d] /\ h = HeldOf(u)
    BY <2>1, HeldIs
  <2>4. \E j \in 1 .. Len(h) : h[j] = n
    <3>1. CASE u.step = "put" /\ u.it = n
      <4>1. h = <<n>>
        BY <2>3, <3>1 DEF HeldOf
      <4> QED
        BY <4>1
    <3>2. CASE u.step = "cas" /\ u.nit = n
      <4>1. h = <<u.it, n>>
        BY <2>3, <3>2 DEF HeldOf
      <4>2. 2 \in 1 .. Len(h) /\ h[2] = n
        BY <4>1
      <4> QED
        BY <4>2
    <3> QED
      BY <2>2, <3>1, <3>2
  <2>5. PICK j : j \in 1 .. Len(HeldBy[d]) /\ HeldBy[d][j] = n
    BY <2>3, <2>4
  <2>6. item[n].ref > 0
    BY <1>2, <2>5, Zenon
  <2> QED
    BY <1>3, <2>6
<1>6. ASSUME NEW d \in Cores, Fresh(d)' # None
      PROVE  /\ \A k \in Keys : table'[k] # Fresh(d)'
             /\ \A e \in Cores \ {d} : Fresh(e)' # Fresh(d)'
  <2>1. FreshOf(core'[d]) # None
    BY <1>6, FreshIs
  <2>2. /\ \A k \in Keys : table'[k] # FreshOf(core'[d])
        /\ \A e \in Cores \ {d} : FreshOf(core'[e]) # FreshOf(core'[d])
    <3>1. CASE d = c
      BY <1>4, <1>5, <3>1
    <3>2. CASE d # c
      BY <1>1, <1>5, <2>1, <3>2
    <3> QED
      BY <3>1, <3>2
  <2> QED
    BY <2>2, FreshIs
<1> QED
  BY <1>6, Zenon DEF FreshRight

\* The segments of queued items stay in the log of their core ...
LEMMA QueuedIs ==
  ASSUME ItemInv, NEW d \in Cores, NEW m \in 1 .. Len(cq[d])
  PROVE  \E j \in 1 .. Len(log[d]) : log[d][j] = cq[d][m][1]
<1>1. cq[d] \in Seq(Store!Items) /\ log[d] \in Seq(Segments)
  BY DEF ItemInv, ItemTypes, Queues
<1>2. cq[d][m][1] \in Range(log[d])
  <2>1. m \in DOMAIN cq[d]
    BY <1>1
  <2>2. Store!Queued
    BY DEF ItemInv, Store!ItemsSafe
  <2> QED
    BY <2>1, <2>2, Zenon DEF Store!Queued, Store!Range, Range
<1> QED
  BY <1>1, <1>2, InRange

\* The queues of the cleaner hold items of the log of their core.
LEMMA QueuedNext ==
  ASSUME Users', Laid',
         \A d \in Cores : \A m \in 1 .. Len(cq'[d]) :
            \E j \in 1 .. Len(log'[d]) : log'[d][j] = cq'[d][m][1]
  PROVE  Store!Queued'
<1>1. ASSUME NEW d \in Cores, NEW m \in DOMAIN cq'[d]
      PROVE  cq'[d][m][1] \in Range(log'[d])
  <2>1. cq'[d] \in Seq(Store!Items) /\ log'[d] \in Seq(Segments)
    BY DEF Users, Queues, Laid
  <2>2. m \in 1 .. Len(cq'[d])
    BY <2>1
  <2>3. PICK j \in 1 .. Len(log'[d]) : log'[d][j] = cq'[d][m][1]
    BY <2>2, Zenon
  <2>4. j \in DOMAIN log'[d]
    BY <2>1
  <2> QED
    BY <2>3, <2>4, InRange, Zenon
<1> QED
  BY <1>1, Zenon DEF Store!Queued, Store!Range, Range

\* ... and a segment being cleaned is given back at most.
Stays == \A d \in Cores : \A s \in Segments :
            (\E m \in 1 .. Len(log[d]) : log[d][m] = s)
            => ~Unfree(s)' \/ \E j \in 1 .. Len(log'[d]) : log'[d][j] = s

\* A scan stays within the log while no segment of it is given back or marked
\* anew.
LEMMA ScanKept ==
  ASSUME ItemInv, cleaning' = cleaning, NotReset, Stays,
         \A c \in Cores : clean_offset'[c] < SegSize => clean_offset[c] < SegSize
  PROVE  ScanRight'
<1>1. ASSUME NEW c \in Cores, cleaning'[c] # None, clean_offset'[c] < SegSize,
             seg'[cleaning'[c]].cleaned
      PROVE  \/ \E n \in 1 .. Len(log'[c]) : log'[c][n] = cleaning'[c]
             \/ \E n \in 1 .. Len(free_segments') : free_segments'[n] = cleaning'[c]
  <2>1. PICK s \in Segments : s = cleaning[c] /\ s = cleaning'[c]
    BY <1>1 DEF ItemInv, ItemTypes
  <2>2. seg[s].cleaned /\ (Unfree(s)' => Unfree(s))
    BY <1>1, <2>1 DEF NotReset
  <2>3. \/ \E n \in 1 .. Len(log[c]) : log[c][n] = s
        \/ \E n \in 1 .. Len(free_segments) : free_segments[n] = s
    <3>1. ScanRight
      BY DEF ItemInv
    <3>2. clean_offset[c] < SegSize /\ cleaning[c] # None /\ seg[cleaning[c]].cleaned
      BY <1>1, <2>1, <2>2
    <3>3. \/ \E n \in 1 .. Len(log[c]) : log[c][n] = cleaning[c]
          \/ \E n \in 1 .. Len(free_segments) : free_segments[n] = cleaning[c]
      BY <3>1, <3>2, Zenon DEF ScanRight
    <3> QED
      BY <2>1, <3>3
  <2>4. CASE \E n \in 1 .. Len(log[c]) : log[c][n] = s
    BY <2>1, <2>4 DEF Stays, Unfree
  <2>5. CASE \E n \in 1 .. Len(free_segments) : free_segments[n] = s
    BY <2>1, <2>2, <2>5 DEF Unfree
  <2> QED
    BY <2>3, <2>4, <2>5
<1> QED
  BY <1>1, Zenon DEF ScanRight

\* The steps that do not clean.
LEMMA NotCleaning ==
  ASSUME ItemInv, Users', Laid', LogsGrow, NotReset, cq' = cq, cleaning' = cleaning,
         clean_offset' = clean_offset
  PROVE  Store!Queued' /\ ScanRight'
<1>1. Store!Queued'
  <2>1. ASSUME NEW d \in Cores, NEW m \in 1 .. Len(cq'[d])
        PROVE  \E j \in 1 .. Len(log'[d]) : log'[d][j] = cq'[d][m][1]
    <3>1. PICK j \in 1 .. Len(log[d]) : log[d][j] = cq[d][m][1]
      BY <2>1, QueuedIs
    <3> QED
      BY <3>1 DEF LogsGrow
  <2> QED
    BY <2>1, QueuedNext
<1>2. Stays
  BY DEF LogsGrow, Stays
<1> QED
  BY <1>1, <1>2, ScanKept

(***************************************************************************)
(* Steps that allocate.                                                    *)
(***************************************************************************)

\* Core c is left with the new item n as its last one.
Holding(c, n, u) ==
    /\ core' = [core EXCEPT ![c] = u]
    /\ cq' = cq /\ cleaning' = cleaning /\ clean_offset' = clean_offset
    /\ table' = table /\ maint' = maint

\* What both allocations have in common: the new item is held by its core and
\* known to no other.
LEMMA AllocationKeeps ==
  ASSUME Store!StoreAssumption, ItemInv, NEW c \in Cores, NEW b, NEW h,
         h \in Store!NewSegments(c, b), NEW k \in Keys, NEW v \in Values,
         Store!Allocate(c, h, k, v),
         NEW n, n = Store!NextItem(c, h), NEW u \in CoreStates, Holding(c, n, u),
         HeldOf(u) = Append(HeldOf(core[c]), n), Len(HeldOf(u)) <= 2, FreshOf(u) = n,
         u.step # "release",
         u.step = "cas" => /\ u.nit = n /\ u.it \in Store!Items /\ item[u.it].ref > 0
                           /\ item[u.it].key = k /\ item[u.it].val = v
  PROVE  ItemInv'
<1>1. /\ Unused(n) /\ item' = [item EXCEPT ![n] = NewItem(k, v)]
      /\ Laid' /\ LogsGrow /\ NotReset
  BY AllocateRight
<1>2. ItemTypes /\ Users
  BY InvUsers DEF ItemInv
<1>3. /\ item' \in [Store!Items -> Entries] /\ item'[n] = NewItem(k, v) /\ n \in Store!Items
      /\ \A j \in Store!Items \ {n} : item'[j] = item[j]
  BY <1>1, <1>2, ItemAdded
<1>4. /\ core' = [core EXCEPT ![c] = u] /\ cq' = cq /\ cleaning' = cleaning
      /\ clean_offset' = clean_offset /\ table' = table /\ maint' = maint
  BY DEF Holding
<1>5. core \in [Cores -> CoreStates]
  BY <1>2 DEF Users
<1>6. Queues(HeldBy', 2) /\ Pushed(HeldBy, HeldBy', c, n)
  BY <1>2, <1>3, <1>4, HoldsMore
<1>7. core' \in [Cores -> CoreStates] /\ core'[c] = u /\ \A d \in Cores \ {c} : core'[d] = core[d]
  BY <1>4, <1>5, OneCore
<1>8. Users'
  <2>1. \A d \in Cores : core'[d].step = "release" => core'[d].items # <<>>
    BY <1>2, <1>7 DEF Users
  <2> QED
    BY <1>2, <1>3, <1>4, <1>6, <1>7, <2>1 DEF Users
<1>9. item[n].ref = 0 /\ item'[n].ref = 1 /\ item'[n].key = k /\ item'[n].val = v
  BY <1>1, <1>3 DEF Unused, NewItem
<1>10. Store!Counted'
  <2>1. ASSUME NEW i \in Store!Items
        PROVE  Refs(table', cq', HeldBy', i) - Refs(table, cq, HeldBy, i)
                          = item'[i].ref - item[i].ref
    <3>1. Queues(HeldBy, 2) /\ 2 \in Nat
      BY <1>2 DEF Users
    <3>2. Store!Uses(HeldBy', 2, i) = Store!Uses(HeldBy, 2, i) + (IF n = i THEN 1 ELSE 0)
      <4>1. PICK Q, R : Q = HeldBy /\ R = HeldBy'
        OBVIOUS
      <4>2. Queues(Q, 2) /\ Queues(R, 2) /\ Pushed(Q, R, c, n) /\ 2 \in Nat /\ n \in Store!Items
        BY <1>3, <1>6, <3>1, <4>1
      <4>3. Store!Uses(R, 2, i) = Store!Uses(Q, 2, i) + (IF n = i THEN 1 ELSE 0)
        <5>1. Pushing(Q, R, 2, c, n)
          BY <4>2 DEF Pushing
        <5> QED
          BY <5>1, UsesMore
      <4> QED
        BY <4>1, <4>3
    <3>3. /\ StoredAs(table, i) \in Nat /\ Store!Uses(cq, CqSize, i) \in Nat
          /\ Store!Uses(HeldBy, 2, i) \in Nat
      BY RefsNat
    <3>4. Refs(table', cq', HeldBy', i) - Refs(table, cq, HeldBy, i) = IF n = i THEN 1 ELSE 0
      BY <1>4, <3>2, <3>3 DEF Refs
    <3>5. item[i].ref \in Nat
      BY <1>2 DEF Users, Entries
    <3>6. item'[i].ref - item[i].ref = IF n = i THEN 1 ELSE 0
      BY <1>3, <1>9, <3>5
    <3> QED
      BY <3>4, <3>6
  <2> QED
    BY <1>3, <2>1, CountsMove
<1>11. Store!Queued' /\ ScanRight'
  BY <1>1, <1>4, <1>8, NotCleaning
<1>12. FreshRight'
  BY <1>1, <1>4, <1>7, FreshAdded
<1>13. /\ \A j \in Keys : table[j] # None => table[j] \in Store!Items /\ item[table[j]].ref > 0
       /\ \A d \in Cores : \A m \in 1 .. Len(HeldBy[d]) :
             HeldBy[d][m] \in Store!Items /\ item[HeldBy[d][m]].ref > 0
  BY UsedCounts DEF ItemInv, Store!ItemsSafe
<1>14. Contents /\ Store!Stored
  BY DEF ItemInv, Store!ItemsSafe
<1>15. Store!Stored'
  <2>1. ASSUME NEW j \in Keys, table'[j] # None PROVE item'[table'[j]].key = j
    BY <1>3, <1>4, <1>9, <1>13, <1>14, <2>1 DEF Store!Stored
  <2> QED
    BY <2>1, Zenon DEF Store!Stored
<1>16. Contents'
  <2>1. ASSUME NEW i \in Store!Items, item'[i].ref > 0 PROVE item'[i].key \in Keys /\ item'[i].val \in Values
    BY <1>3, <1>9, <1>14, <2>1 DEF Contents
  <2>2. ASSUME NEW d \in Cores, core'[d].step = "cas"
        PROVE  /\ item'[core'[d].it].key = item'[core'[d].nit].key
               /\ item'[core'[d].it].val = item'[core'[d].nit].val
    <3>1. CASE d = c
      <4>1. u.step = "cas" /\ core'[d] = u
        BY <1>7, <2>2, <3>1
      <4>2. u.nit = n /\ u.it \in Store!Items \ {n} /\ item[u.it].key = k /\ item[u.it].val = v
        BY <1>9, <4>1
      <4> QED
        BY <1>3, <1>9, <4>1, <4>2
    <3>2. CASE d # c
      <4>1. PICK w \in CoreStates : w = core[d] /\ w = core'[d]
        BY <1>5, <1>7, <3>2
      <4>2. w.step = "cas" /\ HeldBy[d] = <<w.it, w.nit>>
        BY <2>2, <4>1, HeldIs DEF HeldOf
      <4>3. PICK x \in Store!Items, y \in Store!Items : x = w.it /\ y = w.nit
        BY <4>1, <4>2 DEF CoreStates, Store!Idle
      <4>4. PICK q : q = HeldBy[d]
        OBVIOUS
      <4>5. 1 \in 1 .. Len(q) /\ 2 \in 1 .. Len(q) /\ q[1] = x /\ q[2] = y
        BY <4>2, <4>3, <4>4
      <4>6. x # n /\ y # n
        BY <1>9, <1>13, <4>4, <4>5
      <4>7. item[x].key = item[y].key /\ item[x].val = item[y].val
        BY <1>14, <2>2, <4>1, <4>3 DEF Contents
      <4> QED
        BY <1>3, <4>1, <4>3, <4>6, <4>7
    <3> QED
      BY <3>1, <3>2
  <2> QED
    BY <2>1, <2>2, Zenon DEF Contents
<1> QED
  BY <1>1, <1>8, <1>10, <1>11, <1>12, <1>15, <1>16, Assembled

\* A SET allocates the item and writes it.
LEMMA SetAllocKeeps ==
  ASSUME Store!StoreAssumption, ItemInv, NEW c \in Cores, NEW k \in Keys, NEW v \in Values,
         Store!SetAlloc(c, k, v)
  PROVE  ItemInv'
<1>1. PICK h \in Store!NewSegments(c, FALSE) :
         /\ Store!Allocate(c, h, k, v)
         /\ core' = [core EXCEPT ![c] = [step |-> "put", it |-> Store!NextItem(c, h)]]
  BY DEF Store!SetAlloc
<1>2. PICK n : n = Store!NextItem(c, h)
  OBVIOUS
<1>3. n \in Store!Items
  BY <1>1, <1>2, AllocateRight DEF Unused
<1>4. PICK u : u = [step |-> "put", it |-> n]
  OBVIOUS
<1>5. core[c] = Store!Idle
  BY DEF Store!SetAlloc
<1>6. u \in CoreStates /\ HeldOf(u) = <<n>> /\ HeldOf(core[c]) = <<>>
  BY <1>3, <1>4, <1>5, CoreMoves, Zenon
<1>7. HeldOf(u) = Append(HeldOf(core[c]), n) /\ Len(HeldOf(u)) <= 2
  BY <1>6
<1>8. u.step = "put" /\ FreshOf(u) = n
  BY <1>4 DEF FreshOf
<1>9. Holding(c, n, u)
  BY <1>1, <1>2, <1>4 DEF Holding, Store!SetAlloc, Store!cleanVars
<1>10. u.step # "release" /\ u.step # "cas"
  BY <1>8
<1> QED
  BY <1>1, <1>2, <1>6, <1>7, <1>8, <1>9, <1>10, AllocationKeeps

\* The cleaner copies an item to a new one.
LEMMA CleanCopyKeeps ==
  ASSUME Store!StoreAssumption, ItemInv, NEW c \in Cores, Store!CleanCopy(c)
  PROVE  ItemInv'
<1>1. core[c].step = "clean"
  BY DEF Store!CleanCopy
<1>2. PICK m \in Store!Items : m = core[c].it
  BY <1>1, CoreIs DEF ItemInv
<1>3. PICK h \in Store!NewSegments(c, TRUE) :
         /\ Store!Allocate(c, h, item[m].key, item[m].val)
         /\ core' = [core EXCEPT ![c] = [step |-> "cas", it |-> m, nit |-> Store!NextItem(c, h)]]
  BY <1>2 DEF Store!CleanCopy
<1>4. HeldBy[c] = <<m>>
  BY <1>1, <1>2, HeldIs DEF HeldOf
<1>5. item[m].ref > 0
  <2>1. PICK q : q = HeldBy[c]
    OBVIOUS
  <2>2. 1 \in 1 .. Len(q) /\ q[1] = m
    BY <1>4, <2>1
  <2> QED
    BY <2>1, <2>2, UsedCounts DEF ItemInv, Store!ItemsSafe
<1>6. PICK k \in Keys, v \in Values : k = item[m].key /\ v = item[m].val
  BY <1>5 DEF ItemInv, Contents
<1>7. PICK n : n = Store!NextItem(c, h)
  OBVIOUS
<1>8. n \in Store!Items
  BY <1>3, <1>6, <1>7, AllocateRight DEF Unused
<1>9. PICK u : u = [step |-> "cas", it |-> m, nit |-> n]
  OBVIOUS
<1>10. u \in CoreStates /\ HeldOf(u) = <<m, n>> /\ HeldOf(core[c]) = <<m>>
  BY <1>4, <1>8, <1>9, CoreMoves, HeldIs, Zenon
<1>11. HeldOf(u) = Append(HeldOf(core[c]), n) /\ Len(HeldOf(u)) <= 2
  BY <1>10
<1>12. u.step = "cas" /\ u.it = m /\ u.nit = n
  BY <1>9
<1>13. FreshOf(u) = n /\ u.step # "release"
  BY <1>12 DEF FreshOf
<1>14. Holding(c, n, u)
  BY <1>3, <1>7, <1>9 DEF Holding, Store!CleanCopy, Store!cleanVars
<1> QED
  BY <1>3, <1>5, <1>6, <1>7, <1>10, <1>11, <1>12, <1>13, <1>14, AllocationKeeps

(***************************************************************************)
(* Steps that give up a reference.                                         *)
(***************************************************************************)

\* The count of an item without one reference.
LEMMA DroppedIs ==
  ASSUME item \in [Store!Items -> Entries], NEW n \in Store!Items, item[n].ref > 0
  PROVE  /\ Store!Dropped(n) \in Entries /\ Store!Dropped(n).ref = item[n].ref - 1
         /\ Store!Dropped(n).ref > 0 => /\ Store!Dropped(n).key = item[n].key
                                              /\ Store!Dropped(n).val = item[n].val
<1>1. PICK a \in Entries : a = item[n]
  OBVIOUS
<1>2. a.ref \in Nat /\ a.ref > 0
  BY <1>1 DEF Entries
<1>3. CASE a.ref = 1
  BY <1>1, <1>2, <1>3 DEF Store!Dropped, Store!NoItem, Entries
<1>4. CASE a.ref # 1
  <2>1. PICK b : b = Store!Dropped(n)
    OBVIOUS
  <2>2. b = [a EXCEPT !.ref = a.ref - 1]
    BY <1>1, <1>4, <2>1 DEF Store!Dropped
  <2>3. a.ref - 1 \in Nat
    BY <1>2
  <2>4. b \in Entries /\ b.ref = a.ref - 1 /\ b.key = a.key /\ b.val = a.val
    BY <2>2, <2>3 DEF Entries
  <2> QED
    BY <1>1, <2>1, <2>4
<1> QED
  BY <1>3, <1>4

\* item_unref gives up one reference and touches no other item.
LEMMA UnrefDrops ==
  ASSUME item \in [Store!Items -> Entries], NEW n \in Store!Items, item[n].ref > 0, Store!Unref(n)
  PROVE  /\ Dropping(n) /\ SameContents(None)
         /\ \A i \in Store!Items : item'[i].ref - item[i].ref = IF i = n THEN -1 ELSE 0
<1>1. item' = [item EXCEPT ![n] = Store!Dropped(n)]
  BY DEF Store!Unref
<1>2. PICK e \in Entries : /\ e = Store!Dropped(n) /\ e.ref = item[n].ref - 1
                           /\ e.ref > 0 => e.key = item[n].key /\ e.val = item[n].val
  BY DroppedIs
<1>3. /\ item' \in [Store!Items -> Entries] /\ item'[n] = e
      /\ \A i \in Store!Items \ {n} : item'[i] = item[i]
  BY <1>1, <1>2
<1>4. \A i \in Store!Items : item[i].ref \in Nat
  BY DEF Entries
<1>5. Dropping(n)
  <2>1. /\ item'[n].ref = item[n].ref - 1
        /\ \A i \in Store!Items \ {n} : (item'[i].ref > 0) = (item[i].ref > 0)
    BY <1>2, <1>3
  <2> QED
    BY <1>3, <2>1 DEF Dropping, Store!Unref
<1>6. SameContents(None)
  BY <1>2, <1>3 DEF SameContents
<1> QED
  BY <1>2, <1>3, <1>4, <1>5, <1>6

\* What the steps have in common that give up the first reference of a core.
LEMMA GivingUpKeeps ==
  ASSUME Store!StoreAssumption, ItemInv, NEW c \in Cores, NEW n, NEW u \in CoreStates,
         Holding(c, n, u), Store!Unref(n), HeldOf(core[c]) # <<>>, n = Head(HeldOf(core[c])),
         HeldOf(u) = Tail(HeldOf(core[c])), FreshOf(u) = None, u.step # "cas",
         u.step = "release" => u.items # <<>>, log' = log, reserved' = reserved,
         free_segments' = free_segments
  PROVE  ItemInv'
<1>1. ItemTypes /\ Users /\ Laid
  BY InvUsers, InvLaid DEF ItemInv
<1>2. /\ core' = [core EXCEPT ![c] = u] /\ cq' = cq /\ cleaning' = cleaning
      /\ clean_offset' = clean_offset /\ table' = table /\ maint' = maint
  BY DEF Holding
<1>3. PICK q \in Seq(Store!Items) : q = HeldBy[c] /\ q = HeldOf(core[c])
  BY <1>1, HeldIs DEF Users, Queues
<1>4. n \in Store!Items /\ 1 \in 1 .. Len(q) /\ q[1] = n
  BY <1>3, Shortened
<1>5. item[n].ref > 0
  BY <1>3, <1>4, UsedCounts DEF ItemInv, Store!ItemsSafe
<1>6. /\ Dropping(n) /\ SameContents(None) /\ item' \in [Store!Items -> Entries]
      /\ \A i \in Store!Items : item'[i].ref - item[i].ref = IF i = n THEN -1 ELSE 0
  BY <1>1, <1>4, <1>5, UnrefDrops DEF Users, Dropping
<1>7. Laid' /\ LogsGrow /\ NotReset
  BY <1>1, <1>4, <1>5, <1>6, DroppingKeeps
<1>8. Queues(HeldBy', 2) /\ Popped(HeldBy, HeldBy', c)
  BY <1>1, <1>2, HoldsLess
<1>9. core' \in [Cores -> CoreStates] /\ core'[c] = u /\ \A d \in Cores \ {c} : core'[d] = core[d]
  BY <1>1, <1>2, OneCore DEF Users
<1>10. Users'
  <2>1. \A d \in Cores : core'[d].step = "release" => core'[d].items # <<>>
    BY <1>1, <1>9 DEF Users
  <2> QED
    BY <1>1, <1>2, <1>6, <1>8, <1>9, <2>1 DEF Users
<1>11. Store!Counted'
  <2>1. ASSUME NEW i \in Store!Items
        PROVE  Refs(table', cq', HeldBy', i) - Refs(table, cq, HeldBy, i)
                          = item'[i].ref - item[i].ref
    <3>1. Store!Uses(HeldBy, 2, i) = Store!Uses(HeldBy', 2, i) + (IF n = i THEN 1 ELSE 0)
      <4>1. PICK Q, R : Q = HeldBy /\ R = HeldBy'
        OBVIOUS
      <4>2. Queues(Q, 2) /\ Queues(R, 2) /\ Popped(Q, R, c) /\ 2 \in Nat /\ Head(Q[c]) = n
        BY <1>1, <1>3, <1>8, <4>1 DEF Users
      <4>3. Store!Uses(Q, 2, i) = Store!Uses(R, 2, i) + (IF n = i THEN 1 ELSE 0)
        BY <4>2, UsesPopped
      <4> QED
        BY <4>1, <4>3
    <3>2. /\ StoredAs(table, i) \in Nat /\ Store!Uses(cq, CqSize, i) \in Nat
          /\ Store!Uses(HeldBy', 2, i) \in Nat
      BY RefsNat
    <3>3. Refs(table', cq', HeldBy', i) - Refs(table, cq, HeldBy, i) = IF i = n THEN -1 ELSE 0
      BY <1>2, <3>1, <3>2 DEF Refs
    <3> QED
      BY <1>6, <3>3
  <2> QED
    BY <1>6, <2>1, CountsMove
<1>12. Store!Queued' /\ ScanRight'
  BY <1>2, <1>7, <1>10, NotCleaning
<1>13. FreshRight'
  <2>1. \A d \in Cores : FreshOf(core'[d]) \in {None, FreshOf(core[d])}
    BY <1>9
  <2> QED
    BY <1>2, <2>1, FreshKept
<1>14. Contents' /\ Store!Stored'
  <2>1. \A d \in Cores : core'[d].step = "cas" => core'[d] = core[d]
    BY <1>9
  <2> QED
    BY <1>2, <1>6, <1>10, <1>11, <2>1, ContentsKept
<1> QED
  BY <1>7, <1>10, <1>11, <1>12, <1>13, <1>14, Assembled

\* What is left of one reference, and of several.
LEMMA LastOne ==
  ASSUME NEW n, NEW q \in Seq(Store!Items), q # <<>>
  PROVE  /\ <<n>> # <<>> /\ Head(<<n>>) = n /\ Tail(<<n>>) = <<>>
         /\ Len(q) = 1 => Tail(q) = <<>>
         /\ Len(q) # 1 => Tail(q) # <<>>
<1>1. /\ <<n>> # <<>> /\ Head(<<n>>) = n /\ Tail(<<n>>) = <<>>
  OBVIOUS
<1>2. PICK l \in Nat : l = Len(q) /\ 1 <= l
  BY Shortened
<1>3. PICK r \in Seq(Store!Items) : r = Tail(q) /\ Len(r) = l - 1
  BY <1>2, Shortened
<1>4. l = 1 => r = <<>>
  BY <1>2, <1>3
<1>5. l # 1 => r # <<>>
  BY <1>2, <1>3
<1> QED
  BY <1>1, <1>2, <1>3, <1>4, <1>5

\* An idle core holds nothing.
LEMMA IdleIs ==
  /\ Store!Idle \in CoreStates /\ HeldOf(Store!Idle) = <<>> /\ FreshOf(Store!Idle) = None
  /\ Store!Idle.step = "idle"
BY DEF CoreStates, HeldOf, FreshOf, Store!Idle

\* A GET that has copied its item gives it up, and so does the cleaner an item
\* that is dead.
LEMMA GetCopyKeeps ==
  ASSUME Store!StoreAssumption, ItemInv, NEW c \in Cores, Store!GetCopy(c) \/ Store!CleanDead(c)
  PROVE  ItemInv'
<1>1. core[c].step \in {"copy", "clean"}
  BY DEF Store!GetCopy, Store!CleanDead
<1>2. PICK n \in Store!Items : n = core[c].it
  BY <1>1, CoreIs DEF ItemInv
<1>3. HeldOf(core[c]) = <<n>>
  BY <1>1, <1>2 DEF HeldOf
<1>4. PICK q : q = <<n>>
  OBVIOUS
<1>5. q # <<>> /\ Head(q) = n /\ Tail(q) = <<>>
  BY <1>4
<1>6. Store!Unref(n) /\ Holding(c, n, Store!Idle)
  BY <1>2 DEF Store!GetCopy, Store!CleanDead, Holding, Store!cleanVars
<1>7. log' = log /\ reserved' = reserved /\ free_segments' = free_segments
  BY DEF Store!GetCopy, Store!CleanDead, Store!logVars
<1> QED
  BY <1>3, <1>4, <1>5, <1>6, <1>7, IdleIs, GivingUpKeeps

\* A core gives up the references it has on its list.
LEMMA ReleaseKeeps ==
  ASSUME Store!StoreAssumption, ItemInv, NEW c \in Cores, Store!Release(c)
  PROVE  ItemInv'
<1>1. core[c].step = "release"
  BY DEF Store!Release
<1>2. PICK q \in Seq(Store!Items) : q = core[c].items /\ q # <<>>
  BY <1>1, CoreIs DEF ItemInv
<1>3. HeldOf(core[c]) = q
  BY <1>1, <1>2 DEF HeldOf
<1>4. PICK u : u = IF Len(q) = 1 THEN Store!Idle ELSE [step |-> "release", items |-> Tail(q)]
  OBVIOUS
<1>5. Tail(q) \in Seq(Store!Items) /\ Head(q) \in Store!Items
  BY <1>2, Shortened
<1>6. /\ u \in CoreStates /\ HeldOf(u) = Tail(q) /\ FreshOf(u) = None /\ u.step # "cas"
      /\ u.step = "release" => u.items # <<>>
  <2>1. CASE Len(q) = 1
    BY <1>2, <1>4, <2>1, LastOne, IdleIs
  <2>2. CASE Len(q) # 1
    <3>1. u = [step |-> "release", items |-> Tail(q)]
      BY <1>4, <2>2
    <3>2. u.step = "release" /\ u.items = Tail(q)
      BY <3>1
    <3>3. Tail(q) # <<>>
      BY <1>2, <2>2, LastOne
    <3>4. u \in CoreStates /\ HeldOf(u) = Tail(q)
      BY <1>5, <3>1, ReleaseMoves
    <3> QED
      BY <3>2, <3>3, <3>4 DEF FreshOf
  <2> QED
    BY <2>1, <2>2
<1>7. Store!Unref(Head(q)) /\ Holding(c, Head(q), u)
  BY <1>2, <1>4 DEF Store!Release, Holding, Store!cleanVars
<1>8. log' = log /\ reserved' = reserved /\ free_segments' = free_segments
  BY DEF Store!Release, Store!logVars
<1> QED
  BY <1>2, <1>3, <1>6, <1>7, <1>8, GivingUpKeeps

(***************************************************************************)
(* Steps that take a reference.                                            *)
(***************************************************************************)

\* The count of an item with one reference more.
LEMMA Raised ==
  ASSUME item \in [Store!Items -> Entries], NEW n \in Store!Items, item[n].ref > 0,
         item' = [item EXCEPT ![n].ref = @ + 1]
  PROVE  /\ item' \in [Store!Items -> Entries] /\ SameContents(None)
         /\ \A i \in Store!Items : /\ (item'[i].ref > 0) = (item[i].ref > 0)
                                   /\ item'[i].ref - item[i].ref = IF i = n THEN 1 ELSE 0
<1>1. PICK a \in Entries : a = item[n]
  OBVIOUS
<1>2. PICK b : b = item'[n]
  OBVIOUS
<1>3. a.ref \in Nat /\ a.ref > 0 /\ b = [a EXCEPT !.ref = a.ref + 1]
  BY <1>1, <1>2 DEF Entries
<1>4. b \in Entries /\ b.ref = a.ref + 1 /\ b.key = a.key /\ b.val = a.val
  BY <1>3 DEF Entries
<1>5. \A i \in Store!Items \ {n} : item'[i] = item[i]
  OBVIOUS
<1>6. item' \in [Store!Items -> Entries]
  <2>1. item' = [i \in Store!Items |-> item'[i]]
    OBVIOUS
  <2>2. \A i \in Store!Items : item'[i] \in Entries
    BY <1>2, <1>4, <1>5
  <2> QED
    BY <2>1, <2>2
<1>7. \A i \in Store!Items : item[i].ref \in Nat
  BY DEF Entries
<1>8. SameContents(None)
  BY <1>1, <1>2, <1>3, <1>4, <1>5 DEF SameContents
<1>9. ASSUME NEW i \in Store!Items
      PROVE  /\ (item'[i].ref > 0) = (item[i].ref > 0)
             /\ item'[i].ref - item[i].ref = IF i = n THEN 1 ELSE 0
  <2>1. CASE i = n
    BY <1>1, <1>2, <1>3, <1>4, <2>1
  <2>2. CASE i # n
    BY <1>5, <1>7, <2>2
  <2> QED
    BY <2>1, <2>2
<1> QED
  BY <1>6, <1>8, <1>9

\* A GET takes a reference to the item of its key.
LEMMA GetKeeps ==
  ASSUME Store!StoreAssumption, ItemInv, NEW c \in Cores, NEW k \in Keys, Store!Get(c, k)
  PROVE  ItemInv'
<1>1. ItemTypes /\ Users /\ Laid
  BY InvUsers, InvLaid DEF ItemInv
<1>2. PICK n \in Store!Items : n = table[k] /\ item[n].ref > 0
  BY UsedCounts DEF ItemInv, Store!ItemsSafe, Store!Get
<1>3. PICK u : u = [step |-> "copy", it |-> n]
  OBVIOUS
<1>4. /\ item' = [item EXCEPT ![n].ref = @ + 1] /\ core' = [core EXCEPT ![c] = u]
      /\ core[c] = Store!Idle
      /\ seg' = seg /\ log' = log /\ reserved' = reserved /\ free_segments' = free_segments
      /\ cq' = cq /\ cleaning' = cleaning /\ clean_offset' = clean_offset
      /\ table' = table /\ maint' = maint
  BY <1>2, <1>3 DEF Store!Get, Store!logVars, Store!cleanVars
<1>5. /\ u \in CoreStates /\ HeldOf(u) = <<n>> /\ HeldOf(core[c]) = <<>>
      /\ u.step = "copy" /\ FreshOf(u) = None
  <2>1. u.step = "copy"
    BY <1>3
  <2> QED
    BY <1>3, <1>4, <2>1, CoreMoves, IdleIs DEF FreshOf
<1>6. HeldOf(u) = Append(HeldOf(core[c]), n) /\ Len(HeldOf(u)) <= 2
  BY <1>5
<1>7. /\ item' \in [Store!Items -> Entries] /\ SameContents(None)
      /\ \A i \in Store!Items : /\ (item'[i].ref > 0) = (item[i].ref > 0)
                                /\ item'[i].ref - item[i].ref = IF i = n THEN 1 ELSE 0
  BY <1>1, <1>2, <1>4, Raised DEF Users
<1>8. Laid' /\ LogsGrow /\ NotReset
  BY <1>1, <1>4, <1>7, CountingKeeps
<1>9. Queues(HeldBy', 2) /\ Pushed(HeldBy, HeldBy', c, n)
  BY <1>1, <1>4, <1>5, <1>6, HoldsMore
<1>10. core' \in [Cores -> CoreStates] /\ core'[c] = u /\ \A d \in Cores \ {c} : core'[d] = core[d]
  BY <1>1, <1>4, <1>5, OneCore DEF Users
<1>11. Users'
  <2>1. \A d \in Cores : core'[d].step = "release" => core'[d].items # <<>>
    BY <1>1, <1>5, <1>10 DEF Users
  <2> QED
    BY <1>1, <1>4, <1>7, <1>9, <1>10, <2>1 DEF Users
<1>12. Store!Counted'
  <2>1. ASSUME NEW i \in Store!Items
        PROVE  Refs(table', cq', HeldBy', i) - Refs(table, cq, HeldBy, i)
                          = item'[i].ref - item[i].ref
    <3>1. Store!Uses(HeldBy', 2, i) = Store!Uses(HeldBy, 2, i) + (IF n = i THEN 1 ELSE 0)
      <4>1. PICK Q, R : Q = HeldBy /\ R = HeldBy'
        OBVIOUS
      <4>2. Queues(Q, 2) /\ Queues(R, 2) /\ Pushed(Q, R, c, n) /\ 2 \in Nat
        BY <1>1, <1>9, <4>1 DEF Users
      <4>3. Store!Uses(R, 2, i) = Store!Uses(Q, 2, i) + (IF n = i THEN 1 ELSE 0)
        <5>1. Pushing(Q, R, 2, c, n)
          BY <4>2 DEF Pushing
        <5> QED
          BY <5>1, UsesMore
      <4> QED
        BY <4>1, <4>3
    <3>2. /\ StoredAs(table, i) \in Nat /\ Store!Uses(cq, CqSize, i) \in Nat
          /\ Store!Uses(HeldBy, 2, i) \in Nat
      BY RefsNat
    <3>3. Refs(table', cq', HeldBy', i) - Refs(table, cq, HeldBy, i) = IF i = n THEN 1 ELSE 0
      BY <1>4, <3>1, <3>2 DEF Refs
    <3> QED
      BY <1>7, <3>3
  <2> QED
    BY <1>7, <2>1, CountsMove
<1>13. Store!Queued' /\ ScanRight'
  BY <1>4, <1>8, <1>11, NotCleaning
<1>14. FreshRight'
  <2>1. \A d \in Cores : FreshOf(core'[d]) \in {None, FreshOf(core[d])}
    BY <1>5, <1>10
  <2> QED
    BY <1>4, <2>1, FreshKept
<1>15. Contents' /\ Store!Stored'
  <2>1. \A d \in Cores : core'[d].step = "cas" => core'[d] = core[d]
    BY <1>5, <1>10
  <2> QED
    BY <1>4, <1>7, <1>11, <1>12, <2>1, ContentsKept
<1> QED
  BY <1>8, <1>11, <1>12, <1>13, <1>14, <1>15, Assembled

(***************************************************************************)
(* Steps that put an item in the table.                                    *)
(***************************************************************************)

\* The table refers to the new item of a key and no longer to the old one.
LEMMA Replaced ==
  ASSUME Store!StoreAssumption, item \in [Store!Items -> Entries], table \in [Keys -> Store!Items \cup {None}],
         NEW k \in Keys, NEW i \in Store!Items, item[i].ref > 0, table[k] # i,
         table[k] # None => item[table[k]].ref > 0, Store!Replace(k, i)
  PROVE  /\ table' \in [Keys -> Store!Items \cup {None}] /\ table'[k] = i
         /\ \A j \in Keys \ {k} : table'[j] = table[j]
         /\ item' \in [Store!Items -> Entries] /\ SameContents(None)
         /\ \A j \in Store!Items : item'[j].ref - item[j].ref =
               IF j = i THEN 1 ELSE IF j = table[k] THEN -1 ELSE 0
         /\ table[k] # None => Dropping(table[k])
         /\ table[k] = None => /\ seg' = seg
                               /\ \A j \in Store!Items : (item'[j].ref > 0) = (item[j].ref > 0)
<1>1. /\ table' = [table EXCEPT ![k] = i]
      /\ item' = [j \in Store!Items |-> IF j = i THEN [item[j] EXCEPT !.ref = @ + 1]
                                  ELSE IF j = table[k] THEN Store!Dropped(j) ELSE item[j]]
      /\ seg' = IF table[k] # None /\ item[table[k]].ref = 1
                THEN [seg EXCEPT ![table[k][1]].freed = @ + ItemSize] ELSE seg
  BY DEF Store!Replace, Store!Items
<1>2. /\ table' \in [Keys -> Store!Items \cup {None}] /\ table'[k] = i
      /\ \A j \in Keys \ {k} : table'[j] = table[j]
  BY <1>1
<1>3. PICK o \in Store!Items \cup {None} : o = table[k]
  OBVIOUS
<1>4. PICK a, b : a \in Entries /\ a = item[i] /\ b = item'[i]
  OBVIOUS
<1>5. a.ref \in Nat /\ a.ref > 0 /\ b = [a EXCEPT !.ref = a.ref + 1]
  BY <1>1, <1>4 DEF Entries
<1>6. b \in Entries /\ b.ref = a.ref + 1 /\ b.key = a.key /\ b.val = a.val
  <2>1. /\ a.ref + 1 \in Nat /\ a.key \in Keys \cup {None} /\ a.val \in Values \cup {None}
        /\ a = [ref |-> a.ref, key |-> a.key, val |-> a.val]
    BY <1>4, <1>5 DEF Entries
  <2>2. b = [ref |-> a.ref + 1, key |-> a.key, val |-> a.val]
    BY <1>5, <2>1
  <2> QED
    BY <2>1, <2>2 DEF Entries
<1>7. \A j \in Store!Items : j # i /\ j # o => item'[j] = item[j]
  BY <1>1, <1>3
<1>8. \A j \in Store!Items : j = o => item'[j] = Store!Dropped(j)
  BY <1>1, <1>3
<1>9. \A j \in Store!Items : j = o => /\ item'[j] \in Entries /\ item'[j].ref = item[j].ref - 1
                                      /\ item'[j].ref > 0 => /\ item'[j].key = item[j].key
                                                             /\ item'[j].val = item[j].val
  <2>1. ASSUME NEW j \in Store!Items, j = o
        PROVE  /\ Store!Dropped(j) \in Entries /\ Store!Dropped(j).ref = item[j].ref - 1
               /\ Store!Dropped(j).ref > 0 => /\ Store!Dropped(j).key = item[j].key
                                                    /\ Store!Dropped(j).val = item[j].val
    <3>1. item[j].ref > 0
      BY <1>3, <2>1, Sizes
    <3> QED
      BY <3>1, DroppedIs
  <2> QED
    BY <1>8, <2>1
<1>10. item' \in [Store!Items -> Entries]
  <2>1. item' = [j \in Store!Items |-> item'[j]]
    BY <1>1
  <2>2. \A j \in Store!Items : item'[j] \in Entries
    BY <1>4, <1>6, <1>7, <1>9
  <2> QED
    BY <2>1, <2>2
<1>11. \A j \in Store!Items : item[j].ref \in Nat
  BY DEF Entries
<1>12. SameContents(None)
  <2>1. ASSUME NEW j \in Store!Items, item'[j].ref > 0
        PROVE  item[j].ref > 0 /\ item'[j].key = item[j].key /\ item'[j].val = item[j].val
    <3>1. CASE j = i
      BY <1>4, <1>5, <1>6, <3>1
    <3>2. CASE j # i /\ j = o
      <4>1. item[j].ref > 0
        BY <1>3, <3>2, Sizes
      <4> QED
        BY <1>9, <2>1, <3>2, <4>1
    <3>3. CASE j # i /\ j # o
      BY <1>7, <2>1, <3>3
    <3> QED
      BY <3>1, <3>2, <3>3
  <2> QED
    BY <2>1 DEF SameContents
<1>13. ASSUME NEW j \in Store!Items
       PROVE  item'[j].ref - item[j].ref = IF j = i THEN 1 ELSE IF j = o THEN -1 ELSE 0
  <2>1. CASE j = i
    <3>1. item'[j].ref = item[j].ref + 1 /\ item[j].ref \in Nat
      BY <1>4, <1>5, <1>6, <2>1
    <3> QED
      BY <2>1, <3>1
  <2>2. CASE j # i /\ j = o
    BY <1>9, <1>11, <2>2
  <2>3. CASE j # i /\ j # o
    BY <1>7, <1>11, <2>3
  <2> QED
    BY <2>1, <2>2, <2>3
<1>14. \A j \in Store!Items : j # o => (item'[j].ref > 0) = (item[j].ref > 0)
  <2>1. (item'[i].ref > 0) = (item[i].ref > 0)
    BY <1>4, <1>5, <1>6
  <2> QED
    BY <1>7, <2>1
<1>15. ASSUME o # None PROVE Dropping(o)
  <2>1. o \in Store!Items /\ item'[o].ref = item[o].ref - 1
    BY <1>9, <1>15
  <2>2. seg' = IF item[o].ref = 1 THEN [seg EXCEPT ![o[1]].freed = @ + ItemSize] ELSE seg
    BY <1>1, <1>3, <1>15
  <2> QED
    BY <1>10, <1>14, <2>1, <2>2 DEF Dropping
<1>16. ASSUME o = None
       PROVE  seg' = seg /\ \A j \in Store!Items : (item'[j].ref > 0) = (item[j].ref > 0)
  BY <1>1, <1>3, <1>14, <1>16, Sizes
<1> QED
  BY <1>2, <1>3, <1>10, <1>12, <1>13, <1>15, <1>16

\* Neither the cleaning nor the maintenance goes on.
Keeping == cq' = cq /\ cleaning' = cleaning /\ clean_offset' = clean_offset /\ maint' = maint

\* What SET and cleaner have in common when they put their item in the table.
LEMMA ReplacingKeeps ==
  ASSUME Store!StoreAssumption, ItemInv, NEW c \in Cores, NEW k, NEW i \in Store!Items, NEW u \in CoreStates,
         item[i].ref > 0, k = item[i].key, FreshOf(core[c]) = i, Store!Replace(k, i),
         core' = [core EXCEPT ![c] = u], Keeping, u.step = "release", u.items # <<>>, Queues(HeldBy', 2),
         \A j \in Store!Items : Store!Uses(HeldBy', 2, j) = Store!Uses(HeldBy, 2, j),
         log' = log, reserved' = reserved, free_segments' = free_segments
  PROVE  ItemInv'
<1>1. ItemTypes /\ Users /\ Laid
  BY InvUsers, InvLaid DEF ItemInv
<1>2. k \in Keys
  BY DEF ItemInv, Contents
<1>3. /\ core' = [core EXCEPT ![c] = u] /\ cq' = cq /\ cleaning' = cleaning
      /\ clean_offset' = clean_offset /\ maint' = maint
  BY DEF Keeping
<1>4. i # None
  BY Sizes
<1>5. /\ \A j \in Keys : table[j] # i
      /\ \A d \in Cores \ {c} : FreshOf(core[d]) # i
  BY <1>4, FreshIs DEF ItemInv, FreshRight
<1>6. table[k] # None => table[k] \in Store!Items /\ item[table[k]].ref > 0
  BY <1>2, UsedCounts DEF ItemInv, Store!ItemsSafe
<1>7. /\ table' \in [Keys -> Store!Items \cup {None}] /\ table'[k] = i
      /\ \A j \in Keys \ {k} : table'[j] = table[j]
      /\ item' \in [Store!Items -> Entries] /\ SameContents(None)
      /\ \A j \in Store!Items : item'[j].ref - item[j].ref =
            IF j = i THEN 1 ELSE IF j = table[k] THEN -1 ELSE 0
      /\ table[k] # None => Dropping(table[k])
      /\ table[k] = None => /\ seg' = seg
                            /\ \A j \in Store!Items : (item'[j].ref > 0) = (item[j].ref > 0)
  BY <1>1, <1>2, <1>5, <1>6, Replaced DEF Users
<1>8. Laid' /\ LogsGrow /\ NotReset
  <2>1. CASE table[k] = None
    BY <1>1, <1>7, <2>1, CountingKeeps
  <2>2. CASE table[k] # None
    BY <1>1, <1>6, <1>7, <2>2, DroppingKeeps
  <2> QED
    BY <2>1, <2>2
<1>9. core' \in [Cores -> CoreStates] /\ core'[c] = u /\ \A d \in Cores \ {c} : core'[d] = core[d]
  BY <1>1, <1>3, OneCore DEF Users
<1>10. Users'
  <2>1. \A d \in Cores : core'[d].step = "release" => core'[d].items # <<>>
    BY <1>1, <1>9 DEF Users
  <2> QED
    BY <1>1, <1>3, <1>7, <1>9, <2>1 DEF Users
<1>11. Store!Counted'
  <2>1. ASSUME NEW j \in Store!Items
        PROVE  Refs(table', cq', HeldBy', j) - Refs(table, cq, HeldBy, j)
                          = item'[j].ref - item[j].ref
    <3>1. StoredAs(table', j) = IF j = i THEN StoredAs(table, j) + 1
                                ELSE IF j = table[k] THEN StoredAs(table, j) - 1
                                ELSE StoredAs(table, j)
      <4>1. PICK t, r : t = table /\ r = table'
        OBVIOUS
      <4>2. t[k] # i /\ r[k] = i /\ \A x \in Keys \ {k} : r[x] = t[x]
        BY <1>2, <1>5, <1>7, <4>1
      <4>3. StoredAs(r, j) = IF j = i THEN StoredAs(t, j) + 1
                             ELSE IF j = t[k] THEN StoredAs(t, j) - 1 ELSE StoredAs(t, j)
        <5>1. Replacing(t, r, k, i)
          BY <1>2, <4>2 DEF Replacing
        <5> QED
          BY <5>1, StoredInstead
      <4> QED
        BY <4>1, <4>3
    <3>2. /\ StoredAs(table, j) \in Nat /\ Store!Uses(cq, CqSize, j) \in Nat
          /\ Store!Uses(HeldBy, 2, j) \in Nat
      BY RefsNat
    <3>3. Refs(table', cq', HeldBy', j) - Refs(table, cq, HeldBy, j)
          = IF j = i THEN 1 ELSE IF j = table[k] THEN -1 ELSE 0
      <4>1. PICK a \in Nat, b \in Int : a = StoredAs(table, j) /\ b = StoredAs(table', j)
        BY <3>1, <3>2
      <4>2. b - a = IF j = i THEN 1 ELSE IF j = table[k] THEN -1 ELSE 0
        BY <3>1, <4>1
      <4>3. Store!Uses(cq', CqSize, j) = Store!Uses(cq, CqSize, j)
        BY <1>3
      <4>4. Refs(table', cq', HeldBy', j) - Refs(table, cq, HeldBy, j) = b - a
        BY <3>2, <4>1, <4>3 DEF Refs
      <4> QED
        BY <4>2, <4>4
    <3> QED
      BY <1>7, <3>3
  <2> QED
    BY <1>7, <2>1, CountsMove
<1>12. Store!Queued' /\ ScanRight'
  BY <1>3, <1>8, <1>10, NotCleaning
<1>13. FreshOf(u) = None
  BY DEF FreshOf
<1>14. FreshRight'
  <2>1. \A d \in Cores : FreshOf(core'[d]) \in {None, FreshOf(core[d])}
    BY <1>9, <1>13
  <2>2. \A d \in Cores : FreshOf(core'[d]) # None => i # FreshOf(core'[d])
    BY <1>5, <1>9, <1>13
  <2>3. \A j \in Keys : \/ table'[j] = table[j]
                        \/ \A d \in Cores : FreshOf(core'[d]) # None => table'[j] # FreshOf(core'[d])
    BY <1>7, <2>2
  <2> QED
    BY <2>1, <2>3, FreshKept
<1>15. Contents' /\ Store!Stored'
  <2>1. \A d \in Cores : core'[d].step = "cas" => core'[d] = core[d]
    BY <1>9
  <2>2. \A j \in Keys : table'[j] # None => table'[j] = table[j] \/ item[table'[j]].key = j
    BY <1>7
  <2> QED
    BY <1>7, <1>10, <1>11, <2>1, <2>2, ContentsKept
<1> QED
  BY <1>8, <1>10, <1>11, <1>12, <1>14, <1>15, Assembled

\* An item that a core holds is in use.
LEMMA HeldInUse ==
  ASSUME Store!StoreAssumption, ItemInv, NEW c \in Cores, NEW m, NEW i
  PROVE  /\ HeldOf(core[c]) = <<i>> => i \in Store!Items /\ item[i].ref > 0
         /\ HeldOf(core[c]) = <<m, i>> => /\ m \in Store!Items /\ item[m].ref > 0
                                          /\ i \in Store!Items /\ item[i].ref > 0
<1>1. PICK q : q = HeldBy[c] /\ q = HeldOf(core[c])
  BY HeldIs
<1>2. \A n \in 1 .. Len(q) : q[n] \in Store!Items /\ item[q[n]].ref > 0
  BY <1>1, UsedCounts DEF ItemInv, Store!ItemsSafe
<1>3. q = <<i>> => 1 \in 1 .. Len(q) /\ q[1] = i
  OBVIOUS
<1>4. q = <<m, i>> => 1 \in 1 .. Len(q) /\ 2 \in 1 .. Len(q) /\ q[1] = m /\ q[2] = i
  OBVIOUS
<1> QED
  BY <1>1, <1>2, <1>3, <1>4

\* A SET puts its item in the table.
LEMMA SetPutKeeps ==
  ASSUME Store!StoreAssumption, ItemInv, NEW c \in Cores, Store!SetPut(c)
  PROVE  ItemInv'
<1>1. core[c].step = "put"
  BY DEF Store!SetPut
<1>2. PICK i \in Store!Items : i = core[c].it
  BY <1>1, CoreIs DEF ItemInv
<1>3. HeldOf(core[c]) = <<i>> /\ FreshOf(core[c]) = i
  BY <1>1, <1>2 DEF HeldOf, FreshOf
<1>4. item[i].ref > 0
  BY <1>3, HeldInUse
<1>5. PICK q : q = <<i>>
  OBVIOUS
<1>6. q \in Seq(Store!Items) /\ q # <<>>
  BY <1>5
<1>7. PICK u : u = [step |-> "release", items |-> q]
  OBVIOUS
<1>8. u.step = "release" /\ u.items = q
  BY <1>7
<1>9. u \in CoreStates /\ HeldOf(u) = q
  BY <1>6, <1>7, ReleaseMoves
<1>10. /\ Store!Replace(item[i].key, i) /\ core' = [core EXCEPT ![c] = u]
       /\ log' = log /\ reserved' = reserved /\ free_segments' = free_segments
       /\ Keeping
  BY <1>2, <1>5, <1>7 DEF Store!SetPut, Store!logVars, Store!cleanVars, Keeping
<1>11. HeldBy' = HeldBy /\ Queues(HeldBy', 2)
  BY <1>3, <1>5, <1>9, <1>10, HoldsSame DEF ItemInv
<1>12. \A j \in Store!Items : Store!Uses(HeldBy', 2, j) = Store!Uses(HeldBy, 2, j)
  BY <1>11
<1> QED
  BY <1>3, <1>4, <1>6, <1>8, <1>9, <1>10, <1>11, <1>12, ReplacingKeeps

(***************************************************************************)
(* Steps that leave the items alone.                                       *)
(***************************************************************************)

\* A step that changes neither items nor the table nor the references in all
\* keeps the invariant, ...
LEMMA QuietKeeps ==
  ASSUME Store!StoreAssumption, ItemInv, Users', Laid', ScanRight', Store!Queued',
         item' = item, table' = table,
         \A j \in Store!Items : Refs(table', cq', HeldBy', j) = Refs(table, cq, HeldBy, j),
         \A d \in Cores : FreshOf(core'[d]) \in {None, FreshOf(core[d])},
         \A d \in Cores : core'[d].step = "cas" => core'[d] = core[d]
  PROVE  ItemInv'
<1>1. item' \in [Store!Items -> Entries]
  BY DEF Users
<1>2. Store!Counted'
  <2>1. ASSUME NEW j \in Store!Items
        PROVE  Refs(table', cq', HeldBy', j) - Refs(table, cq, HeldBy, j)
                          = item'[j].ref - item[j].ref
    <3>1. Refs(table', cq', HeldBy', j) = Refs(table, cq, HeldBy, j)
      OBVIOUS
    <3>2. Refs(table, cq, HeldBy, j) \in Nat
      BY RefsNat
    <3>3. item'[j].ref = item[j].ref /\ item'[j].ref \in Nat
      BY <1>1 DEF Entries
    <3> QED
      BY <3>1, <3>2, <3>3
  <2> QED
    BY <1>1, <2>1, CountsMove
<1>3. FreshRight'
  BY FreshKept
<1>4. SameContents(None)
  BY DEF SameContents
<1>5. Contents' /\ Store!Stored'
  BY <1>2, <1>4, ContentsKept
<1> QED
  BY <1>2, <1>3, <1>5, Assembled

\* ... of which core c, if any, takes a step without the segments.
LEMMA SameRefs ==
  ASSUME table' = table, cq' = cq,
         \A j \in Store!Items : Store!Uses(HeldBy', 2, j) = Store!Uses(HeldBy, 2, j)
  PROVE  \A j \in Store!Items : Refs(table', cq', HeldBy', j) = Refs(table, cq, HeldBy, j)
BY DEF Refs

\* ... for example one in which a core alone takes a step ...
LEMMA OneCoreMoves ==
  ASSUME Store!StoreAssumption, ItemInv, NEW c \in Cores, NEW u \in CoreStates,
         core' = [core EXCEPT ![c] = u], Keeping, item' = item, seg' = seg, table' = table,
         log' = log, reserved' = reserved, free_segments' = free_segments,
         Queues(HeldBy', 2), u.step # "cas", FreshOf(u) = None,
         u.step = "release" => u.items # <<>>,
         \A j \in Store!Items : Store!Uses(HeldBy', 2, j) = Store!Uses(HeldBy, 2, j)
  PROVE  ItemInv'
<1>1. ItemTypes /\ Users /\ Laid
  BY InvUsers, InvLaid DEF ItemInv
<1>2. cq' = cq /\ cleaning' = cleaning /\ clean_offset' = clean_offset /\ maint' = maint
  BY DEF Keeping
<1>3. Laid' /\ LogsGrow /\ NotReset
  BY <1>1, CountingKeeps
<1>4. core' \in [Cores -> CoreStates] /\ core'[c] = u /\ \A d \in Cores \ {c} : core'[d] = core[d]
  BY <1>1, OneCore DEF Users
<1>5. Users'
  <2>1. \A d \in Cores : core'[d].step = "release" => core'[d].items # <<>>
    BY <1>1, <1>4 DEF Users
  <2> QED
    BY <1>1, <1>2, <1>4, <2>1 DEF Users
<1>6. Store!Queued' /\ ScanRight'
  BY <1>2, <1>3, <1>5, NotCleaning
<1>7. \A d \in Cores : /\ FreshOf(core'[d]) \in {None, FreshOf(core[d])}
                       /\ core'[d].step = "cas" => core'[d] = core[d]
  BY <1>4
<1>8. \A j \in Store!Items : Refs(table', cq', HeldBy', j) = Refs(table, cq, HeldBy, j)
  BY <1>2, SameRefs
<1> QED
  BY <1>3, <1>5, <1>6, <1>7, <1>8, QuietKeeps

\* The cleaner puts the copy in the table if the key still has the original.
LEMMA CleanPutKeeps ==
  ASSUME Store!StoreAssumption, ItemInv, NEW c \in Cores, Store!CleanPut(c)
  PROVE  ItemInv'
<1>1. core[c].step = "cas"
  BY DEF Store!CleanPut
<1>2. PICK m \in Store!Items, i \in Store!Items : m = core[c].it /\ i = core[c].nit
  BY <1>1, CoreIs DEF ItemInv
<1>3. HeldOf(core[c]) = <<m, i>> /\ FreshOf(core[c]) = i
  BY <1>1, <1>2 DEF HeldOf, FreshOf
<1>4. item[i].ref > 0
  BY <1>3, HeldInUse
<1>5. PICK q : q = <<i, m>>
  OBVIOUS
<1>6. q \in Seq(Store!Items) /\ q # <<>>
  BY <1>5
<1>7. PICK u : u = [step |-> "release", items |-> q]
  OBVIOUS
<1>8. u.step = "release" /\ u.items = q
  BY <1>7
<1>9. u \in CoreStates /\ HeldOf(u) = q
  BY <1>6, <1>7, ReleaseMoves
<1>10. /\ core' = [core EXCEPT ![c] = u] /\ Keeping
       /\ log' = log /\ reserved' = reserved /\ free_segments' = free_segments
       /\ \/ Store!Replace(item[i].key, i)
          \/ table' = table /\ item' = item /\ seg' = seg
  BY <1>2, <1>5, <1>7 DEF Store!CleanPut, Store!logVars, Store!cleanVars, Keeping
<1>11. /\ Queues(HeldBy', 2)
       /\ \A j \in Store!Items : Store!Uses(HeldBy', 2, j) = Store!Uses(HeldBy, 2, j)
  BY <1>3, <1>5, <1>9, <1>10, HoldsRotated DEF ItemInv
<1>12. CASE Store!Replace(item[i].key, i)
  BY <1>3, <1>4, <1>6, <1>8, <1>9, <1>10, <1>11, <1>12, ReplacingKeeps
<1>13. CASE table' = table /\ item' = item /\ seg' = seg
  <2>1. FreshOf(u) = None /\ u.step # "cas"
    BY <1>8 DEF FreshOf
  <2> QED
    BY <1>6, <1>8, <1>9, <1>10, <1>11, <1>13, <2>1, OneCoreMoves
<1> QED
  BY <1>10, <1>12, <1>13

\* The cleaner finds no room for a copy.
LEMMA CleanFailsKeeps ==
  ASSUME Store!StoreAssumption, ItemInv, NEW c \in Cores, Store!CleanFails(c)
  PROVE  ItemInv'
<1>1. core[c].step = "clean"
  BY DEF Store!CleanFails
<1>2. PICK m \in Store!Items : m = core[c].it
  BY <1>1, CoreIs DEF ItemInv
<1>3. HeldOf(core[c]) = <<m>>
  BY <1>1, <1>2 DEF HeldOf
<1>4. PICK u : u = [step |-> "abort", it |-> m]
  OBVIOUS
<1>5. u.step = "abort" /\ u \in CoreStates /\ HeldOf(u) = <<m>>
  BY <1>4, CoreMoves
<1>6. /\ core' = [core EXCEPT ![c] = u] /\ Keeping /\ item' = item /\ seg' = seg
      /\ table' = table /\ log' = log /\ reserved' = reserved /\ free_segments' = free_segments
  BY <1>2, <1>4 DEF Store!CleanFails, Store!logVars, Store!cleanVars, Keeping
<1>7. HeldBy' = HeldBy /\ Queues(HeldBy', 2)
  BY <1>3, <1>5, <1>6, HoldsSame DEF ItemInv
<1>8. FreshOf(u) = None /\ u.step # "cas" /\ u.step # "release"
  BY <1>5 DEF FreshOf
<1>9. \A j \in Store!Items : Store!Uses(HeldBy', 2, j) = Store!Uses(HeldBy, 2, j)
  BY <1>7
<1> QED
  BY <1>5, <1>6, <1>7, <1>8, <1>9, OneCoreMoves

\* No core takes a step of its own.
LEMMA CoresStay ==
  ASSUME core' = core
  PROVE  /\ HeldBy' = HeldBy
         /\ \A d \in Cores : FreshOf(core'[d]) \in {None, FreshOf(core[d])}
  BY DEF HeldBy, Store!Held

\* ... or none does.
LEMMA NoCoreMoves ==
  ASSUME Store!StoreAssumption, ItemInv, Users', Laid', ScanRight', Store!Queued',
         item' = item, table' = table, cq' = cq, core' = core
  PROVE  ItemInv'
<1>1. /\ HeldBy' = HeldBy
      /\ \A d \in Cores : FreshOf(core'[d]) \in {None, FreshOf(core[d])}
  BY CoresStay
<1>2. \A j \in Store!Items : Refs(table', cq', HeldBy', j) = Refs(table, cq, HeldBy, j)
  BY <1>1
<1> QED
  BY <1>1, <1>2, QuietKeeps

\* A SET finds no room.
LEMMA SetFailsKeeps ==
  ASSUME Store!StoreAssumption, ItemInv, NEW c \in Cores, Store!SetFails(c)
  PROVE  ItemInv'
<1>1. ItemTypes /\ Users /\ Laid
  BY InvUsers, InvLaid DEF ItemInv
<1>2. PICK s : s = Store!Cur(c)
  OBVIOUS
<1>3. /\ seg' = (IF reserved[c] = None THEN seg ELSE [seg EXCEPT ![s] = Store!Closed(s)])
      /\ item' = item /\ log' = log /\ reserved' = reserved /\ free_segments' = free_segments
      /\ cq' = cq /\ cleaning' = cleaning /\ clean_offset' = clean_offset
      /\ table' = table /\ core' = core /\ maint' = maint
  BY <1>2 DEF Store!SetFails, Store!logVars, Store!cleanVars
<1>4. Laid' /\ LogsGrow /\ NotReset
  <2>1. CASE reserved[c] = None
    BY <1>1, <1>3, <2>1, CountingKeeps
  <2>2. CASE reserved[c] # None
    <3>1. Closing(s)
      BY <1>3, <2>2 DEF Closing
    <3> QED
      BY <1>1, <1>2, <3>1, ClosingKeeps
  <2> QED
    BY <2>1, <2>2
<1>5. HeldBy' = HeldBy
  BY <1>3, CoresStay
<1>6. Users'
  BY <1>1, <1>3, <1>5 DEF Users
<1>7. Store!Queued' /\ ScanRight'
  BY <1>3, <1>4, <1>6, NotCleaning
<1> QED
  BY <1>3, <1>4, <1>6, <1>7, NoCoreMoves

\* A scan reaches the end of its segment.
LEMMA EndScanKeeps ==
  ASSUME Store!StoreAssumption, ItemInv, NEW c \in Cores, Store!EndScan(c)
  PROVE  ItemInv'
<1>1. ItemTypes /\ Users /\ Laid
  BY InvUsers, InvLaid DEF ItemInv
<1>2. /\ seg' = seg /\ item' = item /\ log' = log /\ reserved' = reserved
      /\ free_segments' = free_segments
      /\ cq' = cq /\ cleaning' = cleaning /\ clean_offset' = clean_offset
      /\ table' = table /\ core' = core
      /\ maint' \in [at : Cores, step : {"free", "scan", "done"}]
  BY DEF Store!EndScan, Store!logVars, Store!cleanVars
<1>3. Laid' /\ LogsGrow /\ NotReset
  BY <1>1, <1>2, CountingKeeps
<1>4. HeldBy' = HeldBy
  BY <1>2, CoresStay
<1>5. Users'
  BY <1>1, <1>2, <1>4 DEF Users
<1>6. Store!Queued' /\ ScanRight'
  BY <1>2, <1>3, <1>5, NotCleaning
<1> QED
  BY <1>2, <1>3, <1>5, <1>6, NoCoreMoves

(***************************************************************************)
(* The cleaning and the maintenance.                                       *)
(***************************************************************************)

\* A segment without an item in use is given back.
LEMMA FreeSegmentKeeps ==
  ASSUME Store!StoreAssumption, ItemInv, NEW c \in Cores, Store!FreeSegment(c)
  PROVE  ItemInv'
<1>1. ItemTypes /\ Users /\ Laid
  BY InvUsers, InvLaid DEF ItemInv
<1>2. PICK n \in 1 .. Len(log[c]) - 1 : LET s == log[c][n] IN
         /\ seg[s].freed = SegSize /\ log' = [log EXCEPT ![c] = RemoveAt(@, n)]
         /\ free_segments' = <<s>> \o free_segments /\ seg' = [seg EXCEPT ![s].offset = 0]
  BY DEF Store!FreeSegment, Store!RemoveAt, RemoveAt
<1>3. PICK s : s = log[c][n]
  OBVIOUS
<1>4. /\ item' = item /\ reserved' = reserved
      /\ cq' = cq /\ cleaning' = cleaning /\ clean_offset' = clean_offset
      /\ table' = table /\ core' = core /\ maint' = maint
  BY DEF Store!FreeSegment, Store!cleanVars
<1>5. Freeing(c, n, s) /\ seg[s].freed = SegSize
  BY <1>2, <1>3, <1>4 DEF Freeing
<1>6. /\ Laid' /\ NotReset /\ s \in Segments /\ InUse(s) = {}
      /\ \A t \in Segments : Unfree(t)' <=> Unfree(t) /\ t # s
      /\ \A d \in Cores : \A m \in 1 .. Len(log[d]) : log[d][m] # s =>
            \E j \in 1 .. Len(log'[d]) : log'[d][j] = log[d][m]
  <2>1. Laid' /\ NotReset /\ s \in Segments /\ InUse(s) = {}
    BY <1>1, <1>3, <1>5, FreeingKeeps
  <2>2. \A t \in Segments : Unfree(t)' <=> Unfree(t) /\ t # s
    BY <1>1, <1>3, <1>5, FreeingKeeps
  <2>3. \A d \in Cores : \A m \in 1 .. Len(log[d]) : log[d][m] # s =>
            \E j \in 1 .. Len(log'[d]) : log'[d][j] = log[d][m]
    BY <1>1, <1>3, <1>5, FreeingKeeps
  <2> QED
    BY <2>1, <2>2, <2>3
<1>7. HeldBy' = HeldBy
  BY <1>4, CoresStay
<1>8. Users'
  BY <1>1, <1>4, <1>7 DEF Users
<1>9. Stays
  BY <1>6 DEF Stays
<1>10. ScanRight'
  BY <1>4, <1>6, <1>9, ScanKept
<1>11. Store!Queued'
  <2>1. ASSUME NEW d \in Cores, NEW m \in 1 .. Len(cq'[d])
        PROVE  \E j \in 1 .. Len(log'[d]) : log'[d][j] = cq'[d][m][1]
    <3>1. PICK i \in Store!Items : i = cq[d][m] /\ item[i].ref > 0
      BY <1>1, <1>4, <2>1, UsedCounts DEF ItemInv, Store!ItemsSafe
    <3>2. i[1] # s
      BY <1>6, <3>1 DEF InUse, Store!Live, Store!Items
    <3>3. PICK j \in 1 .. Len(log[d]) : log[d][j] = i[1]
      BY <1>4, <2>1, <3>1, QueuedIs
    <3> QED
      BY <1>4, <1>6, <3>1, <3>2, <3>3
  <2> QED
    BY <1>6, <1>8, <2>1, QueuedNext
<1> QED
  BY <1>4, <1>6, <1>8, <1>10, <1>11, NoCoreMoves

\* A scan goes on only of a segment that is marked.
LEMMA StartScanKeeps ==
  ASSUME Store!StoreAssumption, ItemInv, NEW c \in Cores, Store!StartScan(c),
         \A d \in Cores : ~Store!Recycled(d)
  PROVE  ItemInv'
<1>1. ItemTypes /\ Users /\ Laid
  BY InvUsers, InvLaid DEF ItemInv
<1>2. /\ item' = item /\ log' = log /\ reserved' = reserved /\ free_segments' = free_segments
      /\ cq' = cq /\ table' = table /\ core' = core
      /\ maint' = [at |-> c, step |-> IF cleaning[c] = None THEN "done" ELSE "scan"]
  BY DEF Store!StartScan, Store!logVars
<1>3. \/ cleaning' = cleaning /\ clean_offset' = clean_offset /\ seg' = seg
      \/ /\ clean_offset' = [clean_offset EXCEPT ![c] = 0]
         /\ cleaning' = [cleaning EXCEPT ![c] = None] /\ seg' = seg
      \/ /\ clean_offset' = [clean_offset EXCEPT ![c] = 0]
         /\ \E s \in Store!Candidates(c) : /\ cleaning' = [cleaning EXCEPT ![c] = s]
                                                 /\ seg' = [seg EXCEPT ![s].cleaned = TRUE]
  BY DEF Store!StartScan
<1>4. HeldBy' = HeldBy
  BY <1>2, CoresStay
<1>5. maint' \in [at : Cores, step : {"free", "scan", "done"}]
  BY <1>2
<1>6. \A d \in Cores : clean_offset[d] \in Nat /\ cleaning[d] \in Segments \cup {None}
  BY <1>1 DEF Users
<1>7. ScanRight
  BY DEF ItemInv
<1>8. ASSUME Laid', LogsGrow, ScanRight', cleaning' \in [Cores -> Segments \cup {None}],
             clean_offset' \in [Cores -> Nat]
      PROVE  ItemInv'
  <2>1. Users'
    BY <1>1, <1>2, <1>4, <1>5, <1>8 DEF Users
  <2>2. Store!Queued'
    <3>1. ASSUME NEW d \in Cores, NEW m \in 1 .. Len(cq'[d])
          PROVE  \E j \in 1 .. Len(log'[d]) : log'[d][j] = cq'[d][m][1]
      BY <1>2, <3>1, QueuedIs
    <3> QED
      BY <1>8, <2>1, <3>1, QueuedNext
  <2> QED
    BY <1>2, <1>8, <2>1, <2>2, NoCoreMoves
<1>9. CASE cleaning' = cleaning /\ clean_offset' = clean_offset /\ seg' = seg
  <2>1. Laid' /\ LogsGrow
    BY <1>1, <1>2, <1>9, CountingKeeps
  <2>2. ScanRight'
    BY <1>2, <1>7, <1>9, Zenon DEF ScanRight
  <2> QED
    BY <1>1, <1>8, <1>9, <2>1, <2>2 DEF Users
<1>10. CASE /\ clean_offset' = [clean_offset EXCEPT ![c] = 0]
            /\ cleaning' = [cleaning EXCEPT ![c] = None] /\ seg' = seg
  <2>1. Laid' /\ LogsGrow
    BY <1>1, <1>2, <1>10, CountingKeeps
  <2>2. cleaning \in [Cores -> Segments \cup {None}] /\ clean_offset \in [Cores -> Nat]
    BY <1>1 DEF Users
  <2>3. /\ cleaning' \in [Cores -> Segments \cup {None}] /\ clean_offset' \in [Cores -> Nat]
        /\ cleaning'[c] = None
        /\ \A d \in Cores \ {c} : cleaning'[d] = cleaning[d] /\ clean_offset'[d] = clean_offset[d]
    BY <1>10, <2>2
  <2>4. ScanRight'
    <3>1. ASSUME NEW d \in Cores, cleaning'[d] # None, clean_offset'[d] < SegSize,
                 seg'[cleaning'[d]].cleaned
          PROVE  \/ \E n \in 1 .. Len(log'[d]) : log'[d][n] = cleaning'[d]
                 \/ \E n \in 1 .. Len(free_segments') : free_segments'[n] = cleaning'[d]
      <4>1. /\ cleaning[d] = cleaning'[d] /\ cleaning[d] # None /\ clean_offset[d] < SegSize
            /\ seg[cleaning[d]].cleaned
        BY <1>10, <2>3, <3>1
      <4>2. \/ \E n \in 1 .. Len(log[d]) : log[d][n] = cleaning[d]
            \/ \E n \in 1 .. Len(free_segments) : free_segments[n] = cleaning[d]
        BY <1>7, <4>1, Zenon DEF ScanRight
      <4> QED
        BY <1>2, <4>1, <4>2
    <3> QED
      BY <3>1, Zenon DEF ScanRight
  <2> QED
    BY <1>8, <2>1, <2>3, <2>4
<1>11. ASSUME clean_offset' = [clean_offset EXCEPT ![c] = 0],
              NEW s \in Store!Candidates(c), cleaning' = [cleaning EXCEPT ![c] = s],
              seg' = [seg EXCEPT ![s].cleaned = TRUE]
       PROVE  ItemInv'
  <2>1. PICK n \in 1 .. Len(log[c]) - 1 : log[c][n] = s
    BY <1>11 DEF Store!Candidates
  <2>2. ~seg[s].cleaned
    BY <1>11 DEF Store!Candidates
  <2>3. n \in 1 .. Len(log[c]) /\ s \in Segments
    BY <1>1, <2>1 DEF Laid
  <2>4. \A d \in Cores : reserved[d] # s
    BY <1>1, <2>1, <2>3 DEF Laid, Apart
  <2>5. /\ Laid' /\ LogsGrow /\ seg'[s].cleaned
        /\ \A t \in Segments \ {s} : seg'[t] = seg[t]
    BY <1>1, <1>2, <1>11, <2>3, <2>4, MarkingKeeps
  <2>6. cleaning \in [Cores -> Segments \cup {None}] /\ clean_offset \in [Cores -> Nat]
    BY <1>1 DEF Users
  <2>7. /\ cleaning' \in [Cores -> Segments \cup {None}] /\ clean_offset' \in [Cores -> Nat]
        /\ cleaning'[c] = s
        /\ \A d \in Cores \ {c} : cleaning'[d] = cleaning[d] /\ clean_offset'[d] = clean_offset[d]
    BY <1>11, <2>3, <2>6
  <2>8. ScanRight'
    <3>1. ASSUME NEW d \in Cores, cleaning'[d] # None, clean_offset'[d] < SegSize,
                 seg'[cleaning'[d]].cleaned
          PROVE  \/ \E m \in 1 .. Len(log'[d]) : log'[d][m] = cleaning'[d]
                 \/ \E m \in 1 .. Len(free_segments') : free_segments'[m] = cleaning'[d]
      <4>1. CASE d = c
        BY <1>2, <2>1, <2>3, <2>7, <4>1
      <4>2. CASE d # c
        <5>1. cleaning[d] = cleaning'[d] /\ cleaning[d] # None /\ clean_offset[d] < SegSize
          BY <2>7, <3>1, <4>2
        <5>2. seg[cleaning[d]].cleaned
          BY <5>1 DEF Store!Recycled
        <5>3. \/ \E m \in 1 .. Len(log[d]) : log[d][m] = cleaning[d]
              \/ \E m \in 1 .. Len(free_segments) : free_segments[m] = cleaning[d]
          BY <1>7, <5>1, <5>2, Zenon DEF ScanRight
        <5> QED
          BY <1>2, <5>1, <5>3
      <4> QED
        BY <4>1, <4>2
    <3> QED
      BY <3>1, Zenon DEF ScanRight
  <2> QED
    BY <1>8, <2>5, <2>7, <2>8
<1> QED
  BY <1>3, <1>9, <1>10, <1>11

\* The cleaner takes an item from its queue.
LEMMA CleanTakeKeeps ==
  ASSUME Store!StoreAssumption, ItemInv, NEW c \in Cores, Store!CleanTake(c)
  PROVE  ItemInv'
<1>1. ItemTypes /\ Users /\ Laid
  BY InvUsers, InvLaid DEF ItemInv
<1>2. /\ core[c] = Store!Idle
      /\ item' = item /\ log' = log /\ cleaning' = cleaning /\ clean_offset' = clean_offset
      /\ table' = table /\ maint' = maint
  BY DEF Store!CleanTake
<1>3. Laid' /\ LogsGrow /\ NotReset
  <2>1. \/ reserved[c] = None /\ free_segments # <<>> /\ Reserving(c)
        \/ reserved' = reserved /\ free_segments' = free_segments /\ seg' = seg
    BY <1>2 DEF Store!CleanTake, Reserving
  <2>2. CASE reserved[c] = None /\ free_segments # <<>> /\ Reserving(c)
    BY <1>1, <2>2, ReservingKeeps
  <2>3. CASE reserved' = reserved /\ free_segments' = free_segments /\ seg' = seg
    BY <1>1, <1>2, <2>3, CountingKeeps
  <2> QED
    BY <2>1, <2>2, <2>3
<1>4. CASE cq[c] = <<>>
  <2>1. cq' = cq /\ core' = core
    BY <1>4 DEF Store!CleanTake
  <2>2. HeldBy' = HeldBy
    BY <2>1, CoresStay
  <2>3. Users'
    BY <1>1, <1>2, <2>1, <2>2 DEF Users
  <2>4. Store!Queued' /\ ScanRight'
    BY <1>2, <1>3, <2>1, <2>3, NotCleaning
  <2> QED
    BY <1>2, <1>3, <2>1, <2>3, <2>4, NoCoreMoves
<1>5. CASE cq[c] # <<>>
  <2>1. PICK q \in Seq(Store!Items) : q = cq[c] /\ Len(q) <= CqSize /\ q # <<>>
    BY <1>1, <1>5 DEF Users, Queues
  <2>2. PICK i \in Store!Items : i = Head(q)
    BY <2>1, Shortened
  <2>3. PICK u : u = [step |-> "clean", it |-> i]
    OBVIOUS
  <2>4. cq' = [cq EXCEPT ![c] = Tail(q)] /\ core' = [core EXCEPT ![c] = u]
    BY <1>5, <2>1, <2>2, <2>3 DEF Store!CleanTake
  <2>5. /\ u.step = "clean" /\ u \in CoreStates /\ HeldOf(u) = <<i>> /\ FreshOf(u) = None
    BY <2>3, CoreMoves DEF FreshOf
  <2>6. HeldOf(u) = Append(HeldOf(core[c]), i) /\ Len(HeldOf(u)) <= 2
    <3>1. HeldOf(core[c]) = <<>>
      BY <1>2, IdleIs
    <3> QED
      BY <2>5, <3>1
  <2>7. Queues(HeldBy', 2) /\ Pushed(HeldBy, HeldBy', c, i)
    BY <1>1, <2>4, <2>5, <2>6, HoldsMore
  <2>8. core' \in [Cores -> CoreStates] /\ core'[c] = u /\ \A d \in Cores \ {c} : core'[d] = core[d]
    BY <1>1, <2>4, <2>5, OneCore DEF Users
  <2>9. /\ cq' \in [Cores -> Seq(Store!Items)] /\ cq'[c] = Tail(q)
        /\ \A d \in Cores \ {c} : cq'[d] = cq[d]
    <3>1. Tail(q) \in Seq(Store!Items) /\ cq \in [Cores -> Seq(Store!Items)]
      BY <1>1, <2>1, Shortened DEF Users, Queues
    <3> QED
      BY <2>4, <3>1
  <2>10. PICK l \in Nat : l = Len(q) /\ 1 <= l /\ Len(Tail(q)) = l - 1
    BY <2>1, Shortened
  <2>11. CqSize \in Nat
    BY Sizes
  <2>12. Queues(cq', CqSize)
    <3>1. Len(cq'[c]) <= CqSize
      BY <2>1, <2>9, <2>10, <2>11
    <3> QED
      BY <1>1, <2>9, <3>1 DEF Users, Queues
  <2>13. Popped(cq, cq', c)
    BY <1>5, <2>1, <2>9 DEF Popped
  <2>14. Users'
    <3>1. \A d \in Cores : core'[d].step = "release" => core'[d].items # <<>>
      BY <1>1, <2>5, <2>8 DEF Users
    <3> QED
      BY <1>1, <1>2, <2>7, <2>8, <2>12, <3>1 DEF Users
  <2>15. ASSUME NEW j \in Store!Items PROVE Refs(table', cq', HeldBy', j) = Refs(table, cq, HeldBy, j)
    <3>1. PICK Q, R : Q = HeldBy /\ R = HeldBy'
      OBVIOUS
    <3>2. Queues(Q, 2) /\ Queues(R, 2) /\ Pushed(Q, R, c, i) /\ 2 \in Nat
      BY <1>1, <2>7, <3>1 DEF Users
    <3>3. Store!Uses(R, 2, j) = Store!Uses(Q, 2, j) + (IF i = j THEN 1 ELSE 0)
      BY <3>2, UsesPushed
    <3>4. PICK S, T : S = cq /\ T = cq'
      OBVIOUS
    <3>5. /\ Queues(S, CqSize) /\ Queues(T, CqSize) /\ Popped(S, T, c) /\ CqSize \in Nat
          /\ Head(S[c]) = i
      BY <1>1, <2>1, <2>2, <2>11, <2>12, <2>13, <3>4 DEF Users
    <3>6. Store!Uses(S, CqSize, j) = Store!Uses(T, CqSize, j) + (IF i = j THEN 1 ELSE 0)
      BY <3>5, UsesPopped
    <3>7. /\ StoredAs(table, j) \in Nat /\ Store!Uses(T, CqSize, j) \in Nat
          /\ Store!Uses(Q, 2, j) \in Nat
      BY <3>1, <3>4, RefsNat
    <3> QED
      BY <1>2, <3>1, <3>3, <3>4, <3>6, <3>7 DEF Refs
  <2>16. Store!Queued'
    <3>1. ASSUME NEW d \in Cores, NEW m \in 1 .. Len(cq'[d])
          PROVE  \E j \in 1 .. Len(log'[d]) : log'[d][j] = cq'[d][m][1]
      <4>1. PICK n \in 1 .. Len(cq[d]) : cq'[d][m] = cq[d][n]
        <5>1. CASE d = c
          <6>1. m \in 1 .. l - 1 /\ m + 1 \in 1 .. l
            BY <2>9, <2>10, <3>1, <5>1
          <6>2. cq'[d][m] = q[m + 1]
            <7>1. \A x \in 1 .. Len(q) - 1 : Tail(q)[x] = q[x + 1]
              BY <2>1, Shortened
            <7> QED
              BY <2>9, <2>10, <5>1, <6>1, <7>1
          <6> QED
            BY <2>1, <2>10, <5>1, <6>1, <6>2
        <5>2. CASE d # c
          BY <2>9, <3>1, <5>2
        <5> QED
          BY <5>1, <5>2
      <4>2. PICK j \in 1 .. Len(log[d]) : log[d][j] = cq[d][n][1]
        BY <4>1, QueuedIs
      <4> QED
        BY <1>2, <4>1, <4>2
    <3> QED
      BY <1>3, <2>14, <3>1, QueuedNext
  <2>17. ScanRight'
    <3>1. Stays
      BY <1>3 DEF LogsGrow, Stays
    <3> QED
      BY <1>2, <1>3, <3>1, ScanKept
  <2>18. \A d \in Cores : /\ FreshOf(core'[d]) \in {None, FreshOf(core[d])}
                          /\ core'[d].step = "cas" => core'[d] = core[d]
    BY <2>5, <2>8
  <2> QED
    BY <1>2, <1>3, <2>14, <2>15, <2>16, <2>17, <2>18, QuietKeeps
<1> QED
  BY <1>4, <1>5

\* The scan takes a reference to an item in use and queues it.
LEMMA TryRefKeeps ==
  ASSUME Store!StoreAssumption, ItemInv, NEW c \in Cores, Store!TryRef(c),
         \A d \in Cores : ~Store!Recycled(d)
  PROVE  ItemInv'
<1>1. ItemTypes /\ Users /\ Laid
  BY InvUsers, InvLaid DEF ItemInv
<1>2. PICK i : i = <<cleaning[c], clean_offset[c]>>
  OBVIOUS
<1>3. /\ cleaning[c] # None /\ clean_offset[c] < SegSize /\ Len(cq[c]) < CqSize
      /\ seg' = seg /\ log' = log /\ reserved' = reserved /\ free_segments' = free_segments
      /\ cleaning' = cleaning /\ table' = table /\ core' = core /\ maint' = maint
      /\ \/ /\ i \in Store!Items /\ item[i].ref > 0
            /\ item' = [item EXCEPT ![i].ref = @ + 1] /\ cq' = [cq EXCEPT ![c] = Append(@, i)]
         \/ item' = item /\ cq' = cq
      /\ clean_offset' = [clean_offset EXCEPT ![c] =
                            IF @ + 2 * ItemSize <= SegSize THEN @ + ItemSize ELSE SegSize]
  BY <1>2 DEF Store!TryRef, Store!Scanning, Store!logVars, Store!Items
<1>4. HeldBy' = HeldBy /\ \A d \in Cores : FreshOf(core'[d]) \in {None, FreshOf(core[d])}
  BY <1>3, CoresStay
<1>5. /\ clean_offset' \in [Cores -> Nat]
      /\ \A d \in Cores : clean_offset'[d] < SegSize => clean_offset[d] < SegSize
  <2>1. SegSize \in Nat /\ ItemSize \in Nat /\ clean_offset \in [Cores -> Nat]
    BY <1>1, Sizes DEF Users
  <2> QED
    BY <1>3, <2>1
<1>6. CASE item' = item /\ cq' = cq
  <2>1. Laid' /\ LogsGrow /\ NotReset
    BY <1>1, <1>3, <1>6, CountingKeeps
  <2>2. Users'
    BY <1>1, <1>3, <1>4, <1>5, <1>6 DEF Users
  <2>3. Store!Queued'
    <3>1. ASSUME NEW d \in Cores, NEW m \in 1 .. Len(cq'[d])
          PROVE  \E j \in 1 .. Len(log'[d]) : log'[d][j] = cq'[d][m][1]
      BY <1>3, <1>6, <3>1, QueuedIs
    <3> QED
      BY <2>1, <2>2, <3>1, QueuedNext
  <2>4. ScanRight'
    <3>1. Stays
      BY <2>1 DEF LogsGrow, Stays
    <3> QED
      BY <1>3, <1>5, <2>1, <3>1, ScanKept
  <2> QED
    BY <1>3, <1>6, <2>1, <2>2, <2>3, <2>4, NoCoreMoves
<1>7. ASSUME i \in Store!Items, item[i].ref > 0, item' = [item EXCEPT ![i].ref = @ + 1],
             cq' = [cq EXCEPT ![c] = Append(@, i)]
      PROVE  ItemInv'
  <2>1. /\ item' \in [Store!Items -> Entries] /\ SameContents(None)
        /\ \A j \in Store!Items : /\ (item'[j].ref > 0) = (item[j].ref > 0)
                                  /\ item'[j].ref - item[j].ref = IF j = i THEN 1 ELSE 0
    BY <1>1, <1>7, Raised DEF Users
  <2>2. Laid' /\ LogsGrow /\ NotReset
    BY <1>1, <1>3, <2>1, CountingKeeps
  <2>3. PICK q \in Seq(Store!Items) : q = cq[c] /\ Len(q) < CqSize
    BY <1>1, <1>3 DEF Users, Queues
  <2>4. PICK l \in Nat : l = Len(q)
    BY <2>3
  <2>5. /\ Append(q, i) \in Seq(Store!Items) /\ Len(Append(q, i)) = l + 1
        /\ Append(q, i)[l + 1] = i /\ \A m \in 1 .. l : Append(q, i)[m] = q[m]
    BY <1>7, <2>4, Appended
  <2>6. /\ cq' \in [Cores -> Seq(Store!Items)] /\ cq'[c] = Append(q, i)
        /\ \A d \in Cores \ {c} : cq'[d] = cq[d]
    <3>1. cq \in [Cores -> Seq(Store!Items)] /\ cq' = [cq EXCEPT ![c] = Append(q, i)]
      BY <1>1, <1>7, <2>3 DEF Users, Queues
    <3> QED
      BY <2>5, <3>1
  <2>7. CqSize \in Nat
    BY Sizes
  <2>8. Queues(cq', CqSize)
    <3>1. Len(cq'[c]) <= CqSize
      BY <2>3, <2>4, <2>5, <2>6, <2>7
    <3> QED
      BY <1>1, <2>6, <3>1 DEF Users, Queues
  <2>9. Pushed(cq, cq', c, i)
    BY <2>3, <2>6 DEF Pushed
  <2>10. Users'
    BY <1>1, <1>3, <1>4, <1>5, <2>1, <2>8 DEF Users
  <2>11. Store!Counted'
    <3>1. ASSUME NEW j \in Store!Items
          PROVE  Refs(table', cq', HeldBy', j) - Refs(table, cq, HeldBy, j)
                            = item'[j].ref - item[j].ref
      <4>1. PICK S, T : S = cq /\ T = cq'
        OBVIOUS
      <4>2. Queues(S, CqSize) /\ Queues(T, CqSize) /\ Pushed(S, T, c, i) /\ CqSize \in Nat
        BY <1>1, <2>7, <2>8, <2>9, <4>1 DEF Users
      <4>3. Store!Uses(T, CqSize, j) = Store!Uses(S, CqSize, j) + (IF i = j THEN 1 ELSE 0)
        BY <1>7, <4>2, UsesPushed
      <4>4. /\ StoredAs(table, j) \in Nat /\ Store!Uses(S, CqSize, j) \in Nat
            /\ Store!Uses(HeldBy, 2, j) \in Nat
        BY <4>1, RefsNat
      <4>5. Refs(table', cq', HeldBy', j) - Refs(table, cq, HeldBy, j) = IF j = i THEN 1 ELSE 0
        BY <1>3, <1>4, <4>1, <4>3, <4>4 DEF Refs
      <4> QED
        BY <2>1, <4>5
    <3> QED
      BY <2>1, <3>1, CountsMove
  <2>12. PICK s \in Segments : s = cleaning[c] /\ s = i[1]
    BY <1>1, <1>2, <1>3 DEF Users
  <2>13. \E n \in 1 .. Len(log[c]) : log[c][n] = s
    <3>1. seg[s].cleaned
      BY <1>3, <2>12 DEF Store!Recycled
    <3>2. \/ \E n \in 1 .. Len(log[c]) : log[c][n] = s
          \/ \E n \in 1 .. Len(free_segments) : free_segments[n] = s
      <4>1. ScanRight
        BY DEF ItemInv
      <4>2. \/ \E n \in 1 .. Len(log[c]) : log[c][n] = cleaning[c]
            \/ \E n \in 1 .. Len(free_segments) : free_segments[n] = cleaning[c]
        BY <1>3, <2>12, <3>1, <4>1, Zenon DEF ScanRight
      <4> QED
        BY <2>12, <4>2
    <3>3. Unfree(s)
      BY <1>1, <1>7, <2>12, LiveSegment
    <3> QED
      BY <3>2, <3>3 DEF Unfree
  <2>14. Store!Queued'
    <3>1. ASSUME NEW d \in Cores, NEW m \in 1 .. Len(cq'[d])
          PROVE  \E j \in 1 .. Len(log'[d]) : log'[d][j] = cq'[d][m][1]
      <4>1. CASE d = c /\ m = l + 1
        BY <1>3, <2>5, <2>6, <2>12, <2>13, <4>1
      <4>2. CASE ~(d = c /\ m = l + 1)
        <5>1. m \in 1 .. Len(cq[d]) /\ cq'[d][m] = cq[d][m]
          <6>1. CASE d = c
            BY <2>3, <2>4, <2>5, <2>6, <3>1, <4>2, <6>1
          <6>2. CASE d # c
            BY <2>6, <3>1, <6>2
          <6> QED
            BY <6>1, <6>2
        <5>2. PICK j \in 1 .. Len(log[d]) : log[d][j] = cq[d][m][1]
          BY <5>1, QueuedIs
        <5> QED
          BY <1>3, <5>1, <5>2
      <4> QED
        BY <4>1, <4>2
    <3> QED
      BY <2>2, <2>10, <3>1, QueuedNext
  <2>15. ScanRight'
    <3>1. Stays
      BY <2>2 DEF LogsGrow, Stays
    <3> QED
      BY <1>3, <1>5, <2>2, <3>1, ScanKept
  <2>16. FreshRight'
    BY <1>3, <1>4, FreshKept
  <2>17. Contents' /\ Store!Stored'
    BY <1>3, <2>1, <2>10, <2>11, ContentsKept
  <2> QED
    BY <2>2, <2>10, <2>11, <2>14, <2>15, <2>16, <2>17, Assembled
<1> QED
  BY <1>3, <1>6, <1>7

(***************************************************************************)
(* The initial states.                                                     *)
(***************************************************************************)

\* There are segments enough for every core to have one of its own.
LEMMA FirstSegments ==
  ASSUME Store!StoreAssumption
  PROVE  \E f \in [Cores -> 1 .. Cardinality(Cores)] :
            IsInjective(f) /\ \A c, d \in Cores : f[c] = f[d] => c = d
<1>1. ExistsBijection(1 .. Cardinality(Cores), Cores)
  BY Sizes, FS_CardinalityType
<1>2. ExistsBijection(Cores, 1 .. Cardinality(Cores))
  BY <1>1, Fun_ExistsBijSymmetric
<1>3. PICK f : f \in Bijection(Cores, 1 .. Cardinality(Cores))
  BY <1>2 DEF ExistsBijection
<1>4. f \in [Cores -> 1 .. Cardinality(Cores)] /\ \A c, d \in Cores : f[c] = f[d] => c = d
  BY <1>3 DEF Bijection, Injection, IsInjective
<1>5. IsInjective(f)
  BY <1>4 DEF IsInjective
<1> QED
  BY <1>4, <1>5

\* Nothing is in an empty queue.
LEMMA NoUses ==
  ASSUME Store!StoreAssumption, NEW n \in Nat, NEW Q, \A c \in Cores : Q[c] = <<>>, NEW i
  PROVE  Store!Uses(Q, n, i) = 0
<1>1. Places(Q, n, i) = {}
  BY DEF Places
<1> QED
  BY <1>1, PlacesFinite, FS_EmptySet

\* The invariant holds in the first state.
LEMMA InitRight ==
  ASSUME Store!StoreAssumption, Store!Init
  PROVE  ItemInv
<1>1. PICK n \in Nat, N \in Nat : /\ n = Cardinality(Cores) /\ N = Cardinality(Segments)
                                  /\ N >= 2 * n /\ Segments = 1 .. N
  BY Sizes, FS_CardinalityType
<1>2. n = Cardinality(Cores) /\ N = Cardinality(Segments)
  BY <1>1
<1>3. PICK f \in [Cores -> 1 .. n] : /\ \A c, d \in Cores : f[c] = f[d] => c = d
                                     /\ log = [c \in Cores |-> <<f[c]>>]
                                     /\ reserved = [c \in Cores |-> f[c] + n]
  <2>1. PICK m : m = Store!Cardinality(Cores)
    OBVIOUS
  <2>2. m = n
    BY <1>2, <2>1, Zenon DEF Store!Cardinality, Cardinality
  <2>3. \E f \in [Cores -> 1 .. m] : Store!IsInjective(f)
    BY <1>1, <2>2, FirstSegments, Zenon DEF Store!IsInjective, IsInjective
  <2>4. PICK f : f = CHOOSE g \in [Cores -> 1 .. m] : Store!IsInjective(g)
    OBVIOUS
  <2>5. f \in [Cores -> 1 .. m] /\ Store!IsInjective(f)
    BY <2>3, <2>4, Zenon
  <2>6. f \in [Cores -> 1 .. n] /\ \A c, d \in Cores : f[c] = f[d] => c = d
    BY <2>2, <2>5 DEF Store!IsInjective
  <2>7. log = [c \in Cores |-> <<f[c]>>] /\ reserved = [c \in Cores |-> f[c] + m]
    <3>1. /\ log = [c \in Cores |-> <<(CHOOSE g \in [Cores -> 1 .. m] : Store!IsInjective(g))[c]>>]
          /\ reserved = [c \in Cores |-> (CHOOSE g \in [Cores -> 1 .. m] : Store!IsInjective(g))[c] + m]
      BY <2>1 DEF Store!Init
    <3> QED
      BY <2>4, <3>1
  <2> QED
    BY <2>2, <2>6, <2>7
<1>4. /\ item = [i \in Store!Items |-> Store!NoItem] /\ seg = [s \in Segments |-> Store!Empty]
      /\ free_segments = [m \in 1 .. N - 2 * n |-> m + 2 * n]
      /\ cq = [c \in Cores |-> <<>>] /\ cleaning = [c \in Cores |-> None]
      /\ clean_offset = [c \in Cores |-> 0] /\ table = [k \in Keys |-> None]
      /\ core = [c \in Cores |-> Store!Idle]
      /\ maint = [at |-> CHOOSE c \in Cores : TRUE, step |-> "free"]
  <2>1. n = Store!Cardinality(Cores) /\ N = Store!Cardinality(Segments)
    BY <1>2, Zenon DEF Store!Cardinality, Cardinality
  <2>2. free_segments = [m \in 1 .. N - 2 * n |-> m + 2 * n]
    BY <2>1 DEF Store!Init
  <2> QED
    BY <2>2, Zenon DEF Store!Init
<1>26. \A c \in Cores : /\ f[c] \in Nat /\ f[c] \in 1 .. n /\ f[c] \in Segments
                        /\ f[c] + n \in Segments /\ f[c] + n \in n + 1 .. 2 * n
  <2>1. ASSUME NEW x \in 1 .. n
        PROVE  x \in Nat /\ x \in 1 .. N /\ x + n \in 1 .. N /\ x + n \in n + 1 .. 2 * n
    BY <1>1
  <2>2. \A c \in Cores : f[c] \in 1 .. n
    BY <1>3
  <2> QED
    BY <1>1, <2>1, <2>2
<1>27. PICK l \in Nat : l = N - 2 * n /\ \A m \in 1 .. l : m + 2 * n \in Segments
  <2>1. N - 2 * n \in Nat
    BY <1>1
  <2>2. ASSUME NEW m \in 1 .. N - 2 * n PROVE m + 2 * n \in 1 .. N
    BY <1>1, <2>1
  <2> QED
    BY <1>1, <2>1, <2>2
<1>5. /\ free_segments \in Seq(Segments) /\ Len(free_segments) = N - 2 * n
      /\ \A m \in 1 .. N - 2 * n : free_segments[m] = m + 2 * n
  <2>1. free_segments = [m \in 1 .. l |-> m + 2 * n]
    BY <1>4, <1>27
  <2>2. free_segments \in Seq(Segments) /\ Len(free_segments) = l
    BY <1>27, <2>1
  <2> QED
    BY <1>27, <2>1, <2>2
<1>6. /\ log \in [Cores -> Seq(Segments)]
      /\ \A c \in Cores : Len(log[c]) = 1 /\ log[c][1] = f[c] /\ f[c] \in 1 .. n /\ f[c] \in Segments
  BY <1>3, <1>26
<1>7. /\ reserved \in [Cores -> Segments \cup {None}]
      /\ \A c \in Cores : /\ reserved[c] = f[c] + n /\ reserved[c] \in Segments
                          /\ reserved[c] \in n + 1 .. 2 * n
  BY <1>3, <1>26
<1>8. Store!Empty \in SegStates /\ Store!Empty.offset = 0 /\ Store!Empty.freed = 0
  BY DEF Store!Empty, SegStates
<1>9. Store!NoItem \in Entries /\ Store!NoItem.ref = 0
  BY DEF Store!NoItem, Entries
<1>10. /\ item \in [Store!Items -> Entries] /\ \A i \in Store!Items : item[i].ref = 0
       /\ seg \in [Segments -> SegStates] /\ \A s \in Segments : seg[s] = Store!Empty
  BY <1>4, <1>8, <1>9
<1>11. Store!Live = {}
  BY <1>10 DEF Store!Live, Store!Items
<1>12. \A c \in Cores : HeldBy[c] = <<>> /\ core[c] = Store!Idle /\ cq[c] = <<>>
  BY <1>4, HeldIs, IdleIs
<1>13. CqSize \in Nat
  BY Sizes
<1>14. Queues(HeldBy, 2) /\ Queues(cq, CqSize)
  <2>1. <<>> \in Seq(Store!Items) /\ Len(<<>>) = 0
    OBVIOUS
  <2>2. HeldBy = [c \in Cores |-> <<>>]
    BY <1>12 DEF HeldBy
  <2> QED
    BY <1>4, <1>12, <1>13, <2>1, <2>2 DEF Queues
<1>15. Users
  <2>1. \A c \in Cores : core[c].step # "release"
    BY <1>12, IdleIs
  <2>2. core \in [Cores -> CoreStates]
    BY <1>4, IdleIs
  <2>3. maint \in [at : Cores, step : {"free", "scan", "done"}]
    BY <1>4, Sizes
  <2>4. /\ cleaning \in [Cores -> Segments \cup {None}] /\ clean_offset \in [Cores -> Nat]
        /\ table \in [Keys -> Store!Items \cup {None}]
    BY <1>4
  <2> QED
    BY <1>10, <1>14, <2>1, <2>2, <2>3, <2>4, Zenon DEF Users
<1>16. Apart
  <2>1. \A m \in 1 .. l : free_segments[m] = m + 2 * n /\ m + 2 * n \in Int
    BY <1>5, <1>27
  <2>2. ASSUME NEW c \in Cores, NEW m \in 1 .. Len(log[c])
        PROVE  m = 1 /\ log[c][m] = f[c]
    <3>1. m \in 1 .. 1
      BY <1>6
    <3> QED
      BY <1>6, <3>1
  <2>3. Len(free_segments) = l
    BY <1>5, <1>27
  <2>4. \A m, k \in 1 .. Len(free_segments) : free_segments[m] = free_segments[k] => m = k
    BY <1>1, <2>1, <2>3
  <2>5. \A c, d \in Cores : \A m \in 1 .. Len(log[c]), k \in 1 .. Len(log[d]) :
           log[c][m] = log[d][k] => c = d /\ m = k
    BY <1>3, <2>2
  <2>6. \A c \in Cores : \A m \in 1 .. Len(log[c]), k \in 1 .. Len(free_segments) :
           log[c][m] # free_segments[k]
    BY <1>1, <1>6, <2>1, <2>2, <2>3
  <2>7. \A c, d \in Cores : reserved[c] # None /\ reserved[c] = reserved[d] => c = d
    BY <1>1, <1>3, <1>7, <1>26
  <2>8. \A c, d \in Cores : \A m \in 1 .. Len(log[d]) : reserved[c] # log[d][m]
    BY <1>1, <1>6, <1>7, <2>2
  <2>9. \A c \in Cores : \A m \in 1 .. Len(free_segments) : reserved[c] # free_segments[m]
    BY <1>1, <1>7, <2>1, <2>3
  <2> QED
    BY <2>4, <2>5, <2>6, <2>7, <2>8, <2>9 DEF Apart
<1>17. Filling
  <2>1. \A s \in Segments : seg[s].offset \in Marks
    BY <1>8, <1>10, OffsetsRight
  <2>2. \A c \in Cores : Len(log[c]) > 0 /\ \A m \in 1 .. Len(log[c]) - 1 : FALSE
    <3>1. ASSUME NEW c \in Cores PROVE Len(log[c]) > 0 /\ \A m \in 1 .. Len(log[c]) - 1 : FALSE
      <4>1. Len(log[c]) = 1
        BY <1>6
      <4>2. 1 .. 1 - 1 = {}
        OBVIOUS
      <4> QED
        BY <4>1, <4>2
    <3> QED
      BY <3>1
  <2>3. \A c \in Cores : seg[reserved[c]] = Store!Empty
    BY <1>7, <1>10
  <2> QED
    BY <2>1, <2>2, <2>3, Zenon DEF Filling
<1>18. Store!Placed
  BY <1>11 DEF Store!Placed
<1>19. Store!Accounted
  <2>1. \A s : Cardinality(InUse(s)) = 0
    BY <1>11, FS_EmptySet DEF InUse
  <2>2. ItemSize * 0 = 0
    BY Sizes
  <2>3. \A s \in Segments : SpaceOf(s)
    BY <1>8, <1>10, <2>1, <2>2 DEF SpaceOf
  <2> QED
    BY <1>5, <2>3, AccountedIs
<1>20. ItemTypes
  BY <1>5, <1>6, <1>7, <1>10, <1>15, <1>16, <1>17, <1>18, <1>19, UsersAndLaid DEF Laid
<1>21. Store!Counted
  <2>1. ASSUME NEW i \in Store!Items PROVE item[i].ref = Store!References(i)
    <3>1. Store!Uses(cq, CqSize, i) = 0 /\ Store!Uses(HeldBy, 2, i) = 0
      BY <1>12, <1>13, NoUses
    <3>2. {k \in Keys : table[k] = i} = {}
      BY <1>4, Sizes
    <3>3. StoredAs(table, i) = 0
      BY <3>2, FS_EmptySet DEF StoredAs
    <3> QED
      BY <1>10, <3>1, <3>3, RefsAre DEF Refs
  <2> QED
    BY <2>1 DEF Store!Counted, Store!Items
<1>22. Store!Queued /\ Store!Stored
  BY <1>4, <1>12 DEF Store!Queued, Store!Stored
<1>23. ScanRight
  BY <1>4 DEF ScanRight
<1>24. FreshRight
  <2>1. \A c \in Cores : Fresh(c) = None
    BY <1>12, IdleIs, FreshIs
  <2> QED
    BY <2>1 DEF FreshRight
<1>25. Contents
  <2>1. \A c \in Cores : core[c].step # "cas"
    BY <1>12, IdleIs
  <2> QED
    BY <1>10, <2>1 DEF Contents
<1> QED
  BY <1>16, <1>17, <1>18, <1>19, <1>20, <1>21, <1>22, <1>23, <1>24, <1>25 DEF ItemInv, Store!ItemsSafe

(***************************************************************************)
(* The steps.                                                              *)
(***************************************************************************)

\* It survives every step ...
LEMMA NextKeeps ==
  ASSUME Store!StoreAssumption, ItemInv, Store!Next
  PROVE  ItemInv'
<1>1. \A c \in Cores : ~Store!Recycled(c)
  BY DEF Store!Next
<1>2. PICK c \in Cores :
        \/ \E k \in Keys, v \in Values : Store!SetAlloc(c, k, v)
        \/ Store!SetFails(c) \/ Store!SetPut(c) \/ Store!GetCopy(c) \/ Store!Release(c)
        \/ Store!CleanTake(c) \/ Store!CleanDead(c) \/ Store!CleanCopy(c) \/ Store!CleanFails(c)
        \/ Store!CleanPut(c) \/ Store!FreeSegment(c) \/ Store!StartScan(c) \/ Store!TryRef(c)
        \/ Store!EndScan(c) \/ \E k \in Keys : Store!Get(c, k)
  BY Zenon DEF Store!Next
<1>3. CASE \E k \in Keys, v \in Values : Store!SetAlloc(c, k, v)
  BY <1>3, SetAllocKeeps
<1>4. CASE Store!SetFails(c)
  BY <1>4, SetFailsKeeps
<1>5. CASE Store!SetPut(c)
  BY <1>5, SetPutKeeps
<1>6. CASE Store!GetCopy(c) \/ Store!CleanDead(c)
  BY <1>6, GetCopyKeeps
<1>7. CASE Store!Release(c)
  BY <1>7, ReleaseKeeps
<1>8. CASE Store!CleanTake(c)
  BY <1>8, CleanTakeKeeps
<1>9. CASE Store!CleanCopy(c)
  BY <1>9, CleanCopyKeeps
<1>10. CASE Store!CleanFails(c)
  BY <1>10, CleanFailsKeeps
<1>11. CASE Store!CleanPut(c)
  BY <1>11, CleanPutKeeps
<1>12. CASE Store!FreeSegment(c)
  BY <1>12, FreeSegmentKeeps
<1>13. CASE Store!StartScan(c)
  BY <1>1, <1>13, StartScanKeeps
<1>14. CASE Store!TryRef(c)
  BY <1>1, <1>14, TryRefKeeps
<1>15. CASE Store!EndScan(c)
  BY <1>15, EndScanKeeps
<1>16. CASE \E k \in Keys : Store!Get(c, k)
  BY <1>16, GetKeeps
<1> QED
  BY <1>2, <1>3, <1>4, <1>5, <1>6, <1>7, <1>8, <1>9, <1>10, <1>11, <1>12, <1>13, <1>14, <1>15,
     <1>16, Zenon

\* ... and stuttering, ...
LEMMA IdleKeeps ==
  ASSUME Store!StoreAssumption, ItemInv, UNCHANGED Store!vars
  PROVE  ItemInv'
<1>1. ItemTypes /\ Users /\ Laid
  BY InvUsers, InvLaid DEF ItemInv
<1>2. /\ item' = item /\ seg' = seg /\ log' = log /\ reserved' = reserved
      /\ free_segments' = free_segments /\ cq' = cq /\ cleaning' = cleaning
      /\ clean_offset' = clean_offset /\ table' = table /\ core' = core /\ maint' = maint
  BY DEF Store!vars, Store!logVars, Store!cleanVars
<1>3. Laid' /\ LogsGrow /\ NotReset
  BY <1>1, <1>2, CountingKeeps
<1>4. HeldBy' = HeldBy
  BY <1>2, CoresStay
<1>5. Users'
  BY <1>1, <1>2, <1>4 DEF Users
<1>6. Store!Queued' /\ ScanRight'
  BY <1>2, <1>3, <1>5, NotCleaning
<1> QED
  BY <1>2, <1>3, <1>5, <1>6, NoCoreMoves

\* ... so it always holds.
LEMMA ItemInvariant ==
  ASSUME Store!StoreAssumption
  PROVE  Store!Spec => []ItemInv
<1>1. Store!Init => ItemInv
  BY InitRight
<1>2. ItemInv /\ [Store!Next]_(Store!vars) => ItemInv'
  BY NextKeeps, IdleKeeps
<1> QED
  BY <1>1, <1>2, PTL DEF Store!Spec

\* A behaviour of the composition is one of the store, which other components
\* leave alone.
LEMMA StoreRuns == Spec => Store!Spec
<1>1. Init => Store!Init
  BY DEF Init
<1>2. [Next]_vars => [Store!Next]_(Store!vars)
  BY Zenon DEF Next, vars, itemVars, Store!vars, Store!logVars, Store!cleanVars
<1> QED
  BY <1>1, <1>2, PTL DEF Spec, Store!Spec

\* No item in use is overwritten or lost: every reference to an item is counted,
\* an item that is referenced lies in a segment that has not been given back, and
\* the free space of a segment is what its items in use leave (ialloc.c,
\* item_ref and item_unref of iokvs.h, with the cleaning of main-ll.c).
THEOREM ItemsAreSafe == Spec => []ItemsSafe
<1>1. Store!StoreAssumption
  BY StoresAssumption
<1>2. Store!Spec => []ItemInv
  BY <1>1, ItemInvariant
<1>3. ItemInv => ItemsSafe
  BY DEF ItemInv, ItemsSafe, Store!ItemsSafe
<1> QED
  BY StoreRuns, <1>2, <1>3, PTL

(***************************************************************************)
(* The store implements an atomic map (KvStore).                           *)
(***************************************************************************)

StoreAt(k) == IF table[k] = None THEN None ELSE item[table[k]].val
PendingAt(c) == IF core[c].step # "put" THEN None
                ELSE <<item[core[c].it].key, item[core[c].it].val>>
ReplyAt(c) == IF core[c].step = "copy" THEN item[core[c].it].val ELSE None

KStore == [k \in Keys |-> StoreAt(k)]
KPending == [c \in Cores |-> PendingAt(c)]
KReply == [c \in Cores |-> ReplyAt(c)]

\* The steps of the abstract map, on these values.
KSubmit(c, k, v) == /\ KPending[c] = None /\ KPending' = [KPending EXCEPT ![c] = <<k, v>>]
                    /\ KStore' = KStore /\ KReply' = KReply
KSet(c) == /\ KPending[c] # None
           /\ KStore' = [KStore EXCEPT ![KPending[c][1]] = KPending[c][2]]
           /\ KPending' = [KPending EXCEPT ![c] = None]
           /\ KReply' = KReply
KGet(c, k) == /\ KReply[c] = None /\ KReply' = [KReply EXCEPT ![c] = KStore[k]]
              /\ KStore' = KStore /\ KPending' = KPending
KAnswer(c) == KReply' = [KReply EXCEPT ![c] = None] /\ KStore' = KStore /\ KPending' = KPending
KSame == KStore' = KStore /\ KPending' = KPending /\ KReply' = KReply

\* The operations of the map, seen through the refinement mapping.
LEMMA MapSteps ==
  /\ \A c \in Cores, k \in Keys, v \in Values : KSubmit(c, k, v) => Store!Kv!Next
  /\ \A c \in Cores : KSet(c) => Store!Kv!Next
  /\ \A c \in Cores, k \in Keys : KGet(c, k) => Store!Kv!Next
  /\ \A c \in Cores : KAnswer(c) => Store!Kv!Next
  /\ KSame => UNCHANGED Store!Kv!vars
<1>1. \A c \in Cores, k \in Keys, v \in Values : KSubmit(c, k, v) => Store!Kv!Submit(c, k, v)
  BY DEF KSubmit, KStore, KPending, KReply, StoreAt, PendingAt, ReplyAt, Store!Kv!Submit
<1>2. \A c \in Cores : KSet(c) => Store!Kv!Set(c)
  BY DEF KSet, KStore, KPending, KReply, StoreAt, PendingAt, ReplyAt, Store!Kv!Set
<1>3. \A c \in Cores, k \in Keys : KGet(c, k) => Store!Kv!Get(c, k)
  BY DEF KGet, KStore, KPending, KReply, StoreAt, PendingAt, ReplyAt, Store!Kv!Get
<1>4. \A c \in Cores : KAnswer(c) => Store!Kv!Reply(c)
  BY DEF KAnswer, KStore, KPending, KReply, StoreAt, PendingAt, ReplyAt, Store!Kv!Reply
<1>5. KSame => UNCHANGED Store!Kv!vars
  BY DEF KSame, KStore, KPending, KReply, StoreAt, PendingAt, ReplyAt, Store!Kv!vars
<1> QED
  BY <1>1, <1>2, <1>3, <1>4, <1>5 DEF Store!Kv!Next

\* What stays in use keeps its contents, so what others see of it stays.
LEMMA ViewKept ==
  ASSUME Store!StoreAssumption, ItemInv, ItemInv', NEW n, Unused(n) \/ n = None, SameContents(n)
  PROVE  /\ \A k \in Keys : table'[k] = table[k] => StoreAt(k)' = StoreAt(k)
         /\ \A d \in Cores : core'[d] = core[d] => /\ PendingAt(d)' = PendingAt(d)
                                                   /\ ReplyAt(d)' = ReplyAt(d)
<1>1. \A i \in Store!Items : item[i].ref > 0 => i # n
  BY Sizes DEF Unused
<1>2. \A i \in Store!Items : item[i].ref > 0 /\ item'[i].ref > 0 =>
         item'[i].key = item[i].key /\ item'[i].val = item[i].val
  BY <1>1 DEF SameContents
<1>3. Users' /\ Store!Counted'
  BY DEF ItemInv, ItemTypes, Users, Store!ItemsSafe
<1>4. ASSUME NEW k \in Keys, table'[k] = table[k] PROVE StoreAt(k)' = StoreAt(k)
  <2>1. CASE table[k] = None
    BY <1>4, <2>1 DEF StoreAt
  <2>2. CASE table[k] # None
    <3>1. PICK i \in Store!Items : i = table[k] /\ item[i].ref > 0
      BY <2>2, UsedCounts DEF ItemInv, Store!ItemsSafe
    <3>2. item'[i].ref > 0
      BY <1>3, <1>4, <2>2, <3>1, UsedNext
    <3>3. item'[i].val = item[i].val
      BY <1>2, <3>1, <3>2
    <3> QED
      BY <1>4, <2>2, <3>1, <3>3 DEF StoreAt
  <2> QED
    BY <2>1, <2>2
<1>5. ASSUME NEW d \in Cores, core'[d] = core[d]
      PROVE  PendingAt(d)' = PendingAt(d) /\ ReplyAt(d)' = ReplyAt(d)
  <2>1. CASE core[d].step \in {"put", "copy"}
    <3>1. PICK i \in Store!Items : i = core[d].it
      BY <2>1, CoreIs DEF ItemInv
    <3>2. HeldOf(core[d]) = <<i>>
      BY <2>1, <3>1 DEF HeldOf
    <3>3. item[i].ref > 0
      BY <3>2, HeldInUse
    <3>4. PICK q : q = (HeldBy')[d] /\ q = <<i>>
      BY <1>5, <3>2, HeldIs
    <3>5. 1 \in 1 .. Len(q) /\ q[1] = i
      BY <3>4
    <3>6. item'[i].ref > 0
      BY <1>3, <3>4, <3>5, UsedNext
    <3>7. item'[i].key = item[i].key /\ item'[i].val = item[i].val
      BY <1>2, <3>3, <3>6
    <3> QED
      BY <1>5, <3>1, <3>7 DEF PendingAt, ReplyAt
  <2>2. CASE core[d].step \notin {"put", "copy"}
    BY <1>5, <2>2 DEF PendingAt, ReplyAt
  <2> QED
    BY <2>1, <2>2
<1> QED
  BY <1>4, <1>5

\* Only core c moves; the table stays.
LEMMA TableKept ==
  ASSUME Store!StoreAssumption, ItemInv, ItemInv', NEW n, Unused(n) \/ n = None, SameContents(n),
         NEW c \in Cores, table' = table, \A d \in Cores \ {c} : core'[d] = core[d]
  PROVE  /\ KStore' = KStore
         /\ KPending' = [KPending EXCEPT ![c] = PendingAt(c)']
         /\ KReply' = [KReply EXCEPT ![c] = ReplyAt(c)']
<1>1. \A k \in Keys : StoreAt(k)' = StoreAt(k)
  BY ViewKept
<1>2. \A d \in Cores \ {c} : PendingAt(d)' = PendingAt(d) /\ ReplyAt(d)' = ReplyAt(d)
  BY ViewKept
<1>3. KStore' = KStore
  BY <1>1 DEF KStore
<1>4. KPending' = [KPending EXCEPT ![c] = PendingAt(c)']
  BY <1>2 DEF KPending
<1>5. KReply' = [KReply EXCEPT ![c] = ReplyAt(c)']
  BY <1>2 DEF KReply
<1> QED
  BY <1>3, <1>4, <1>5

\* A step of core c from and to states in which no client waits for an answer.
LEMMA Unseen ==
  ASSUME Store!StoreAssumption, ItemInv, ItemInv', NEW n, Unused(n) \/ n = None, SameContents(n),
         NEW c \in Cores, table' = table, \A d \in Cores \ {c} : core'[d] = core[d],
         \/ core'[c] = core[c]
         \/ core[c].step \notin {"put", "copy"} /\ core'[c].step \notin {"put", "copy"}
  PROVE  KSame
<1>1. PendingAt(c)' = PendingAt(c) /\ ReplyAt(c)' = ReplyAt(c)
  <2>1. CASE core'[c] = core[c]
    BY <2>1, ViewKept
  <2>2. CASE core[c].step \notin {"put", "copy"} /\ core'[c].step \notin {"put", "copy"}
    BY <2>2 DEF PendingAt, ReplyAt
  <2> QED
    BY <2>1, <2>2
<1>2. KPending[c] = PendingAt(c) /\ KReply[c] = ReplyAt(c)
  BY DEF KPending, KReply
<1>3. KPending = [KPending EXCEPT ![c] = PendingAt(c)] /\ KReply = [KReply EXCEPT ![c] = ReplyAt(c)]
  BY <1>2 DEF KPending, KReply
<1>4. /\ KStore' = KStore
      /\ KPending' = [KPending EXCEPT ![c] = PendingAt(c)']
      /\ KReply' = [KReply EXCEPT ![c] = ReplyAt(c)']
  BY TableKept
<1> QED
  BY <1>1, <1>3, <1>4 DEF KSame

\* One entry of the map's state.
LEMMA ViewAt ==
  /\ \A c \in Cores : KPending[c] = PendingAt(c) /\ KReply[c] = ReplyAt(c)
  /\ \A k \in Keys : KStore[k] = StoreAt(k)
  /\ \A c \in Cores : /\ core[c].step # "put" => PendingAt(c) = None
                      /\ core'[c].step # "put" => PendingAt(c)' = None
                      /\ core[c].step # "copy" => ReplyAt(c) = None
                      /\ core'[c].step # "copy" => ReplyAt(c)' = None
BY DEF KPending, KReply, KStore, PendingAt, ReplyAt

\* An item is allocated: what is in use stays.
LEMMA AllocationSeen ==
  ASSUME Store!StoreAssumption, ItemInv, NEW c \in Cores, NEW b, NEW h,
         h \in Store!NewSegments(c, b), NEW k \in Keys, NEW v \in Values,
         Store!Allocate(c, h, k, v), NEW n, n = Store!NextItem(c, h)
  PROVE  /\ Unused(n) /\ n \in Store!Items /\ SameContents(n)
         /\ item'[n] = NewItem(k, v)
<1>1. Unused(n) /\ item' = [item EXCEPT ![n] = NewItem(k, v)]
  BY AllocateRight
<1>2. /\ item'[n] = NewItem(k, v) /\ n \in Store!Items
      /\ \A j \in Store!Items \ {n} : item'[j] = item[j]
  BY <1>1, ItemAdded DEF ItemInv
<1> QED
  BY <1>1, <1>2 DEF SameContents

\* A SET that has its item is submitted to the map; ...
LEMMA SetAllocSubmits ==
  ASSUME Store!StoreAssumption, ItemInv, ItemInv', NEW c \in Cores, NEW k \in Keys, NEW v \in Values,
         Store!SetAlloc(c, k, v)
  PROVE  KSubmit(c, k, v)
<1>1. PICK h \in Store!NewSegments(c, FALSE) :
         /\ Store!Allocate(c, h, k, v)
         /\ core' = [core EXCEPT ![c] = [step |-> "put", it |-> Store!NextItem(c, h)]]
  BY DEF Store!SetAlloc
<1>2. PICK n : n = Store!NextItem(c, h)
  OBVIOUS
<1>3. /\ Unused(n) /\ n \in Store!Items /\ SameContents(n)
      /\ item'[n].key = k /\ item'[n].val = v
  <2>1. Unused(n) /\ n \in Store!Items
    BY <1>1, <1>2, AllocationSeen
  <2>2. SameContents(n)
    BY <1>1, <1>2, AllocationSeen
  <2>3. item'[n] = NewItem(k, v)
    BY <1>1, <1>2, AllocationSeen
  <2> QED
    BY <2>1, <2>2, <2>3 DEF NewItem
<1>4. PICK u : u = [step |-> "put", it |-> n]
  OBVIOUS
<1>5. u.step = "put" /\ u.it = n
  BY <1>4
<1>6. core \in [Cores -> CoreStates]
  BY DEF ItemInv, ItemTypes
<1>7. core'[c] = u /\ \A d \in Cores \ {c} : core'[d] = core[d]
  BY <1>1, <1>2, <1>4, <1>6
<1>8. core[c].step = "idle" /\ table' = table
  BY IdleIs DEF Store!SetAlloc
<1>9. /\ KStore' = KStore
      /\ KPending' = [KPending EXCEPT ![c] = PendingAt(c)']
      /\ KReply' = [KReply EXCEPT ![c] = ReplyAt(c)']
  BY <1>3, <1>7, <1>8, TableKept
<1>10. PendingAt(c)' = <<k, v>>
  BY <1>3, <1>5, <1>7 DEF PendingAt
<1>11. KPending[c] = None /\ KReply[c] = None /\ ReplyAt(c)' = None
  BY <1>5, <1>7, <1>8, ViewAt
<1>12. KReply' = KReply
  BY <1>9, <1>11 DEF KReply
<1> QED
  BY <1>9, <1>10, <1>11, <1>12 DEF KSubmit

\* ... a GET reads the map when it takes its reference ...
LEMMA GetGets ==
  ASSUME Store!StoreAssumption, ItemInv, ItemInv', NEW c \in Cores, NEW k \in Keys, Store!Get(c, k)
  PROVE  KGet(c, k)
<1>1. item \in [Store!Items -> Entries] /\ core \in [Cores -> CoreStates]
  BY DEF ItemInv, ItemTypes
<1>2. PICK n \in Store!Items : n = table[k] /\ item[n].ref > 0 /\ table[k] # None
  BY UsedCounts DEF ItemInv, Store!ItemsSafe, Store!Get
<1>3. PICK u : u = [step |-> "copy", it |-> n]
  OBVIOUS
<1>4. u.step = "copy" /\ u.it = n
  BY <1>3
<1>5. /\ item' = [item EXCEPT ![n].ref = @ + 1] /\ core' = [core EXCEPT ![c] = u]
      /\ core[c] = Store!Idle /\ table' = table
  BY <1>2, <1>3 DEF Store!Get
<1>6. SameContents(None)
  BY <1>1, <1>2, <1>5, Raised
<1>7. core'[c] = u /\ \A d \in Cores \ {c} : core'[d] = core[d]
  BY <1>1, <1>5
<1>8. core[c].step = "idle"
  BY <1>5, IdleIs
<1>9. /\ KStore' = KStore
      /\ KPending' = [KPending EXCEPT ![c] = PendingAt(c)']
      /\ KReply' = [KReply EXCEPT ![c] = ReplyAt(c)']
  BY <1>5, <1>6, <1>7, TableKept
<1>10. StoreAt(k)' = StoreAt(k)
  BY <1>5, <1>6, ViewKept
<1>11. ReplyAt(c)' = KStore[k]
  <2>1. ReplyAt(c)' = item'[n].val
    BY <1>4, <1>7 DEF ReplyAt
  <2>2. StoreAt(k)' = item'[n].val
    BY <1>2, <1>5 DEF StoreAt
  <2> QED
    BY <1>10, <2>1, <2>2, ViewAt
<1>12. KPending[c] = None /\ KReply[c] = None /\ PendingAt(c)' = None
  BY <1>4, <1>7, <1>8, ViewAt
<1>13. KPending' = KPending
  BY <1>9, <1>12 DEF KPending
<1> QED
  BY <1>9, <1>11, <1>12, <1>13 DEF KGet

\* The last steps of a request, and of the cleaning of an item.
LEMMA UnrefSeen ==
  ASSUME Store!StoreAssumption, ItemInv, NEW c \in Cores, NEW n, n = Head(HeldOf(core[c])),
         HeldOf(core[c]) # <<>>, Store!Unref(n)
  PROVE  SameContents(None)
<1>1. PICK q \in Seq(Store!Items) : q = HeldBy[c] /\ q = HeldOf(core[c])
  BY HeldIs DEF ItemInv, ItemTypes, Queues
<1>2. n \in Store!Items /\ 1 \in 1 .. Len(q) /\ q[1] = n
  BY <1>1, Shortened
<1>3. item[n].ref > 0
  BY <1>1, <1>2, UsedCounts DEF ItemInv, Store!ItemsSafe
<1>4. item \in [Store!Items -> Entries]
  BY DEF ItemInv, ItemTypes
<1> QED
  BY <1>2, <1>3, <1>4, UnrefDrops

\* ... and answers when it has copied the value.
LEMMA GetCopyAnswers ==
  ASSUME Store!StoreAssumption, ItemInv, ItemInv', NEW c \in Cores, Store!GetCopy(c)
  PROVE  KAnswer(c)
<1>1. core[c].step = "copy" /\ table' = table
  BY DEF Store!GetCopy
<1>2. PICK n \in Store!Items : n = core[c].it
  BY <1>1, CoreIs DEF ItemInv
<1>3. PICK q : q = HeldOf(core[c]) /\ q = <<n>>
  BY <1>1, <1>2 DEF HeldOf
<1>4. q # <<>> /\ Head(q) = n
  BY <1>3
<1>5. SameContents(None)
  BY <1>2, <1>3, <1>4, UnrefSeen DEF Store!GetCopy
<1>6. core'[c] = Store!Idle /\ \A d \in Cores \ {c} : core'[d] = core[d]
  BY DEF ItemInv, ItemTypes, Store!GetCopy
<1>7. core'[c].step = "idle"
  BY <1>6, IdleIs
<1>8. /\ KStore' = KStore
      /\ KPending' = [KPending EXCEPT ![c] = PendingAt(c)']
      /\ KReply' = [KReply EXCEPT ![c] = ReplyAt(c)']
  BY <1>1, <1>5, <1>6, TableKept
<1>9. KPending[c] = None /\ PendingAt(c)' = None /\ ReplyAt(c)' = None
  BY <1>1, <1>7, ViewAt
<1>10. KPending' = KPending
  BY <1>8, <1>9 DEF KPending
<1> QED
  BY <1>8, <1>9, <1>10 DEF KAnswer

\* Giving up references is not seen in the map.
LEMMA ReleaseUnseen ==
  ASSUME Store!StoreAssumption, ItemInv, ItemInv', NEW c \in Cores, Store!Release(c) \/ Store!CleanDead(c)
  PROVE  KSame
<1>1. core[c].step \in {"release", "clean"} /\ table' = table
  BY DEF Store!Release, Store!CleanDead
<1>2. SameContents(None)
  <2>1. CASE Store!Release(c)
    <3>1. core[c].step = "release"
      BY <2>1 DEF Store!Release
    <3>2. HeldOf(core[c]) = core[c].items /\ core[c].items # <<>>
      BY <3>1, CoreIs DEF ItemInv, HeldOf
    <3> QED
      BY <2>1, <3>2, UnrefSeen DEF Store!Release
  <2>2. CASE Store!CleanDead(c)
    <3>1. core[c].step = "clean"
      BY <2>2 DEF Store!CleanDead
    <3>2. PICK n \in Store!Items : n = core[c].it
      BY <3>1, CoreIs DEF ItemInv
    <3>3. PICK q : q = HeldOf(core[c]) /\ q = <<n>>
      BY <3>1, <3>2 DEF HeldOf
    <3>4. q # <<>> /\ Head(q) = n
      BY <3>3
    <3> QED
      BY <2>2, <3>2, <3>3, <3>4, UnrefSeen DEF Store!CleanDead
  <2> QED
    BY <2>1, <2>2
<1>3. core \in [Cores -> CoreStates]
  BY DEF ItemInv, ItemTypes
<1>4. PICK u : core' = [core EXCEPT ![c] = u] /\ u.step \in {"idle", "release"}
  <2>1. PICK r : r = [step |-> "release", items |-> Tail(core[c].items)]
    OBVIOUS
  <2>2. r.step = "release"
    BY <2>1
  <2>3. \/ core' = [core EXCEPT ![c] = Store!Idle]
        \/ core' = [core EXCEPT ![c] = r]
    BY <2>1 DEF Store!Release, Store!CleanDead
  <2> QED
    BY <2>2, <2>3, IdleIs
<1>5. core'[c] = u /\ \A d \in Cores \ {c} : core'[d] = core[d]
  BY <1>3, <1>4
<1> QED
  BY <1>1, <1>2, <1>4, <1>5, Unseen

\* An item of a core is put in the table: the stored value of its key.
LEMMA ReplacedSeen ==
  ASSUME Store!StoreAssumption, ItemInv, ItemInv', NEW c \in Cores, NEW i \in Store!Items, item[i].ref > 0,
         FreshOf(core[c]) = i, NEW k, k = item[i].key, Store!Replace(k, i)
  PROVE  /\ k \in Keys /\ item[i].val \in Values /\ SameContents(None)
         /\ StoreAt(k)' = item[i].val
         /\ \A j \in Keys \ {k} : StoreAt(j)' = StoreAt(j)
<1>1. k \in Keys /\ item[i].val \in Values
  BY DEF ItemInv, Contents
<1>2. i # None
  BY Sizes
<1>3. table[k] # i
  BY <1>1, <1>2, FreshIs DEF ItemInv, FreshRight
<1>4. table[k] # None => table[k] \in Store!Items /\ item[table[k]].ref > 0
  BY <1>1, UsedCounts DEF ItemInv, Store!ItemsSafe
<1>5. item \in [Store!Items -> Entries] /\ table \in [Keys -> Store!Items \cup {None}]
  BY DEF ItemInv, ItemTypes
<1>6. /\ table'[k] = i /\ \A j \in Keys \ {k} : table'[j] = table[j]
      /\ SameContents(None)
      /\ \A j \in Store!Items : item'[j].ref - item[j].ref =
            IF j = i THEN 1 ELSE IF j = table[k] THEN -1 ELSE 0
      /\ item' \in [Store!Items -> Entries]
  BY <1>1, <1>3, <1>4, <1>5, Replaced
<1>7. item'[i].ref > 0
  <2>1. item'[i].ref - item[i].ref = 1
    BY <1>6
  <2>2. item[i].ref \in Nat /\ item'[i].ref \in Nat
    BY <1>5, <1>6 DEF Entries
  <2> QED
    BY <2>1, <2>2
<1>8. item'[i].val = item[i].val
  BY <1>2, <1>6, <1>7 DEF SameContents
<1>9. StoreAt(k)' = item[i].val
  BY <1>2, <1>6, <1>8 DEF StoreAt
<1>10. \A j \in Keys \ {k} : StoreAt(j)' = StoreAt(j)
  BY <1>6, ViewKept
<1> QED
  BY <1>1, <1>6, <1>9, <1>10

\* Core c goes on to give back what it holds.
LEMMA OthersStay ==
  ASSUME ItemInv, NEW c \in Cores, NEW q,
         core' = [core EXCEPT ![c] = [step |-> "release", items |-> q]]
  PROVE  core'[c].step = "release" /\ \A d \in Cores \ {c} : core'[d] = core[d]
<1>1. PICK u : u = [step |-> "release", items |-> q]
  OBVIOUS
<1>2. u.step = "release" /\ core' = [core EXCEPT ![c] = u]
  BY <1>1
<1>3. core \in [Cores -> CoreStates]
  BY DEF ItemInv, ItemTypes
<1> QED
  BY <1>2, <1>3

\* A SET takes effect when its item enters the table.
LEMMA SetPutSets ==
  ASSUME Store!StoreAssumption, ItemInv, ItemInv', NEW c \in Cores, Store!SetPut(c)
  PROVE  KSet(c)
<1>1. core[c].step = "put"
  BY DEF Store!SetPut
<1>2. PICK i \in Store!Items : i = core[c].it
  BY <1>1, CoreIs DEF ItemInv
<1>3. HeldOf(core[c]) = <<i>> /\ FreshOf(core[c]) = i
  BY <1>1, <1>2 DEF HeldOf, FreshOf
<1>4. item[i].ref > 0
  BY <1>3, HeldInUse
<1>5. PICK k : k = item[i].key
  OBVIOUS
<1>6. Store!Replace(k, i)
  BY <1>2, <1>5 DEF Store!SetPut
<1>7. /\ k \in Keys /\ item[i].val \in Values /\ SameContents(None)
      /\ StoreAt(k)' = item[i].val
      /\ \A j \in Keys \ {k} : StoreAt(j)' = StoreAt(j)
  BY <1>3, <1>4, <1>5, <1>6, ReplacedSeen
<1>8. core'[c].step = "release" /\ \A d \in Cores \ {c} : core'[d] = core[d]
  BY OthersStay DEF Store!SetPut
<1>9. PICK v \in Values : v = item[i].val
  BY <1>7
<1>10. KPending[c] = <<k, v>> /\ <<k, v>> # None
  <2>1. PendingAt(c) = <<k, v>>
    BY <1>1, <1>2, <1>5, <1>9 DEF PendingAt
  <2>2. <<k, v>> \in Keys \X Values
    BY <1>7
  <2> QED
    BY <2>1, <2>2, ViewAt, Sizes
<1>11. KStore' = [KStore EXCEPT ![k] = v]
  BY <1>7, <1>9 DEF KStore
<1>12. \A d \in Cores \ {c} : PendingAt(d)' = PendingAt(d) /\ ReplyAt(d)' = ReplyAt(d)
  BY <1>7, <1>8, ViewKept
<1>13. PendingAt(c)' = None /\ ReplyAt(c)' = None /\ ReplyAt(c) = None
  BY <1>1, <1>8, ViewAt
<1>14. KPending' = [KPending EXCEPT ![c] = None]
  BY <1>12, <1>13 DEF KPending
<1>15. KReply' = KReply
  <2>1. \A d \in Cores : ReplyAt(d)' = ReplyAt(d)
    BY <1>12, <1>13
  <2> QED
    BY <2>1 DEF KReply
<1>16. KPending[c][1] = k /\ KPending[c][2] = v
  BY <1>10
<1>17. KStore' = [KStore EXCEPT ![KPending[c][1]] = KPending[c][2]]
  BY <1>11, <1>16
<1> QED
  BY <1>10, <1>14, <1>15, <1>17 DEF KSet

\* Neither the copy of the cleaner is seen ...
LEMMA CleanCopyUnseen ==
  ASSUME Store!StoreAssumption, ItemInv, ItemInv', NEW c \in Cores, Store!CleanCopy(c)
  PROVE  KSame
<1>1. core[c].step = "clean" /\ table' = table
  BY DEF Store!CleanCopy
<1>2. PICK m \in Store!Items : m = core[c].it
  BY <1>1, CoreIs DEF ItemInv
<1>3. PICK h \in Store!NewSegments(c, TRUE) :
         /\ Store!Allocate(c, h, item[m].key, item[m].val)
         /\ core' = [core EXCEPT ![c] = [step |-> "cas", it |-> m, nit |-> Store!NextItem(c, h)]]
  BY <1>2 DEF Store!CleanCopy
<1>4. item[m].ref > 0
  <2>1. HeldOf(core[c]) = <<m>>
    BY <1>1, <1>2 DEF HeldOf
  <2> QED
    BY <2>1, HeldInUse
<1>5. PICK k \in Keys, v \in Values : k = item[m].key /\ v = item[m].val
  BY <1>4 DEF ItemInv, Contents
<1>6. PICK n : n = Store!NextItem(c, h)
  OBVIOUS
<1>7. Unused(n) /\ SameContents(n)
  <2>1. Store!Allocate(c, h, k, v)
    BY <1>3, <1>5
  <2> QED
    BY <1>6, <2>1, AllocationSeen
<1>8. PICK u : u = [step |-> "cas", it |-> m, nit |-> n]
  OBVIOUS
<1>9. u.step = "cas" /\ core' = [core EXCEPT ![c] = u]
  BY <1>3, <1>6, <1>8
<1>10. core \in [Cores -> CoreStates]
  BY DEF ItemInv, ItemTypes
<1>11. core'[c] = u /\ \A d \in Cores \ {c} : core'[d] = core[d]
  BY <1>9, <1>10
<1> QED
  BY <1>1, <1>7, <1>9, <1>11, Unseen

\* ... nor that it takes the place of the original.
LEMMA CleanPutUnseen ==
  ASSUME Store!StoreAssumption, ItemInv, ItemInv', NEW c \in Cores, Store!CleanPut(c)
  PROVE  KSame
<1>1. core[c].step = "cas"
  BY DEF Store!CleanPut
<1>2. PICK m \in Store!Items, i \in Store!Items : m = core[c].it /\ i = core[c].nit
  BY <1>1, CoreIs DEF ItemInv
<1>3. HeldOf(core[c]) = <<m, i>> /\ FreshOf(core[c]) = i
  BY <1>1, <1>2 DEF HeldOf, FreshOf
<1>4. item[i].ref > 0
  BY <1>3, HeldInUse
<1>5. PICK k : k = item[i].key
  OBVIOUS
<1>6. \/ table[k] = m /\ Store!Replace(k, i)
      \/ table' = table /\ item' = item
  BY <1>2, <1>5 DEF Store!CleanPut
<1>7. core'[c].step = "release" /\ \A d \in Cores \ {c} : core'[d] = core[d]
  BY OthersStay DEF Store!CleanPut
<1>8. CASE table' = table /\ item' = item
  <2>1. SameContents(None)
    BY <1>8 DEF SameContents
  <2> QED
    BY <1>1, <1>7, <1>8, <2>1, Unseen
<1>9. CASE table[k] = m /\ Store!Replace(k, i)
  <2>1. /\ k \in Keys /\ SameContents(None) /\ StoreAt(k)' = item[i].val
        /\ \A j \in Keys \ {k} : StoreAt(j)' = StoreAt(j)
    BY <1>3, <1>4, <1>5, <1>9, ReplacedSeen
  <2>2. item[m].val = item[i].val
    BY <1>1, <1>2 DEF ItemInv, Contents
  <2>3. m # None
    BY Sizes
  <2>4. StoreAt(k)' = StoreAt(k)
    BY <1>9, <2>1, <2>2, <2>3 DEF StoreAt
  <2>5. KStore' = KStore
    BY <2>1, <2>4 DEF KStore
  <2>6. \A d \in Cores \ {c} : PendingAt(d)' = PendingAt(d) /\ ReplyAt(d)' = ReplyAt(d)
    BY <1>7, <2>1, ViewKept
  <2>7. PendingAt(c)' = PendingAt(c) /\ ReplyAt(c)' = ReplyAt(c)
    BY <1>1, <1>7, ViewAt
  <2>8. \A d \in Cores : PendingAt(d)' = PendingAt(d) /\ ReplyAt(d)' = ReplyAt(d)
    BY <2>6, <2>7
  <2>9. KPending' = KPending /\ KReply' = KReply
    BY <2>8 DEF KPending, KReply
  <2> QED
    BY <2>5, <2>9 DEF KSame
<1> QED
  BY <1>6, <1>8, <1>9

\* The other steps touch neither the items nor the table.
LEMMA CleaningUnseen ==
  ASSUME Store!StoreAssumption, ItemInv, ItemInv', NEW c \in Cores,
         \/ Store!SetFails(c) \/ Store!CleanTake(c) \/ Store!CleanFails(c) \/ Store!FreeSegment(c)
         \/ Store!StartScan(c) \/ Store!EndScan(c)
  PROVE  KSame
<1>1. item' = item /\ table' = table
  BY DEF Store!SetFails, Store!CleanTake, Store!CleanFails, Store!FreeSegment, Store!StartScan,
         Store!EndScan
<1>2. SameContents(None)
  BY <1>1 DEF SameContents
<1>3. core \in [Cores -> CoreStates]
  BY DEF ItemInv, ItemTypes
<1>4. \/ core' = core
      \/ /\ core[c].step = "idle"
         /\ core' = [core EXCEPT ![c] = [step |-> "clean", it |-> Head(cq[c])]]
      \/ /\ core[c].step = "clean"
         /\ core' = [core EXCEPT ![c] = [step |-> "abort", it |-> core[c].it]]
  <2>1. CASE Store!SetFails(c)
    BY <2>1 DEF Store!SetFails
  <2>2. CASE Store!CleanTake(c)
    <3>1. core[c].step = "idle"
      BY <2>2, IdleIs DEF Store!CleanTake
    <3>2. \/ core' = core
          \/ core' = [core EXCEPT ![c] = [step |-> "clean", it |-> Head(cq[c])]]
      BY <2>2 DEF Store!CleanTake
    <3> QED
      BY <3>1, <3>2
  <2>3. CASE Store!CleanFails(c)
    BY <2>3 DEF Store!CleanFails
  <2>4. CASE Store!FreeSegment(c) \/ Store!StartScan(c) \/ Store!EndScan(c)
    BY <2>4 DEF Store!FreeSegment, Store!StartScan, Store!EndScan
  <2> QED
    BY <2>1, <2>2, <2>3, <2>4
<1>5. CASE core' = core
  BY <1>1, <1>2, <1>5, Unseen
<1>6. ASSUME core[c].step \in {"idle", "clean"}, NEW w \in {"clean", "abort"}, NEW i,
             core' = [core EXCEPT ![c] = [step |-> w, it |-> i]]
      PROVE  KSame
  <2>1. PICK u : u = [step |-> w, it |-> i]
    OBVIOUS
  <2>2. u.step = w /\ core'[c] = u /\ \A d \in Cores \ {c} : core'[d] = core[d]
    BY <1>3, <1>6, <2>1
  <2>3. core[c].step \notin {"put", "copy"} /\ core'[c].step \notin {"put", "copy"}
    BY <1>6, <2>2
  <2> QED
    BY <1>1, <1>2, <2>2, <2>3, Unseen
<1> QED
  BY <1>4, <1>5, <1>6

\* ... and TryRef raises a count.
LEMMA TryRefUnseen ==
  ASSUME Store!StoreAssumption, ItemInv, ItemInv', NEW c \in Cores, Store!TryRef(c)
  PROVE  KSame
<1>1. table' = table /\ core' = core
  BY DEF Store!TryRef
<1>2. PICK i : i = <<cleaning[c], clean_offset[c]>>
  OBVIOUS
<1>3. \/ i \in Store!Items /\ item[i].ref > 0 /\ item' = [item EXCEPT ![i].ref = @ + 1]
      \/ item' = item
  BY <1>2 DEF Store!TryRef, Store!Items
<1>4. item \in [Store!Items -> Entries]
  BY DEF ItemInv, ItemTypes
<1>5. SameContents(None)
  <2>1. CASE item' = item
    BY <2>1 DEF SameContents
  <2>2. CASE i \in Store!Items /\ item[i].ref > 0 /\ item' = [item EXCEPT ![i].ref = @ + 1]
    BY <1>4, <2>2, Raised
  <2> QED
    BY <1>3, <2>1, <2>2
<1> QED
  BY <1>1, <1>5, Unseen

\* Every step of the store is one of the map or none, ...
LEMMA StepRefines ==
  ASSUME Store!StoreAssumption, ItemInv, ItemInv', Store!Next
  PROVE  Store!Kv!Next \/ UNCHANGED Store!Kv!vars
<1>1. PICK c \in Cores :
        \/ \E k \in Keys, v \in Values : Store!SetAlloc(c, k, v)
        \/ Store!SetFails(c) \/ Store!SetPut(c) \/ Store!GetCopy(c) \/ Store!Release(c)
        \/ Store!CleanTake(c) \/ Store!CleanDead(c) \/ Store!CleanCopy(c) \/ Store!CleanFails(c)
        \/ Store!CleanPut(c) \/ Store!FreeSegment(c) \/ Store!StartScan(c) \/ Store!TryRef(c)
        \/ Store!EndScan(c) \/ \E k \in Keys : Store!Get(c, k)
  BY Zenon DEF Store!Next
<1>2. CASE \E k \in Keys, v \in Values : Store!SetAlloc(c, k, v)
  BY <1>2, SetAllocSubmits, MapSteps
<1>3. CASE Store!SetPut(c)
  BY <1>3, SetPutSets, MapSteps
<1>4. CASE \E k \in Keys : Store!Get(c, k)
  BY <1>4, GetGets, MapSteps
<1>5. CASE Store!GetCopy(c)
  BY <1>5, GetCopyAnswers, MapSteps
<1>6. CASE Store!Release(c) \/ Store!CleanDead(c)
  BY <1>6, ReleaseUnseen, MapSteps
<1>7. CASE Store!CleanCopy(c)
  BY <1>7, CleanCopyUnseen, MapSteps
<1>8. CASE Store!CleanPut(c)
  BY <1>8, CleanPutUnseen, MapSteps
<1>9. CASE \/ Store!SetFails(c) \/ Store!CleanTake(c) \/ Store!CleanFails(c)
           \/ Store!FreeSegment(c) \/ Store!StartScan(c) \/ Store!EndScan(c)
  BY <1>9, CleaningUnseen, MapSteps
<1>10. CASE Store!TryRef(c)
  BY <1>10, TryRefUnseen, MapSteps
<1> QED
  BY <1>1, <1>2, <1>3, <1>4, <1>5, <1>6, <1>7, <1>8, <1>9, <1>10

\* ... stuttering is none, ...
LEMMA IdleRefines ==
  ASSUME UNCHANGED Store!vars
  PROVE  UNCHANGED Store!Kv!vars
<1>1. item' = item /\ table' = table /\ core' = core
  BY DEF Store!vars, Store!logVars, Store!cleanVars
<1>2. \A k \in Keys : StoreAt(k)' = StoreAt(k)
  BY <1>1 DEF StoreAt
<1>3. \A c \in Cores : PendingAt(c)' = PendingAt(c) /\ ReplyAt(c)' = ReplyAt(c)
  BY <1>1 DEF PendingAt, ReplyAt
<1>4. KSame
  BY <1>2, <1>3 DEF KSame, KStore, KPending, KReply
<1> QED
  BY <1>4, MapSteps

\* ... and the store begins as the empty map.
LEMMA InitRefines == Store!Init => Store!Kv!Init
<1> SUFFICES ASSUME Store!Init PROVE Store!Kv!Init
  OBVIOUS
<1>1. /\ table = [k \in Keys |-> None]
      /\ core = [c \in Cores |-> Store!Idle]
  BY DEF Store!Init
<1>2. \A k \in Keys : StoreAt(k) = None
  BY <1>1 DEF StoreAt
<1>3. \A c \in Cores : PendingAt(c) = None /\ ReplyAt(c) = None
  BY <1>1, IdleIs DEF PendingAt, ReplyAt
<1>4. /\ KStore = [k \in Keys |-> None]
      /\ KPending = [c \in Cores |-> None]
      /\ KReply = [c \in Cores |-> None]
  BY <1>2, <1>3 DEF KStore, KPending, KReply
<1> QED
  BY <1>4 DEF KStore, KPending, KReply, StoreAt, PendingAt, ReplyAt, Store!Kv!Init

\* Whatever is cleaned, moved and given back meanwhile, a SET takes effect once
\* and a GET returns what was stored for its key while it was served: the store
\* implements KvStore.
THEOREM StoreIsMap == Spec => IsAtomicMap
<1>1. Store!StoreAssumption
  BY StoresAssumption
<1>2. Store!Spec => []ItemInv
  BY <1>1, ItemInvariant
<1>3. ItemInv /\ ItemInv' /\ [Store!Next]_(Store!vars) => [Store!Kv!Next]_(Store!Kv!vars)
  BY <1>1, StepRefines, IdleRefines
<1> QED
  BY StoreRuns, InitRefines, <1>2, <1>3, PTL
     DEF IsAtomicMap, Store!Spec, Store!IsAtomicMap, Store!Kv!Spec
==============================================================================
