------------------------------ MODULE FifoSpec ------------------------------
(***************************************************************************)
(* What a list of src/src/fifo.c is for its users: a FIFO queue of entries *)
(* that are on at most one list, from which an entry can also be taken out *)
(* of the middle.  FifoList implements it; PageTiering relies on it.       *)
(***************************************************************************)
EXTENDS Integers, Sequences

CONSTANTS Lists, Entries

VARIABLE contents    \* per list its entries, oldest first

On(q) == {contents[q][i] : i \in DOMAIN contents[q]}

Init == contents = [q \in Lists |-> <<>>]

Enqueue(q, e) == /\ \A l \in Lists : e \notin On(l)
                 /\ contents' = [contents EXCEPT ![q] = Append(@, e)]

Dequeue(q) == /\ contents[q] # <<>>
              /\ contents' = [contents EXCEPT ![q] = Tail(@)]

Remove(q, e) == \E i \in DOMAIN contents[q] :
    /\ contents[q][i] = e
    /\ contents' = [contents EXCEPT ![q] = SubSeq(@, 1, i - 1) \o SubSeq(@, i + 1, Len(@))]

Next == \E q \in Lists : \/ Dequeue(q)
                         \/ \E e \in Entries : Enqueue(q, e) \/ Remove(q, e)

Spec == Init /\ [][Next]_contents
=============================================================================
