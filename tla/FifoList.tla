------------------------------ MODULE FifoList ------------------------------
(***************************************************************************)
(* The doubly linked lists of src/src/fifo.c at the level of their         *)
(* pointers.  Every operation runs under list_lock from its first line to  *)
(* its last, so it is one action.  An entry is pushed at first and taken   *)
(* from last; prev leads from last (oldest) towards first (newest).        *)
(* enqueue_fifo_m and dequeue_fifo_m are the same code for another type.   *)
(***************************************************************************)
EXTENDS Integers, Sequences

CONSTANTS Lists, Entries, NULL

NullAssumption == NULL \notin Entries \cup Lists

VARIABLES first, last, numentries,   \* struct fifo_list
          next, prev, list,          \* struct arms_page
          cursor                     \* a walk: its list, what next_page returned, how many pages so far

headVars == <<first, last, numentries>>
linkVars == <<next, prev, list>>
vars == <<first, last, numentries, next, prev, list, cursor>>

NoCursor == [q |-> NULL, page |-> NULL, seen |-> 0]

Init == /\ first = [q \in Lists |-> NULL]
        /\ last = [q \in Lists |-> NULL]
        /\ numentries = [q \in Lists |-> 0]
        /\ next = [e \in Entries |-> NULL]
        /\ prev = [e \in Entries |-> NULL]
        /\ list = [e \in Entries |-> NULL]
        /\ cursor = NoCursor

\* A list that changes invalidates a walk over it.
StopWalk(q) == cursor' = IF cursor.q = q THEN NoCursor ELSE cursor

\* Callers enqueue an entry that is on no list.
enqueue_fifo(q, e) ==
    /\ list[e] = NULL
    /\ next' = [next EXCEPT ![e] = first[q]]
    /\ IF first[q] # NULL
       THEN /\ prev' = [prev EXCEPT ![first[q]] = e]
            /\ UNCHANGED last
       ELSE /\ last' = [last EXCEPT ![q] = e]
            /\ UNCHANGED prev
    /\ first' = [first EXCEPT ![q] = e]
    /\ list' = [list EXCEPT ![e] = q]
    /\ numentries' = [numentries EXCEPT ![q] = @ + 1]
    /\ StopWalk(q)

\* A bug to catch: the new last entry keeps pointing at the page that left.
dequeue_keeps_next(q) ==
    LET ret == last[q] IN
    /\ ret # NULL
    /\ last' = [last EXCEPT ![q] = prev[ret]]
    /\ first' = IF prev[ret] = NULL THEN [first EXCEPT ![q] = NULL] ELSE first
    /\ next' = [next EXCEPT ![ret] = NULL]
    /\ prev' = [prev EXCEPT ![ret] = NULL]
    /\ list' = [list EXCEPT ![ret] = NULL]
    /\ numentries' = [numentries EXCEPT ![q] = @ - 1]
    /\ StopWalk(q)

\* An empty list returns NULL and changes nothing.
dequeue_fifo(q) ==
    LET ret == last[q] IN
    /\ ret # NULL
    /\ last' = [last EXCEPT ![q] = prev[ret]]
    /\ first' = IF prev[ret] = NULL THEN [first EXCEPT ![q] = NULL] ELSE first
    /\ next' = [e \in Entries |-> IF e \in {ret, prev[ret]} THEN NULL ELSE next[e]]
    /\ prev' = [prev EXCEPT ![ret] = NULL]
    /\ list' = [list EXCEPT ![ret] = NULL]
    /\ numentries' = [numentries EXCEPT ![q] = @ - 1]
    /\ StopWalk(q)

\* Callers remove an entry from the list it is on; an empty list is left alone.
page_list_remove_page(q, e) ==
    /\ list[e] = q
    /\ first' = IF first[q] = e THEN [first EXCEPT ![q] = next[e]] ELSE first
    /\ last' = IF last[q] = e THEN [last EXCEPT ![q] = prev[e]] ELSE last
    /\ next' = [x \in Entries |-> IF x = e THEN NULL
                                  ELSE IF x = prev[e] THEN next[e] ELSE next[x]]
    /\ prev' = [x \in Entries |-> IF x = e THEN NULL
                                  ELSE IF x = next[e] THEN prev[e] ELSE prev[x]]
    /\ numentries' = [numentries EXCEPT ![q] = @ - 1]
    /\ list' = [list EXCEPT ![e] = NULL]
    /\ StopWalk(q)

\* One step of a walk over list q: from NULL to the oldest entry, from an
\* entry to the next newer one, and NULL at the end.
next_page(q) ==
    LET page == IF cursor.q = q THEN cursor.page ELSE NULL
        res == IF page = NULL THEN last[q] ELSE prev[page]
    IN
    /\ cursor' = [q |-> q, page |-> res,
                  seen |-> (IF page = NULL THEN 0 ELSE cursor.seen)
                           + (IF res = NULL THEN 0 ELSE 1)]
    /\ UNCHANGED <<headVars, linkVars>>

Next == \E q \in Lists :
            \/ dequeue_fifo(q) \/ next_page(q)
            \/ \E e \in Entries : enqueue_fifo(q, e) \/ page_list_remove_page(q, e)

Spec == Init /\ [][Next]_vars

-----------------------------------------------------------------------------
\* The entries of list q in the order dequeue_fifo will return them: the
\* first numentries steps along prev from last.
Contents(q) ==
    LET at[i \in 1 .. numentries[q]] == IF i = 1 THEN last[q] ELSE prev[at[i - 1]]
    IN [i \in 1 .. numentries[q] |-> at[i]]

\* Both directions of a list agree, its ends have no neighbour, it holds
\* exactly the entries that name it in list, and what is on no list has no
\* links left: what the assertions of fifo.c check piecemeal.
WellFormed ==
    /\ \A q \in Lists : LET s == Contents(q)  n == numentries[q] IN
         /\ n = 0 => first[q] = NULL /\ last[q] = NULL
         /\ n > 0 => /\ s[n] = first[q] /\ prev[first[q]] = NULL
                     /\ s[1] = last[q] /\ next[last[q]] = NULL
         /\ \A i \in 1 .. n - 1 : next[s[i + 1]] = s[i]
         /\ {s[i] : i \in 1 .. n} = {e \in Entries : list[e] = q}
    /\ \A e \in Entries : list[e] = NULL => next[e] = NULL /\ prev[e] = NULL

\* A walk with next_page visits the entries in dequeue order, each once, and
\* ends (NULL) after the last one only.
WalkInOrder == cursor.q # NULL =>
    LET s == Contents(cursor.q) IN
    IF cursor.page = NULL THEN cursor.seen = Len(s)
    ELSE cursor.seen \in DOMAIN s /\ s[cursor.seen] = cursor.page

\* The linked lists implement FIFO queues.
Queues == [q \in Lists |-> Contents(q)]
Queue == INSTANCE FifoSpec WITH contents <- Queues
IsFifo == Queue!Spec
=============================================================================
