------------------------------ MODULE Smoothing ------------------------------
(***************************************************************************)
(* calculate_scores_tree of src/src/pebs.c (SPATIAL_SMOOTHING): a page is  *)
(* scored by the mean access count of itself and its neighbours.  One walk *)
(* over the tree in ascending address keeps the neighbours in two rings    *)
(* and a running mean, to which a page is added when it enters a ring and  *)
(* from which it is taken when it leaves.                                  *)
(*                                                                         *)
(* The mean is kept as the number of times each page counts in it.  A ring *)
(* is a sequence: SpscRing shows it is one up to NUM_NEIGHBOURS + 1        *)
(* entries.  munmap may have cleared present of a page in the tree.        *)
(***************************************************************************)
EXTENDS Integers, Sequences, FiniteSets

CONSTANTS NUM_NEIGHBOURS,
          MaxVa           \* addresses are 1 .. MaxVa, in huge pages

SmoothingAssumption == NUM_NEIGHBOURS \in Nat \ {0} /\ MaxVa \in Nat

VARIABLES tree,           \* the addresses in pages_tree
          present,        \* those whose page is present
          itr, n_itr,     \* the two iterators: addresses, or MaxVa + 1 at the end
          l_neighbours, r_neighbours,
          mean,           \* how often each page counts in smooth_avg_v
          s_accesses,     \* what the score of each page was computed from
          at              \* step of the loop body

vars == <<tree, present, itr, n_itr, l_neighbours, r_neighbours, mean, s_accesses, at>>

Vas == 1 .. MaxVa
Nothing == [v \in Vas |-> 0]
\* kb_itr_next.
After(v) == LET later == {w \in tree : w > v}
            IN IF later = {} THEN MaxVa + 1 ELSE CHOOSE w \in later : \A x \in later : w <= x
moving_avg_add(v) == mean' = [mean EXCEPT ![v] = @ + 1]
moving_avg_sub(v) == mean' = [mean EXCEPT ![v] = @ - 1]

\* The walk begins on the drained tree; n_itr is one page ahead.
Init == /\ tree \in (SUBSET Vas) \ {{}}
        /\ present = tree
        /\ itr = After(0) /\ n_itr = After(After(0))
        /\ l_neighbours = <<>> /\ r_neighbours = <<>>
        /\ mean = Nothing /\ s_accesses = [v \in Vas |-> Nothing]
        /\ at = "next"

\* munmap of a page the walk has not seen yet; the tree is drained later.
Vanish(v) == /\ v \in present /\ at = "next" /\ v >= itr
             /\ present' = present \ {v}
             /\ UNCHANGED <<tree, itr, n_itr, l_neighbours, r_neighbours, mean,
                            s_accesses, at>>

\* A page that is not present is passed over, with the rings as they are.
Skip == /\ itr \in tree \ present /\ at = "next"
        /\ itr' = After(itr)
        /\ UNCHANGED <<tree, present, n_itr, l_neighbours, r_neighbours, mean,
                       s_accesses, at>>

\* present is read once for a page.
Visit == /\ itr \in present /\ at = "next"
         /\ at' = "left"
         /\ UNCHANGED <<tree, present, itr, n_itr, l_neighbours, r_neighbours, mean,
                        s_accesses>>

\* The oldest left neighbour stays only if all of them are adjacent.
LeftAdjacent == l_neighbours # <<>> => Head(l_neighbours) = itr - Len(l_neighbours)

PopLeft == /\ at = "left" /\ ~LeftAdjacent
           /\ moving_avg_sub(Head(l_neighbours))
           /\ l_neighbours' = Tail(l_neighbours)
           /\ UNCHANGED <<tree, present, itr, n_itr, r_neighbours, s_accesses, at>>

EndLeft == /\ at = "left" /\ LeftAdjacent
           /\ at' = "right"
           /\ UNCHANGED <<tree, present, itr, n_itr, l_neighbours, r_neighbours, mean,
                          s_accesses>>

\* n_itr is at the next right neighbour, and there is room for it.
RightAdjacent == /\ Len(r_neighbours) < NUM_NEIGHBOURS
                 /\ n_itr \in tree /\ n_itr = itr + Len(r_neighbours) + 1

AppendRight == /\ at = "right" /\ RightAdjacent
               /\ r_neighbours' = Append(r_neighbours, n_itr)
               /\ moving_avg_add(n_itr)
               /\ n_itr' = After(n_itr)
               /\ UNCHANGED <<tree, present, itr, l_neighbours, s_accesses, at>>

\* The page itself is added and scored ...
Score == /\ at = "right" /\ ~RightAdjacent
         /\ moving_avg_add(itr)
         /\ s_accesses' = [s_accesses EXCEPT ![itr] = mean']
         /\ l_neighbours' = Append(l_neighbours, itr)
         /\ at' = "shift"
         /\ UNCHANGED <<tree, present, itr, n_itr, r_neighbours>>

\* A bug to catch: the right neighbour that is next stays in the mean.
ShiftLeftOnly ==
    LET out == IF Len(l_neighbours) > NUM_NEIGHBOURS THEN {Head(l_neighbours)} ELSE {} IN
    /\ at = "shift"
    /\ l_neighbours' = IF out # {} THEN Tail(l_neighbours) ELSE l_neighbours
    /\ r_neighbours' = IF r_neighbours # <<>> THEN Tail(r_neighbours) ELSE <<>>
    /\ mean' = [v \in Vas |-> IF v \in out THEN mean[v] - 1 ELSE mean[v]]
    /\ itr' = After(itr) /\ at' = "next"
    /\ UNCHANGED <<tree, present, n_itr, s_accesses>>

\* ... and the ends of both rings leave the mean.
Shift ==
    LET lout == IF Len(l_neighbours) > NUM_NEIGHBOURS THEN {Head(l_neighbours)} ELSE {}
        rout == IF r_neighbours # <<>> THEN {Head(r_neighbours)} ELSE {} IN
    /\ at = "shift"
    /\ l_neighbours' = IF lout # {} THEN Tail(l_neighbours) ELSE l_neighbours
    /\ r_neighbours' = IF rout # {} THEN Tail(r_neighbours) ELSE <<>>
    /\ mean' = [v \in Vas |-> IF v \in lout \cup rout THEN mean[v] - 1 ELSE mean[v]]
    /\ itr' = After(itr) /\ at' = "next"
    /\ UNCHANGED <<tree, present, n_itr, s_accesses>>

Next == \/ Skip \/ Visit \/ PopLeft \/ EndLeft \/ AppendRight \/ Score \/ Shift
        \/ \E v \in Vas : Vanish(v)
Spec == Init /\ [][Next]_vars

-----------------------------------------------------------------------------
Scored == {v \in Vas : s_accesses[v] # Nothing}
Count(s, v) == Cardinality({i \in DOMAIN s : s[i] = v})
\* The addresses from v to w are all in the tree.
Contiguous(v, w) == \A x \in Vas : (v <= x /\ x <= w) => x \in tree
\* The left and right neighbours of v, and v.
Neighbours(v) == {w \in tree : LET low == IF w < v THEN w ELSE v
                                   high == IF w < v THEN v ELSE w
                               IN high - low <= NUM_NEIGHBOURS /\ Contiguous(low, high)}

\* The incremental mean is the mean of its rings: between two pages it holds the pages of
\* the rings, each as often as it is in one.  In a walk without removals a page counts in
\* a score at most once and only among the neighbours, left neighbours always count, and
\* before the first gap in the tree right ones do too (n_itr does not get past a gap).
SmoothedRight ==
    /\ at = "next" =>
         \A v \in Vas : mean[v] = Count(l_neighbours, v) + Count(r_neighbours, v)
    /\ present = tree => \A v \in Scored : \A w \in Vas :
         /\ s_accesses[v][w] = 0 \/ (s_accesses[v][w] = 1 /\ w \in Neighbours(v))
         /\ w \in Neighbours(v) /\ (w <= v \/ Contiguous(After(0), v)) => s_accesses[v][w] = 1
==============================================================================
