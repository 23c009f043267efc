---------------------------- MODULE PromotionRule ----------------------------
(***************************************************************************)
(* When the policy thread lets a page be promoted (src/src/pebs.c): every  *)
(* interval it scores the tracked pages, sorts them, ages the first NDram  *)
(* ones and marks those that have stayed hot with can_promote.  A page     *)
(* that is released has its history reset before its struct is used again, *)
(* all but can_promote.                                                    *)
(*                                                                         *)
(* A score is a number the workload chooses; how it is computed from the   *)
(* samples is left out, so is the tier a page is in.                       *)
(***************************************************************************)
EXTENDS Integers, FiniteSets

CONSTANTS Pages,        \* the structs
          NDram,        \* dramsize/PAGE_SIZE
          MaxScore,     \* scores are 0 .. MaxScore
          AgeBits       \* width of hot_age (uint16_t)

PromotionAssumption == /\ NDram \in Nat \ {0} /\ MaxScore \in Nat
                       /\ AgeBits \in Nat \ {0, 1}

VARIABLES score, prev_score, hot_age, can_promote,   \* struct arms_page
          tracked,      \* the pages in pages_map
          inherited,    \* history: the structs whose can_promote has been set since
                        \* before they were released
          top,          \* the first NDram pages of the sorted scores, {} while
                        \* the next interval drains its queue
          streak        \* history: intervals in a row in top, up to 2

vars == <<score, prev_score, hot_age, can_promote, tracked, inherited, top, streak>>

Zero == [p \in Pages |-> 0]

Init == /\ score = Zero /\ prev_score = Zero /\ hot_age = Zero
        /\ can_promote = [p \in Pages |-> FALSE]
        /\ tracked = {} /\ inherited = {} /\ top = {}
        /\ streak = Zero

\* The drain loop meets a new page ...
Add(p) == /\ p \notin tracked
          /\ tracked' = tracked \cup {p}
          /\ top' = {}
          /\ UNCHANGED <<score, prev_score, hot_age, can_promote, inherited, streak>>

\* ... or a released one: reset_page_access_fields.
Remove(p) == /\ p \in tracked
             /\ tracked' = tracked \ {p}
             /\ inherited' = IF can_promote[p] THEN inherited \cup {p} ELSE inherited
             /\ hot_age' = [hot_age EXCEPT ![p] = 0]
             /\ prev_score' = [prev_score EXCEPT ![p] = 0]
             /\ streak' = [streak EXCEPT ![p] = 0]
             /\ top' = {}
             /\ UNCHANGED <<score, can_promote>>

\* The sets of NDram tracked pages that may come first after qsort.
Tops(s) == {T \in SUBSET tracked :
              /\ Cardinality(T) = IF Cardinality(tracked) < NDram
                                  THEN Cardinality(tracked) ELSE NDram
              /\ \A p \in T, q \in tracked \ T : s[p] >= s[q]}

\* hot_age after the two loops over the sorted scores: a top page that is hot
\* at all ages, the others start again.
Age(T, s) == [p \in Pages |->
    IF p \in T /\ s[p] # 0 THEN (hot_age[p] + 1) % 2 ^ AgeBits
    ELSE IF p \in tracked \ T THEN 0 ELSE hot_age[p]]

\* The top pages that have aged and are as hot as they were before.
StayedHot(T, s) == {p \in T : s[p] # 0 /\ Age(T, s)[p] > 1 /\ s[p] >= score[p]}

\* A bug to catch: the first hot interval is enough.
PermittedAtOnce(T, s) == [p \in Pages |->
    p \in T /\ (can_promote[p] \/ (s[p] # 0 /\ s[p] >= score[p]))]

\* can_promote after the two loops.
Permitted(T, s) == [p \in Pages |->
    p \in StayedHot(T, s) \/ (can_promote[p] /\ p \notin tracked \ T)]

\* An interval: new scores for the tracked pages, sorted and marked.
Interval ==
    /\ tracked # {}
    /\ \E new \in [tracked -> 0 .. MaxScore] :
       LET s == [p \in Pages |-> IF p \in tracked THEN new[p] ELSE score[p]] IN
       /\ prev_score' = [p \in Pages |-> IF p \in tracked THEN score[p] ELSE prev_score[p]]
       /\ score' = s
       /\ \E T \in Tops(s) :
          /\ top' = T
          /\ hot_age' = Age(T, s)
          /\ can_promote' = Permitted(T, s)
          /\ inherited' = (inherited \ (tracked \ T)) \ StayedHot(T, s)
          /\ streak' = [p \in Pages |-> IF p \in T THEN (IF streak[p] = 0 THEN 1 ELSE 2)
                                        ELSE IF p \in tracked THEN 0 ELSE streak[p]]
    /\ UNCHANGED tracked

Next == Interval \/ \E p \in Pages : Add(p) \/ Remove(p)
Spec == Init /\ [][Next]_vars

------------------------------------------------------------------------------
\* What the migration loop would promote now, if it is in NVM.
Promotable == {p \in top : can_promote[p] /\ score[p] # 0}

\* "Page has continued to stay hot, so can be promoted": it was among the
\* hottest pages in this interval and in the one before, unless it owes the mark
\* to the page its struct was before; such a mark is gone as soon as the page is
\* not among the hottest.
MarkEarned == \A p \in Promotable : streak[p] = 2 \/ p \in inherited
==============================================================================
