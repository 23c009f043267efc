----------------------------- MODULE PageManager -----------------------------
(***************************************************************************)
(* The HeMem page manager (src/src/policies/hemem-mmgr.c): a node for each *)
(* frame, on the free, active or inactive list of its tier, and a thread   *)
(* that every interval moves nodes between the active and inactive lists   *)
(* by their accessed bits and pages between the tiers.  A migration leaves *)
(* the nodes where they are and swaps their page structs.                  *)
(*                                                                         *)
(* Faults and the thread exclude each other by global_lock.  A removal     *)
(* takes no lock but that of the list it is working on, so every operation *)
(* on a list is a step of its own here and a removal may come between any  *)
(* two of them.  One removal at a time (a bound); sizes are in huge pages; *)
(* a list is a sequence, oldest entry last.                                *)
(***************************************************************************)
EXTENDS Integers, Sequences, SequencesExt

CONSTANTS NFast, NSlow,   \* frames of the tiers
          FASTFREE,       \* ARMS_FASTFREE
          SweepRate,      \* ARMS_COOL_RATE and ARMS_THAW_RATE
          ThawAfter,      \* accesses that make an inactive page active
          FreeMod,        \* the counters of free bytes wrap
          MaxRemove       \* bound: pages removed

Tiers == {"fast", "slow"}
Frames == [m \in Tiers |-> IF m = "fast" THEN NFast ELSE NSlow]
Nodes == ({"fast"} \X (1 .. NFast)) \cup ({"slow"} \X (1 .. NSlow))
Pages == Nodes                               \* a page struct is named for its first node
ManagerAssumption == /\ NFast \in Nat \ {0} /\ NSlow \in Nat \ {0} /\ FreeMod > NFast + NSlow
                     /\ {FreeMod, FASTFREE, SweepRate, ThawAfter, MaxRemove} \subseteq Nat

Names == {"free", "active", "inactive", "transition"} \X Tiers
Nowhere == <<"NULL", "NULL">>
NoNode == <<"NULL", 0>>
Other(m) == IF m = "fast" THEN "slow" ELSE "fast"

VARIABLES list, on,       \* the entries of a list, node->list; "transition" is on the
                          \*   stack of move_cold and move_hot
          at, management, \* node->page and page->management
          present, frame, page_lock, \* of a page: frame is in_dram and devdax_offset;
                          \*   page_lock is held by mmgr_thread
          accesses,       \* accesses[n]
          freebytes,      \* of each tier
          pc, step,       \* the holder of global_lock ("sleep": none): the loop of
                          \*   mmgr_thread or a fault, and how far its turn is
          held, dest,     \* n and nn of that turn, NoNode when it is over
          transition_bytes,
          sweep,          \* cool and thaw: tier, bookmarks, pages swept and before
          remove,         \* the removal: pc, page, node and list read, and met: its
                          \*   page has been in a turn since
          removed,        \* history: removed[m]: pages removed so far
          torn,           \* history: a removal has taken a node that is free, or not
                          \*   the page's any more
          failed          \* what has crashed the process, or "none"

lists == <<list, on>>
structs == <<at, management, present, frame, page_lock>>
turn == <<pc, step, held, dest, transition_bytes, sweep>>
removal == <<remove, removed, torn>>
vars == <<lists, structs, accesses, freebytes, turn, removal, failed>>

Start == [tier |-> "fast", bookmark |-> [m \in Tiers |-> Nowhere], swept |-> 0, old |-> 0]

Idle == [pc |-> "idle", page |-> <<"fast", 1>>, node |-> <<"fast", 1>>, list |-> Nowhere,
         met |-> FALSE]

\* arms_mmgr_init.
Init == /\ list = [l \in Names |-> IF l[1] = "free"
                     THEN [k \in 1 .. Frames[l[2]] |-> <<l[2], Frames[l[2]] + 1 - k>>] ELSE <<>>]
        /\ on = [n \in Nodes |-> <<"free", n[1]>>]
        /\ at = [n \in Nodes |-> n] /\ management = [p \in Pages |-> p]
        /\ present = [p \in Pages |-> FALSE] /\ frame = [p \in Pages |-> p]
        /\ page_lock = [p \in Pages |-> FALSE]
        /\ accesses = [n \in Nodes |-> 0]
        /\ freebytes = Frames
        /\ pc = "sleep" /\ step = "start" /\ sweep = Start /\ transition_bytes = 0
        /\ held = NoNode /\ dest = NoNode
        /\ remove = Idle
        /\ removed = [m \in Tiers |-> 0] /\ torn = FALSE /\ failed = "none"

-----------------------------------------------------------------------------
(* Lists, each operation under the lock of its list.                       *)

mmgr_list_add(l, n) == /\ list' = [list EXCEPT ![l] = <<n>> \o @]
                       /\ on' = [on EXCEPT ![n] = l]
Oldest(l) == Last(list[l])
mmgr_list_remove(l) == /\ list' = [list EXCEPT ![l] = Front(@)]
                       /\ on' = [on EXCEPT ![Oldest(l)] = Nowhere]
Place(s, n) == CHOOSE k \in DOMAIN s : s[k] = n
mmgr_list_remove_node(l, n) == /\ list' = [list EXCEPT ![l] = RemoveAt(@, Place(@, n))]
                               /\ on' = [on EXCEPT ![n] = Nowhere]

-----------------------------------------------------------------------------
(* Faults and removals.                                                    *)

\* The nodes of a turn, and those of them that are in hand.
InTurn == IF step = "took" THEN {held}
          ELSE IF step \in {"pair", "placed", "freed"} THEN {held, dest} ELSE {}
InHand == IF step \in {"took", "placed"} THEN {held}
          ELSE IF step = "pair" THEN {held, dest} ELSE {}
Removing == remove.pc # "idle"

\* The holder of global_lock takes the oldest node of a list.
Take(l) == /\ mmgr_list_remove(l)
           /\ held' = Oldest(l) /\ step' = "took"
           /\ remove' = [remove EXCEPT !.met = @ \/ (Removing /\ at[Oldest(l)] = remove.page)]

\* arms_mmgr_pagefault and mmgr_allocate_page, under global_lock: a free node is
\* taken, of the slow tier if there is no fast one, and becomes active.
arms_mmgr_pagefault ==
    LET m == IF list[<<"free", "fast">>] # <<>> THEN "fast" ELSE "slow" IN
    /\ pc = "sleep"
    /\ IF list[<<"free", m>>] = <<>>
       THEN failed' = "out of memory" /\ UNCHANGED <<lists, pc, step, held, remove>>
       ELSE pc' = "fault" /\ Take(<<"free", m>>) /\ UNCHANGED failed
    /\ UNCHANGED <<structs, accesses, freebytes, dest, transition_bytes, sweep, removed, torn>>
Allocate ==
    LET p == at[held] m == held[1] IN
    /\ pc = "fault"
    /\ IF present[p] \/ frame[p][1] # m
       THEN failed' = "assert page" /\ UNCHANGED <<lists, present, freebytes, pc, step, held>>
       ELSE /\ present' = [present EXCEPT ![p] = TRUE]
            /\ mmgr_list_add(<<"active", m>>, held)
            /\ freebytes' = [freebytes EXCEPT ![m] = (@ - 1) % FreeMod]
            /\ pc' = "sleep" /\ step' = "start" /\ held' = NoNode
            /\ UNCHANGED failed
    /\ UNCHANGED <<at, management, frame, page_lock, accesses, dest, transition_bytes, sweep, removal>>

\* arms_mmgr_remove_page, of a mapped page: it reads the page's node,
arms_mmgr_remove_page(p) ==
    /\ ~Removing /\ present[p] /\ removed["fast"] + removed["slow"] < MaxRemove
    /\ remove' = [pc |-> "node", page |-> p, node |-> management[p], list |-> Nowhere,
                  met |-> \E n \in InTurn : at[n] = p]
    /\ UNCHANGED <<lists, structs, accesses, freebytes, turn, removed, torn, failed>>

\* the node's list, which must not be NULL,
ReadList ==
    /\ remove.pc = "node"
    /\ IF on[remove.node] = Nowhere THEN failed' = "no list" /\ UNCHANGED remove
       ELSE /\ remove' = [remove EXCEPT !.pc = "list", !.list = on[remove.node]]
            /\ UNCHANGED failed
    /\ UNCHANGED <<lists, structs, accesses, freebytes, turn, removed, torn>>

\* takes the node off that list (which loses its count or its links if the node has
\* left it; if it is empty too, the node gets on a second list: the model ends),
Unlink ==
    /\ remove.pc = "list"
    /\ IF on[remove.node] # remove.list
       THEN failed' = "wrong list" /\ UNCHANGED <<lists, remove, torn>>
       ELSE /\ mmgr_list_remove_node(remove.list, remove.node)
            /\ remove' = [remove EXCEPT !.pc = "out"]
            /\ torn' = (torn \/ at[remove.node] # remove.page \/ remove.list[1] = "free")
            /\ UNCHANGED failed
    /\ UNCHANGED <<structs, accesses, freebytes, turn, removed>>

\* and frees it on the list of the tier the page is in.  Its bytes are not counted
\* as free, and its page_lock stays held if it was about to be migrated.
FreeNode ==
    LET m == frame[remove.page][1] IN
    /\ remove.pc = "out"
    /\ present' = [present EXCEPT ![remove.page] = FALSE]
    /\ mmgr_list_add(<<"free", m>>, remove.node)
    /\ removed' = [removed EXCEPT ![m] = @ + 1]
    /\ remove' = Idle
    /\ UNCHANGED <<at, management, frame, page_lock, accesses, freebytes, turn, torn, failed>>

-----------------------------------------------------------------------------
(* mmgr_thread: cool, thaw, move_cold, move_hot.                           *)

Wake == /\ pc = "sleep" /\ pc' = "cool" /\ sweep' = Start
        /\ UNCHANGED <<lists, structs, accesses, freebytes, step, held, dest, transition_bytes,
                       removal, failed>>

\* The loops of cool and thaw look at the tiers in turn; after both they stop if
\* enough has been swept or nothing new was.
Swept(keep) ==
    [sweep EXCEPT !.swept = @ + 1,
                  !.bookmark[sweep.tier] = IF keep /\ @ = Nowhere THEN held ELSE @]
Turn(s) == IF s.tier = "fast" THEN [s EXCEPT !.tier = "slow"]
           ELSE [s EXCEPT !.tier = "fast", !.old = s.swept]
Stops(s) == s.tier = "slow" /\ (s.swept >= SweepRate \/ s.swept = s.old)
GoOn(s, next) == /\ step' = "start"
                 /\ IF Stops(s) THEN pc' = next /\ sweep' = Start
                    ELSE pc' = pc /\ sweep' = Turn(s)
Seen(l) == list[l] # <<>> => sweep.bookmark[sweep.tier] = Oldest(l)

\* The head of both loops: mmgr_list_peek, then mmgr_list_remove, whose NULL they do
\* not expect.
NextNode(l, next) ==
    /\ \/ /\ step = "start" /\ Seen(l) /\ GoOn(sweep, next)
          /\ UNCHANGED <<lists, held, remove, failed>>
       \/ /\ step = "start" /\ ~Seen(l) /\ step' = "peeked"
          /\ UNCHANGED <<lists, pc, held, sweep, remove, failed>>
       \/ /\ step = "peeked" /\ list[l] = <<>> /\ failed' = "null node"
          /\ UNCHANGED <<lists, pc, step, held, sweep, remove>>
       \/ /\ step = "peeked" /\ list[l] # <<>> /\ Take(l)
          /\ UNCHANGED <<pc, sweep, failed>>
    /\ UNCHANGED <<structs, accesses, freebytes, dest, transition_bytes, removed, torn>>

cool == /\ pc = "cool"
        /\ \/ NextNode(<<"active", sweep.tier>>, "thaw")
           \/ /\ step = "took"
              /\ \E accessed \in BOOLEAN :
                   /\ mmgr_list_add(<<IF accessed THEN "active" ELSE "inactive", sweep.tier>>, held)
                   /\ held' = NoNode
                   /\ GoOn(Swept(accessed), "thaw")
              /\ UNCHANGED <<structs, accesses, freebytes, dest, transition_bytes, removal, failed>>

Pressure == IF freebytes["fast"] < FASTFREE THEN "cold" ELSE "hot"

\* A page is active again at its third access (ThawAfter is 2 in the code).
thaw == /\ pc = "thaw"
        /\ \/ NextNode(<<"inactive", sweep.tier>>, Pressure)
           \/ /\ step = "took"
              /\ \E accessed \in BOOLEAN :
                   LET hot == accessed /\ accesses[held] >= ThawAfter IN
                   /\ mmgr_list_add(<<IF hot THEN "active" ELSE "inactive", sweep.tier>>, held)
                   /\ held' = NoNode
                   /\ accesses' = [accesses EXCEPT ![held] =
                                     IF hot THEN 0 ELSE IF accessed THEN @ + 1 ELSE @]
                   /\ GoOn(Swept(~hot), Pressure)
              /\ UNCHANGED <<structs, freebytes, dest, transition_bytes, removal, failed>>

\* The start of a migration: the oldest page of a list, locked and write-protected.
\* The lock is not recursive.
Pick(l) == /\ step = "start" /\ list[l] # <<>> /\ Take(l)
           /\ UNCHANGED <<structs, accesses, freebytes, pc, dest, transition_bytes, sweep,
                          removed, torn, failed>>
Mark(m, next) == LET p == at[held] IN
    /\ step = "took" /\ step' = "start" /\ held' = NoNode
    /\ mmgr_list_add(<<"transition", m>>, held)
    /\ failed' = IF page_lock[p] THEN "locked twice" ELSE failed
    /\ page_lock' = [page_lock EXCEPT ![p] = TRUE]
    /\ transition_bytes' = transition_bytes + 1
    /\ pc' = next
    /\ UNCHANGED <<at, management, present, frame, accesses, freebytes, dest, sweep, removal>>
GoTo(next) == /\ step = "start" /\ pc' = next
              /\ UNCHANGED <<lists, structs, accesses, freebytes, step, held, dest, sweep,
                             removal, failed>>

\* move_cold: inactive pages until enough is free with them, or until none is left.
Enough == (freebytes["fast"] + transition_bytes + 1) % FreeMod >= FASTFREE
PickCold ==
    /\ pc = "cold"
    /\ \/ Pick(<<"inactive", "fast">>)
       \/ Mark("fast", IF Enough THEN "down" ELSE "cold")
       \/ /\ list[<<"inactive", "fast">>] = <<>> /\ UNCHANGED transition_bytes
          /\ GoTo(IF transition_bytes # 0 THEN "down"
                  ELSE IF freebytes["fast"] <= FASTFREE THEN "emergency" ELSE "hot")

\* Nothing is inactive: active pages.
PickAny ==
    /\ pc = "emergency"
    /\ \/ Pick(<<"active", "fast">>)
       \/ Mark("fast", IF Enough THEN "down" ELSE "emergency")
       \/ /\ list[<<"active", "fast">>] = <<>> /\ UNCHANGED transition_bytes
          /\ GoTo("down")

\* move_hot: active pages while more than one page stays free.
PickHot ==
    /\ pc = "hot"
    /\ IF transition_bytes + 1 < freebytes["fast"] \/ step = "took"
       THEN \/ Pick(<<"active", "slow">>)
            \/ Mark("slow", "hot")
            \/ list[<<"active", "slow">>] = <<>> /\ UNCHANGED transition_bytes /\ GoTo("up")
       ELSE UNCHANGED transition_bytes /\ GoTo("up")

\* A page goes to a frame of the other tier: a free node is found and the data copied,
Pair(from) ==
    LET to == Other(from) nn == Oldest(<<"free", to>>) IN
    /\ step = "took"
    /\ IF list[<<"free", to>>] = <<>>
       THEN failed' = (IF to = "fast" THEN "no fast frame" ELSE "no slow frame")
            /\ UNCHANGED <<lists, frame, freebytes, step, dest, remove>>
       ELSE IF (to = "slow" /\ present[at[nn]]) \/ frame[at[held]][1] # from
       THEN failed' = "assert page" /\ UNCHANGED <<lists, frame, freebytes, step, dest, remove>>
       ELSE /\ mmgr_list_remove(<<"free", to>>)
            /\ freebytes' = [freebytes EXCEPT ![to] = (@ - 1) % FreeMod, ![from] = (@ + 1) % FreeMod]
            /\ frame' = [frame EXCEPT ![at[held]] = nn]
            /\ dest' = nn /\ step' = "pair"
            /\ remove' = [remove EXCEPT !.met = @ \/ (Removing /\ at[nn] = remove.page)]
            /\ UNCHANGED failed
    /\ UNCHANGED <<at, management, present, page_lock, accesses, pc, held, transition_bytes, sweep,
                   removed, torn>>

\* the nodes change lists,
PutNode(here, next, l, n) ==
    /\ step = here /\ step' = next
    /\ mmgr_list_add(l, n)
    /\ UNCHANGED <<structs, accesses, freebytes, pc, held, dest, transition_bytes, sweep, removal,
                   failed>>

\* A bug to catch: the struct left on the freed node keeps its frame.
SwapKeepsFrame ==
    LET p == at[held] q == at[dest] IN
    /\ step = "freed" /\ step' = "start" /\ held' = NoNode /\ dest' = NoNode
    /\ at' = [at EXCEPT ![held] = q, ![dest] = p]
    /\ management' = [management EXCEPT ![p] = dest, ![q] = held]
    /\ present' = [present EXCEPT ![q] = FALSE]
    /\ page_lock' = [page_lock EXCEPT ![p] = FALSE]
    /\ UNCHANGED <<lists, frame, accesses, freebytes, pc, transition_bytes, sweep, removal, failed>>

\* and then their page structs.
Swap ==
    LET p == at[held] q == at[dest] IN
    /\ step = "freed" /\ step' = "start" /\ held' = NoNode /\ dest' = NoNode
    /\ at' = [at EXCEPT ![held] = q, ![dest] = p]
    /\ management' = [management EXCEPT ![p] = dest, ![q] = held]
    /\ present' = [present EXCEPT ![q] = FALSE]
    /\ frame' = [frame EXCEPT ![q] = held]
    /\ page_lock' = [page_lock EXCEPT ![p] = FALSE]
    /\ UNCHANGED <<lists, accesses, freebytes, pc, transition_bytes, sweep, removal, failed>>

Move(from, kind, next) ==
    \/ Pick(<<"transition", from>>)
    \/ Pair(from)
    \/ PutNode("pair", "placed", <<kind, Other(from)>>, dest)
    \/ PutNode("placed", "freed", <<"free", from>>, held)
    \/ Swap
    \/ list[<<"transition", from>>] = <<>> /\ transition_bytes' = 0 /\ GoTo(next)
MoveDown == pc = "down" /\ Move("fast", "inactive", "hot")
MoveUp == pc = "up" /\ Move("slow", "active", "sleep")

Next == /\ failed = "none"
        /\ \/ arms_mmgr_pagefault \/ Allocate
           \/ \E p \in Pages : arms_mmgr_remove_page(p)
           \/ ReadList \/ Unlink \/ FreeNode
           \/ Wake \/ cool \/ thaw \/ PickCold \/ PickAny \/ MoveDown \/ PickHot \/ MoveUp
Spec == Init /\ [][Next]_vars

-----------------------------------------------------------------------------
Members(l) == {list[l][k] : k \in DOMAIN list[l]}
Moving == step \in {"pair", "placed", "freed"}
Tier == IF pc = "up" THEN "slow" ELSE "fast"     \* that a migration leaves
Out == IF remove.pc = "out" THEN {remove.node} ELSE {}
NoRemoval == ~Removing /\ \A m \in Tiers : removed[m] = 0

\* Node->list names the one list a node is on, once; the others are in the hand of
\* the thread or of the removal.
Placed ==
    /\ \A l \in Names : IsInjective(list[l]) /\ Members(l) = {n \in Nodes : on[n] = l}
    /\ {n \in Nodes : on[n] = Nowhere} = InHand \cup Out
    /\ InHand \cap Out = {}

\* A page has the frame of its node, but for the one being migrated.
FramesRight == \A n \in Nodes :
    /\ management[at[n]] = n
    /\ frame[at[n]] = IF Moving /\ n = held THEN dest ELSE n

\* Until a removal has torn a migration, a node is on a list of its tier, free iff its
\* page is not present (the nodes of a migration before the swap aside), and the
\* counters of free bytes are short by exactly the pages removed.
TiersRight ==
    /\ \A n \in Nodes : on[n] # Nowhere =>
         /\ on[n][2] = n[1]
         /\ ~(Moving /\ n \in {held, dest}) => (on[n][1] = "free" <=> ~present[at[n]])
    /\ \A m \in Tiers : freebytes[m] =
         (Len(list[<<"free", m>>])
            + (IF (step \in {"pair", "placed"} /\ m = Tier) \/ (pc = "fault" /\ m = held[1])
               THEN 1 ELSE 0)
            - removed[m]) % FreeMod

\* Which crashes are possible: one of the removal (the assertion that its node is on
\* a list, and a node that has left the list read) only if the thread has been
\* moving the page since the removal began, an assertion about a page only after a
\* torn migration, and without removals only those of a full tier.
CrashesRight ==
    /\ failed \in {"no list", "wrong list"} => remove.met
    /\ failed = "assert page" => torn
    /\ NoRemoval => failed \in {"none", "out of memory", "no slow frame"}

ManagerSafe == Placed /\ FramesRight /\ (~torn => TiersRight) /\ CrashesRight
==============================================================================
