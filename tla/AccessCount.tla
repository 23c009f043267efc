----------------------------- MODULE AccessCount -----------------------------
(***************************************************************************)
(* The access counters of pebs.c.  pebs_scan_thread takes samples from the *)
(* perf rings and increments accesses[type][curr_access_version] of the    *)
(* page at the sampled address, without a lock.  The policy thread flips   *)
(* the version at the start of an interval, drains mod_page_dq and then    *)
(* reads and clears the counters of the other version.                     *)
(*                                                                         *)
(* Counters have CounterBits bits (uint16_t); the three sample types are   *)
(* counted apart in the same way, here there is one.  A page is named by   *)
(* its struct: an address is mapped by at most one struct at a time.  The  *)
(* increment is a data race with the policy thread's stores, so its load   *)
(* and its store are separate steps.                                       *)
(***************************************************************************)
EXTENDS Integers, Sequences

CONSTANTS Pages,        \* the structs
          CounterBits   \* width of a counter

CounterAssumption == /\ CounterBits \in Nat \ {0}
                     /\ Pages \cap {"asleep", "drain", "reset", "score"} = {}

VARIABLES accesses,             \* accesses[p][version]
          curr_access_version,
          pages,                \* the pages pebs_find_page finds
          free,                 \* the pages on a free list
          mod_page_dq,          \* additions and removals to be drained
          pages_map,            \* the pages the policy thread knows
          scan,                 \* the scan thread: step, page, version, value
          policy, todo,         \* the policy thread: step, pages left to score
          counted,              \* what update_window read of the page in hand
          truth,                \* history: samples counted for the page since
                                \* its counter was cleared
          disturbed             \* history: the counter was cleared in the middle
                                \* of an increment, or late

tables == <<pages, free, mod_page_dq, pages_map>>
vars == <<accesses, curr_access_version, tables, scan, policy, todo, counted,
          truth, disturbed>>

Versions == {0, 1}
prev_access_version == 1 - curr_access_version
Inc(n) == (n + 1) % 2 ^ CounterBits
Each(x) == [p \in Pages |-> [v \in Versions |-> x]]

Init == /\ accesses = Each(0) /\ curr_access_version = 0
        /\ pages = {} /\ free = Pages /\ mod_page_dq = <<>> /\ pages_map = {}
        /\ scan = [step |-> "poll"]
        /\ policy = "asleep" /\ todo = {} /\ counted = 0
        /\ truth = Each(0) /\ disturbed = Each(FALSE)

-----------------------------------------------------------------------------
(* The scan thread.                                                        *)

\* A record is in a ring and pebs_find_page finds its page; a sample of any
\* other address is only counted in the statistics.
FindPage(p) == /\ scan.step = "poll"
               /\ p \in pages
               /\ scan' = [step |-> "found", page |-> p]
               /\ UNCHANGED <<accesses, curr_access_version, tables, policy, todo,
                              counted, truth, disturbed>>

\* A bug to catch: the sample goes to the counters that are being read.
ReadOtherVersion == /\ scan.step = "found"
                    /\ scan' = [step |-> "version", page |-> scan.page,
                                version |-> prev_access_version]
                    /\ UNCHANGED <<accesses, curr_access_version, tables, policy,
                                   todo, counted, truth, disturbed>>

ReadVersion == /\ scan.step = "found"
               /\ scan' = [step |-> "version", page |-> scan.page,
                           version |-> curr_access_version]
               /\ UNCHANGED <<accesses, curr_access_version, tables, policy, todo,
                              counted, truth, disturbed>>

LoadCounter ==
    LET p == scan.page v == scan.version IN
    /\ scan.step = "version"
    /\ scan' = [step |-> "store", page |-> p, version |-> v, value |-> accesses[p][v]]
    /\ truth' = [truth EXCEPT ![p][v] = Inc(@)]
    /\ disturbed' = [disturbed EXCEPT ![p][v] = @ \/ p \notin pages]
    /\ UNCHANGED <<accesses, curr_access_version, tables, policy, todo, counted>>

StoreCounter ==
    /\ scan.step = "store"
    /\ accesses' = [accesses EXCEPT ![scan.page][scan.version] = Inc(scan.value)]
    /\ scan' = [step |-> "poll"]
    /\ UNCHANGED <<curr_access_version, tables, policy, todo, counted, truth, disturbed>>

\* The scan thread is about to write this counter.
UnderWay(p, v) == scan.step = "store" /\ scan.page = p /\ scan.version = v
\* The scan thread holds the page for a sample of its former owner.
Held(p) == scan.step # "poll" /\ scan.page = p

-----------------------------------------------------------------------------
(* Faults and munmap.                                                      *)

\* The struct of a free page is used for a new address.
pebs_add_page(p) ==
    /\ p \in free
    /\ free' = free \ {p} /\ pages' = pages \cup {p}
    /\ mod_page_dq' = Append(mod_page_dq, [page |-> p, free |-> FALSE])
    /\ truth' = [truth EXCEPT ![p] = [v \in Versions |-> 0]]
    /\ disturbed' = [disturbed EXCEPT ![p] = [v \in Versions |->
                        @[v] \/ Held(p) \/ (policy = "reset" /\ p \in todo)]]
    /\ UNCHANGED <<accesses, curr_access_version, pages_map, scan, policy, todo, counted>>

pebs_remove_page(p) ==
    /\ p \in pages
    /\ pages' = pages \ {p}
    /\ mod_page_dq' = Append(mod_page_dq, [page |-> p, free |-> TRUE])
    /\ UNCHANGED <<accesses, curr_access_version, free, pages_map, scan, policy, todo,
                   counted, truth, disturbed>>

-----------------------------------------------------------------------------
(* The policy thread.                                                      *)

StartInterval ==
    /\ policy = "asleep"
    /\ policy' = "drain"
    /\ curr_access_version' = 1 - curr_access_version
    /\ UNCHANGED <<accesses, tables, scan, todo, counted, truth, disturbed>>

DrainAdded ==
    /\ policy = "drain" /\ mod_page_dq # <<>> /\ ~Head(mod_page_dq).free
    /\ mod_page_dq' = Tail(mod_page_dq)
    /\ pages_map' = pages_map \cup {Head(mod_page_dq).page}
    /\ UNCHANGED <<accesses, curr_access_version, pages, free, scan, policy, todo,
                   counted, truth, disturbed>>

\* A removed page is enqueued on a free list first ...
DrainRemoved ==
    LET p == Head(mod_page_dq).page IN
    /\ policy = "drain" /\ mod_page_dq # <<>> /\ Head(mod_page_dq).free
    /\ mod_page_dq' = Tail(mod_page_dq)
    /\ pages_map' = pages_map \ {p}
    /\ free' = free \cup {p}
    /\ policy' = "reset" /\ todo' = {p}
    /\ UNCHANGED <<accesses, curr_access_version, pages, scan, counted, truth, disturbed>>

\* ... and its counters are reset then, whoever has it by now.
reset_page_access_fields ==
    /\ policy = "reset"
    /\ \E p \in todo :
       /\ accesses' = [accesses EXCEPT ![p] = [v \in Versions |-> 0]]
       /\ truth' = IF p \in free THEN [truth EXCEPT ![p] = [v \in Versions |-> 0]] ELSE truth
       /\ disturbed' = [disturbed EXCEPT ![p] =
                           [v \in Versions |-> p \notin free \/ UnderWay(p, v)]]
    /\ policy' = "drain" /\ todo' = {}
    /\ UNCHANGED <<curr_access_version, tables, scan, counted>>

\* calculate_scores_map begins; a page that is not present is skipped.
StartScores ==
    /\ policy = "drain" /\ mod_page_dq = <<>>
    /\ policy' = "score" /\ todo' = pages_map \cap pages
    /\ UNCHANGED <<accesses, curr_access_version, tables, scan, counted, truth, disturbed>>

update_window(p) ==
    /\ policy = "score" /\ p \in todo
    /\ counted' = accesses[p][prev_access_version]
    /\ policy' = p
    /\ UNCHANGED <<accesses, curr_access_version, tables, scan, todo, truth, disturbed>>

Clear(p) ==
    /\ policy = p
    /\ accesses' = [accesses EXCEPT ![p][prev_access_version] = 0]
    /\ policy' = "score" /\ todo' = todo \ {p} /\ counted' = 0
    /\ truth' = [truth EXCEPT ![p][prev_access_version] = 0]
    /\ disturbed' = [disturbed EXCEPT ![p][prev_access_version] =
                        UnderWay(p, prev_access_version)]
    /\ UNCHANGED <<curr_access_version, tables, scan>>

EndScores == /\ policy = "score" /\ todo = {}
             /\ policy' = "asleep"
             /\ UNCHANGED <<accesses, curr_access_version, tables, scan, todo, counted,
                            truth, disturbed>>

Next == \/ ReadVersion \/ LoadCounter \/ StoreCounter
        \/ StartInterval \/ DrainAdded \/ DrainRemoved \/ reset_page_access_fields
        \/ StartScores \/ EndScores
        \/ \E p \in Pages : \/ FindPage(p) \/ pebs_add_page(p) \/ pebs_remove_page(p)
                            \/ update_window(p) \/ Clear(p)

Spec == Init /\ [][Next]_vars

-----------------------------------------------------------------------------
\* Two versions are enough: a counter holds the samples of its page since it
\* was cleared, save for the increment under way, unless the policy thread
\* cleared it during an increment or after its struct had a new owner; and of
\* the samples counted for the interval at most that one increment is missed.
CountsRight ==
    /\ \A p \in pages, v \in Versions :
         \/ disturbed[p][v]
         \/ truth[p][v] = IF UnderWay(p, v) THEN Inc(accesses[p][v]) ELSE accesses[p][v]
    /\ policy \in pages =>
         \/ disturbed[policy][prev_access_version]
         \/ truth[policy][prev_access_version] \in {counted, Inc(counted)}
==============================================================================
