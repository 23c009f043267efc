--------------------------------- MODULE Lru ---------------------------------
(***************************************************************************)
(* The LRU policy of src/src/policies/lru.c.  lru_kscand walks the lists   *)
(* of pages every interval and moves each page by its accessed and dirty   *)
(* bits, without the global lock; lru_kswapd, under the lock, moves hot    *)
(* NVM pages up and cold DRAM pages down to make room; faults allocate and *)
(* lru_remove_page gives back pages under the lock, the latter after       *)
(* waiting for the scan to end.                                            *)
(*                                                                         *)
(* A struct is named by its place in the initial free lists; what the      *)
(* hardware bits of a page are when they are read is arbitrary.  The scan  *)
(* is the only one to run without the lock: between two list operations of *)
(* it, and two of kswapd or a removal on lists it walks, the others may    *)
(* step in.                                                                *)
(***************************************************************************)
EXTENDS Integers, Sequences, SequencesExt

CONSTANTS NDram, NNvm,   \* frames of each kind
          ActiveAfter    \* accesses that make an inactive page active (4)

LruAssumption == NDram \in Nat \ {0} /\ NNvm \in Nat \ {0} /\ ActiveAfter \in Nat

VARIABLES list, on,      \* list[<<name, DRAM?>>]: last dequeued is last; page->list
          in_dram, devdax_offset, present, naccesses,
          in_kscand, scan,      \* scan: list walked, pages left, numentries found
                                \*   positive (by shrink_caches), page in hand
          global_lock,          \* "none", "kswapd" or "remove"
          kswapd,               \* step, hot page and its list, cold page, tries
          remove,               \* lru_remove_page: step, page, its list, and whether
                                \*   this scan has started since it waited (late)
          failed                \* what has crashed the process, or "none"

lists == <<list, on>>
pageVars == <<in_dram, devdax_offset, present, naccesses>>
scanVars == <<in_kscand, scan>>
vars == <<lists, pageVars, scanVars, global_lock, kswapd, remove, failed>>

Pages == 1 .. NDram + NNvm
Names == {"active", "inactive", "written", "free"}
Lists == Names \X BOOLEAN
NoPage == 0
Nowhere == <<"NULL", FALSE>>

\* enqueue_fifo puts at the front, dequeue_fifo takes from the back.
enqueue_fifo(l, p) == /\ list' = [list EXCEPT ![l] = <<p>> \o @]
                      /\ on' = [on EXCEPT ![p] = l]
dequeue_fifo(l) == /\ list' = [list EXCEPT ![l] = Front(@)]
                   /\ on' = [on EXCEPT ![Last(list[l])] = Nowhere]
\* Both, from one list to another.
Requeue(l, m) == LET p == Last(list[l]) IN
    /\ list' = [list EXCEPT ![l] = Front(@), ![m] = <<p>> \o @]
    /\ on' = [on EXCEPT ![p] = m]

NoScan == [walk |-> 0, left |-> 0, checked |-> FALSE, hand |-> NoPage]
Asleep == [step |-> "sleep", p |-> NoPage, from |-> Nowhere, cold |-> NoPage, tries |-> 0]
Init == /\ list = [l \in Lists |->
                     IF l = <<"free", TRUE>> THEN [i \in 1 .. NDram |-> i]
                     ELSE IF l = <<"free", FALSE>> THEN [i \in 1 .. NNvm |-> NDram + i]
                     ELSE <<>>]
        /\ on = [p \in Pages |-> <<"free", p <= NDram>>]
        /\ in_dram = [p \in Pages |-> p <= NDram]
        /\ devdax_offset = [p \in Pages |-> IF p <= NDram THEN p ELSE p - NDram]
        /\ present = [p \in Pages |-> FALSE]
        /\ naccesses = [p \in Pages |-> 0]
        /\ in_kscand = FALSE /\ scan = NoScan
        /\ global_lock = "none"
        /\ kswapd = Asleep
        /\ remove = [step |-> "idle", page |-> 1, list |-> Nowhere, late |-> FALSE]
        /\ failed = "none"

-----------------------------------------------------------------------------
(* Page faults.                                                            *)

\* A free DRAM page, or an NVM page if there is none.
lru_pagefault(dram) ==
    /\ global_lock = "none"
    /\ list[<<"free", dram>>] # <<>>
    /\ ~dram => list[<<"free", TRUE>>] = <<>>
    /\ present' = [present EXCEPT ![Last(list[<<"free", dram>>])] = TRUE]
    /\ Requeue(<<"free", dram>>, <<"active", dram>>)
    /\ UNCHANGED <<in_dram, devdax_offset, naccesses, scanVars, global_lock, kswapd,
                   remove, failed>>

-----------------------------------------------------------------------------
(* lru_kscand: check_writes, shrink_caches and expand_caches, each for DRAM*)
(* and for NVM.                                                            *)

Walks == << <<"written", TRUE>>, <<"written", FALSE>>, <<"active", TRUE>>,
            <<"active", FALSE>>, <<"inactive", TRUE>>, <<"inactive", FALSE>> >>
Walked == Walks[scan.walk]

\* The next walk is over the pages on its list when it starts.
BeginWalk(n) == scan' = [walk |-> n, left |-> Len(list[Walks[n]]), checked |-> FALSE,
                         hand |-> NoPage]

StartScan == /\ ~in_kscand
             /\ in_kscand' = TRUE
             /\ BeginWalk(1)
             /\ remove' = [remove EXCEPT !.late = remove.step # "idle"]
             /\ UNCHANGED <<lists, pageVars, global_lock, kswapd, failed>>

\* shrink_caches tests numentries before it dequeues, and takes the page it gets to
\* be one; the other walks test the page.
Walking == in_kscand /\ scan.hand = NoPage
CheckPage == /\ Walking /\ scan.left > 0 /\ ~scan.checked
             /\ Walked[1] = "active" /\ list[Walked] # <<>>
             /\ scan' = [scan EXCEPT !.checked = TRUE]
             /\ UNCHANGED <<lists, pageVars, in_kscand, global_lock, kswapd, remove, failed>>

TakePage == /\ Walking /\ scan.left > 0
            /\ Walked[1] = "active" => scan.checked
            /\ list[Walked] # <<>>
            /\ scan' = [scan EXCEPT !.hand = Last(list[Walked]), !.left = @ - 1, !.checked = FALSE]
            /\ dequeue_fifo(Walked)
            /\ UNCHANGED <<pageVars, in_kscand, global_lock, kswapd, remove, failed>>

NullPage == /\ Walking /\ scan.checked /\ list[Walked] = <<>>
            /\ failed' = "null_page"
            /\ UNCHANGED <<lists, pageVars, scanVars, global_lock, kswapd, remove>>

\* Where a page with these bits goes from the list it was on.
Destination(p, accessed, dirty) ==
    IF ~accessed THEN "inactive"
    ELSE IF dirty THEN "written"
    ELSE IF Walked[1] = "inactive" /\ naccesses[p] < ActiveAfter THEN "inactive"
    ELSE "active"

\* What becomes of its count of accesses while inactive.
Counted(p, accessed, dirty) ==
    IF Walked[1] = "written" \/ (accessed /\ dirty) THEN naccesses[p]
    ELSE IF ~accessed THEN 0
    ELSE IF Walked[1] = "active" THEN naccesses[p]
    ELSE IF naccesses[p] >= ActiveAfter THEN 0 ELSE naccesses[p] + 1

PlacePage ==
    LET p == scan.hand IN
    /\ in_kscand /\ p # NoPage
    /\ \E accessed, dirty \in BOOLEAN :
       /\ enqueue_fifo(<<Destination(p, accessed, dirty), Walked[2]>>, p)
       /\ naccesses' = [naccesses EXCEPT ![p] = Counted(p, accessed, dirty)]
    /\ scan' = [scan EXCEPT !.hand = NoPage]
    /\ UNCHANGED <<in_dram, devdax_offset, present, in_kscand, global_lock, kswapd,
                   remove, failed>>

\* A walk ends when it has seen as many pages as it began with or the list is
\* empty; the bits are cleared after the last one.
EndWalk == /\ Walking /\ ~scan.checked
           /\ scan.left = 0 \/ list[Walked] = <<>>
           /\ IF scan.walk < Len(Walks)
              THEN BeginWalk(scan.walk + 1) /\ UNCHANGED in_kscand
              ELSE in_kscand' = FALSE /\ scan' = NoScan
           /\ UNCHANGED <<lists, pageVars, global_lock, kswapd, remove, failed>>

-----------------------------------------------------------------------------
(* lru_kswapd.                                                             *)

StartSwap == /\ kswapd.step = "sleep" /\ global_lock = "none"
             /\ global_lock' = "kswapd"
             /\ kswapd' = [Asleep EXCEPT !.step = "pick"]
             /\ UNCHANGED <<lists, pageVars, scanVars, remove, failed>>

\* The written pages of NVM first, then the active ones.
PickHot(step, l) ==
    /\ kswapd.step = step
    /\ IF list[l] # <<>>
       THEN /\ kswapd' = [Asleep EXCEPT !.step = "try", !.p = Last(list[l]), !.from = l]
            /\ dequeue_fifo(l)
       ELSE /\ step = "pick" /\ kswapd' = [kswapd EXCEPT !.step = "active"]
            /\ UNCHANGED lists
    /\ UNCHANGED <<pageVars, scanVars, global_lock, remove, failed>>

\* No hot page, or KSWAPD_MIGRATE_RATE is reached.
EndSwap == /\ \/ kswapd.step = "pick"
              \/ kswapd.step = "active" /\ list[<<"active", FALSE>>] = <<>>
           /\ kswapd' = Asleep
           /\ global_lock' = "none"
           /\ UNCHANGED <<lists, pageVars, scanVars, remove, failed>>

\* A bug to catch: the free struct keeps the offset it gave away.
ExchangeKeepsOffset(p, np) ==
    /\ in_dram' = [in_dram EXCEPT ![p] = ~@, ![np] = ~@]
    /\ devdax_offset' = [devdax_offset EXCEPT ![p] = devdax_offset[np]]
    /\ present' = [present EXCEPT ![np] = FALSE]
    /\ UNCHANGED naccesses

\* p changes frames with the free struct np.
Exchange(p, np) ==
    /\ in_dram' = [in_dram EXCEPT ![p] = ~@, ![np] = ~@]
    /\ devdax_offset' = [devdax_offset EXCEPT ![p] = devdax_offset[np], ![np] = devdax_offset[p]]
    /\ present' = [present EXCEPT ![np] = FALSE]
    /\ UNCHANGED naccesses

\* p is put on list l, and the free struct it has changed with on the free list of
\* the memory that p has left.
Exchanged(p, l) ==
    LET np == Last(list[<<"free", l[2]>>]) IN
    /\ list[<<"free", l[2]>>] # <<>>
    /\ Exchange(p, np)
    /\ list' = [list EXCEPT ![<<"free", l[2]>>] = Front(@), ![l] = <<p>> \o @,
                            ![<<"free", ~l[2]>>] = <<np>> \o @]
    /\ on' = [on EXCEPT ![p] = l, ![np] = <<"free", ~l[2]>>]

MigrateUp ==
    /\ kswapd.step = "try"
    /\ Exchanged(kswapd.p, <<"active", TRUE>>)
    /\ kswapd' = [Asleep EXCEPT !.step = "pick"]
    /\ UNCHANGED <<scanVars, global_lock, remove, failed>>

\* No DRAM is free: a cold page has to go.
TakeCold ==
    /\ kswapd.step = "try"
    /\ list[<<"free", TRUE>>] = <<>> /\ list[<<"inactive", TRUE>>] # <<>>
    /\ kswapd' = [kswapd EXCEPT !.step = "cold", !.cold = Last(list[<<"inactive", TRUE>>])]
    /\ dequeue_fifo(<<"inactive", TRUE>>)
    /\ UNCHANGED <<pageVars, scanVars, global_lock, remove, failed>>

\* All DRAM pages are hot: p goes back.
GiveUp == /\ kswapd.step = "try"
          /\ list[<<"free", TRUE>>] = <<>> /\ list[<<"inactive", TRUE>>] = <<>>
          /\ enqueue_fifo(kswapd.from, kswapd.p)
          /\ kswapd' = Asleep
          /\ global_lock' = "none"
          /\ UNCHANGED <<pageVars, scanVars, remove, failed>>

\* Once more round the loop of two tries, or p is dropped.
NextTry == IF kswapd.tries = 0 THEN [kswapd EXCEPT !.step = "try", !.cold = NoPage, !.tries = 1]
           ELSE [Asleep EXCEPT !.step = "pick"]
MigrateDown ==
    /\ kswapd.step = "cold"
    /\ Exchanged(kswapd.cold, <<"inactive", FALSE>>)
    /\ kswapd' = NextTry
    /\ UNCHANGED <<scanVars, global_lock, remove, failed>>

\* assert(np != NULL) with a cold page in hand and NVM full.
NvmFull == /\ kswapd.step = "cold" /\ list[<<"free", FALSE>>] = <<>>
           /\ failed' = "nvm_full"
           /\ UNCHANGED <<lists, pageVars, scanVars, global_lock, kswapd, remove>>

-----------------------------------------------------------------------------
(* lru_remove_page.                                                        *)

\* while (in_kscand), for a page of the application.
WaitScan == /\ remove.step = "idle" /\ ~in_kscand
            /\ \E p \in Pages : /\ present[p]
                                /\ remove' = [remove EXCEPT !.step = "lock", !.page = p,
                                                            !.late = FALSE]
            /\ UNCHANGED <<lists, pageVars, scanVars, global_lock, kswapd, failed>>

\* list = page->list; assert(list != NULL).
LockRemove ==
    LET l == on[remove.page] IN
    /\ remove.step = "lock" /\ global_lock = "none"
    /\ global_lock' = "remove"
    /\ remove' = [remove EXCEPT !.step = "unlink", !.list = l]
    /\ failed' = IF l = Nowhere THEN "no_list" ELSE "none"
    /\ UNCHANGED <<lists, pageVars, scanVars, kswapd>>

\* page_list_remove_page from a list the page has left ruins the list.
Unlink ==
    LET p == remove.page l == remove.list
        i == CHOOSE i \in DOMAIN list[l] : list[l][i] = p IN
    /\ remove.step = "unlink"
    /\ IF on[p] = l
       THEN /\ list' = [list EXCEPT ![l] = RemoveAt(@, i), ![<<"free", in_dram[p]>>] = <<p>> \o @]
            /\ on' = [on EXCEPT ![p] = <<"free", in_dram[p]>>]
            /\ present' = [present EXCEPT ![p] = FALSE]
            /\ remove' = [remove EXCEPT !.step = "idle", !.list = Nowhere]
            /\ global_lock' = "none"
            /\ UNCHANGED failed
       ELSE failed' = "not_on_list" /\ UNCHANGED <<lists, present, remove, global_lock>>
    /\ UNCHANGED <<in_dram, devdax_offset, naccesses, scanVars, kswapd>>

Next == /\ failed = "none"
        /\ \/ \E dram \in BOOLEAN : lru_pagefault(dram)
           \/ StartScan \/ CheckPage \/ TakePage \/ NullPage \/ PlacePage \/ EndWalk
           \/ StartSwap \/ PickHot("pick", <<"written", FALSE>>)
           \/ PickHot("active", <<"active", FALSE>>) \/ EndSwap
           \/ MigrateUp \/ GiveUp \/ TakeCold \/ MigrateDown \/ NvmFull
           \/ WaitScan \/ LockRemove \/ Unlink
Spec == Init /\ [][Next]_vars

-----------------------------------------------------------------------------
Members(l) == {list[l][i] : i \in DOMAIN list[l]}
Swapping == {kswapd.p, kswapd.cold} \ {NoPage}
Scanning == {scan.hand} \ {NoPage}

\* However scan, kswapd, faults and removals interleave: no frame is lost or
\* shared, a page is on one list or in one hand, on a list of its own kind of
\* memory, free exactly when it is not present, and kswapd drops no page.  The process
\* crashes in a removal only if the scan started between its wait and its lock, in the
\* scan only on the list that kswapd takes pages from or in such a scan, and in kswapd
\* only when all of memory is in use.
LruSafe ==
    /\ \A p, q \in Pages : p # q => <<in_dram[p], devdax_offset[p]>> # <<in_dram[q], devdax_offset[q]>>
    /\ \A l \in Lists : IsInjective(list[l]) /\ Members(l) = {p \in Pages : on[p] = l}
    /\ {p \in Pages : on[p] = Nowhere} = Scanning \cup Swapping
    /\ Scanning \cap Swapping = {} /\ (kswapd.step = "cold" => kswapd.p # kswapd.cold)
    /\ \A p \in Pages : on[p] # Nowhere =>
         on[p][2] = in_dram[p] /\ (on[p][1] = "free") = ~present[p]
    /\ failed \in {"no_list", "not_on_list"} => remove.late
    /\ failed = "null_page" => Walked = <<"active", FALSE>> \/ remove.late
    /\ failed = "nvm_full" => \A p \in Pages : present[p]
==============================================================================
