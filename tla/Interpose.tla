------------------------------ MODULE Interpose ------------------------------
(***************************************************************************)
(* System call interposition: interpose.c with arms_init, arms_mmap and    *)
(* arms_munmap of arms.c and arms_malloc of arms.h.  Every mmap and munmap *)
(* of the process is hooked, those that ARMS, its hash tables and the      *)
(* allocator underneath make included; the thread-local flag internal_call *)
(* tells them from the application's, and arms_malloc clears it on return  *)
(* even if a caller had set it: after a table has grown, the rest of the   *)
(* call (the free of the table's old flags and the realloc of the ring of  *)
(* page changes among it) runs with the flag down.                         *)
(*                                                                         *)
(* What a thread has left to do is a sequence of operations; a hooked call *)
(* puts the operations of the function that handles it in front.  Memory   *)
(* is in regions of RegionPages pages; a kind of mapping stands for the    *)
(* arguments the filter looks at.                                          *)
(***************************************************************************)
EXTENDS Integers, Sequences

CONSTANTS Apps, main,       \* the application's threads, main the one that loads ARMS
          Regions, RegionPages,
          MaxGrow           \* bound on the times a table or the ring grows

InterposeAssumption == /\ main \in Apps /\ "none" \notin Apps
                       /\ RegionPages \in Nat /\ MaxGrow \in Nat

VARIABLES todo,             \* operations left, per thread
          internal_call,    \* per thread
          is_init,
          pages,            \* tracked pages: <<region, index>>
          pages_lock,       \* its holder, or "none"
          mapped,           \* mapped[r]: "none", "libc" or "devdax" (managed)
          user,             \* whose memory r is: "none", "app" or "arms"
          grown,
          lowered           \* history: threads in whose call a table has grown

vars == <<todo, internal_call, is_init, pages, pages_lock, mapped, user, grown, lowered>>

\* pthread_create maps a stack; "small" is an anonymous mapping below
\* min_interpose_mem_size, the others are at least that large.
Kinds == {"file", "stack", "small", "large", "populate"}
Threads == Apps \cup {"policy"}
Op(op) == [op |-> op]
Mem(op, r) == [op |-> op, region |-> r]
Page(op, r, i) == [op |-> op, region |-> r, index |-> i]
Mmap(kind, r) == [op |-> "mmap", kind |-> kind, region |-> r]
Each(op, r) == [i \in 1 .. RegionPages |-> Page(op, r, i)]

\* Go on with ops before the rest.
Push(t, ops) == todo' = [todo EXCEPT ![t] = ops \o Tail(@)]
At(t, op) == todo[t] # <<>> /\ Head(todo[t]).op = op
Arg(t) == Head(todo[t])

\* arms_malloc, when the allocator has to map more memory or not.
Malloc == <<Op("set"), Op("malloc"), Op("clear")>>

\* arms_init: the device is mapped, paging_init allocates (with arms_malloc)
\* and starts threads, and the hook lets arms_mmap through.
Init == /\ todo = [t \in Threads |->
             IF t = main THEN <<Op("set"), Op("devdax")>> \o Malloc
                              \o <<Op("stack"), Op("is_init"), Op("clear")>>
             ELSE <<>>]
        /\ internal_call = [t \in Threads |-> FALSE]
        /\ is_init = FALSE
        /\ pages = {} /\ pages_lock = "none"
        /\ mapped = [r \in Regions |-> "none"]
        /\ user = [r \in Regions |-> "none"]
        /\ grown = 0 /\ lowered = {}

\* Some thread is mapping or unmapping r.
InUse(r) == \E t \in Threads : \E i \in DOMAIN todo[t] :
    "region" \in DOMAIN todo[t][i] /\ todo[t][i].region = r
Unused == {r \in Regions : user[r] = "none"}

-----------------------------------------------------------------------------
(* Calls of the application and of the policy thread.                      *)

AppMmap(t) == /\ t \in Apps /\ is_init /\ todo[t] = <<>>
              /\ \E r \in Unused, k \in Kinds :
                 /\ user' = [user EXCEPT ![r] = "app"]
                 /\ todo' = [todo EXCEPT ![t] = <<Mmap(k, r)>>]
              /\ lowered' = lowered \ {t}
              /\ UNCHANGED <<internal_call, is_init, pages, pages_lock, mapped, grown>>

\* The application unmaps a region it has got.
AppMunmap(t) == /\ t \in Apps /\ is_init /\ todo[t] = <<>>
                /\ \E r \in Regions :
                   /\ user[r] = "app" /\ mapped[r] # "none"
                   /\ ~InUse(r)
                   /\ todo' = [todo EXCEPT ![t] = <<Mem("munmap", r)>>]
                /\ lowered' = lowered \ {t}
                /\ UNCHANGED <<internal_call, is_init, pages, pages_lock, mapped, user,
                               grown>>

\* The policy thread allocates a request; a migration thread frees one, with
\* the flag down.
PolicyAllocates == /\ is_init /\ todo["policy"] = <<>>
                   /\ todo' = [todo EXCEPT !["policy"] = Malloc]
                   /\ UNCHANGED <<internal_call, is_init, pages, pages_lock, mapped, user,
                                  grown, lowered>>
PolicyFrees == /\ is_init /\ todo["policy"] = <<>>
               /\ \E r \in Regions :
                  /\ user[r] = "arms" /\ mapped[r] = "libc" /\ ~InUse(r)
                  /\ todo' = [todo EXCEPT !["policy"] = <<Mem("munmap", r)>>]
               /\ UNCHANGED <<internal_call, is_init, pages, pages_lock, mapped, user, grown, lowered>>

-----------------------------------------------------------------------------
(* The filters.                                                            *)

\* mmap_filter leaves the call to the kernel.
ToKernel(t, kind) == \/ kind \in {"file", "stack", "devdax"}
                     \/ internal_call[t]
                     \/ ~is_init
                     \/ kind = "small"

MmapKernel(t) ==
    LET a == Arg(t) IN
    /\ At(t, "mmap") /\ ToKernel(t, a.kind)
    /\ mapped' = [mapped EXCEPT ![a.region] = IF a.kind = "devdax" THEN "devdax" ELSE "libc"]
    /\ Push(t, <<>>)
    /\ UNCHANGED <<internal_call, is_init, pages, pages_lock, user, grown, lowered>>

\* arms_mmap: reserve on the device, register, and with MAP_POPULATE map and
\* track every page.
arms_mmap(t) ==
    LET a == Arg(t) IN
    /\ At(t, "mmap") /\ ~ToKernel(t, a.kind)
    /\ Push(t, <<Op("set"), Mmap("devdax", a.region)>>
               \o (IF a.kind = "populate" THEN Each("add", a.region) ELSE <<>>)
               \o <<Op("clear")>>)
    /\ UNCHANGED <<internal_call, is_init, pages, pages_lock, mapped, user, grown, lowered>>

MunmapKernel(t) ==
    /\ At(t, "munmap") /\ internal_call[t]
    /\ mapped' = [mapped EXCEPT ![Arg(t).region] = "none"]
    /\ user' = [user EXCEPT ![Arg(t).region] = "none"]
    /\ Push(t, <<>>)
    /\ UNCHANGED <<internal_call, is_init, pages, pages_lock, grown, lowered>>

\* A bug to catch: the kernel is called before the pages are given up.
arms_munmap_first(t) ==
    /\ At(t, "munmap") /\ ~internal_call[t]
    /\ Push(t, <<Op("set"), Arg(t)>> \o Each("find", Arg(t).region) \o <<Op("clear")>>)
    /\ UNCHANGED <<internal_call, is_init, pages, pages_lock, mapped, user, grown, lowered>>

\* Every munmap that is not internal, whatever it unmaps.
arms_munmap(t) ==
    /\ At(t, "munmap") /\ ~internal_call[t]
    /\ Push(t, <<Op("set")>> \o Each("find", Arg(t).region) \o <<Arg(t), Op("clear")>>)
    /\ UNCHANGED <<internal_call, is_init, pages, pages_lock, mapped, user, grown, lowered>>

-----------------------------------------------------------------------------
(* The operations.                                                         *)

\* internal_call = true and internal_call = false.
SetFlag(t) == /\ At(t, "set") \/ At(t, "clear")
              /\ internal_call' = [internal_call EXCEPT ![t] = (Arg(t).op = "set")]
              /\ Push(t, <<>>)
              /\ UNCHANGED <<is_init, pages, pages_lock, mapped, user, grown, lowered>>

\* malloc has room, or maps a region first.
malloc(t) == /\ At(t, "malloc")
             /\ \/ Push(t, <<>>) /\ UNCHANGED user
                \/ \E r \in Unused : /\ user' = [user EXCEPT ![r] = "arms"]
                                     /\ \E k \in {"small", "large"} : Push(t, <<Mmap(k, r)>>)
             /\ UNCHANGED <<internal_call, is_init, pages, pages_lock, mapped, grown, lowered>>

\* Steps of arms_init that no other step looks at, and its last one.
InitStep(t) == /\ At(t, "devdax") \/ At(t, "stack") \/ At(t, "is_init")
               /\ is_init' = (is_init \/ Arg(t).op = "is_init")
               /\ Push(t, <<>>)
               /\ UNCHANGED <<internal_call, pages, pages_lock, mapped, user, grown, lowered>>

\* Memory that free gives back to the kernel, or not.
Frees == {<<>>} \cup {<<Mem("munmap", r)>> :
                        r \in {q \in Regions : user[q] = "arms" /\ mapped[q] = "libc" /\ ~InUse(q)}}

\* pebs_add_page takes pages_lock; kh_put may make the table grow: kh_resize allocates
\* with arms_malloc and frees the old flags, the flag down.
pebs_add_page(t) ==
    /\ At(t, "add") /\ pages_lock = "none"
    /\ pages_lock' = t
    /\ \/ Push(t, <<[Arg(t) EXCEPT !.op = "put"]>>) /\ UNCHANGED <<grown, lowered>>
       \/ /\ grown < MaxGrow /\ grown' = grown + 1
          /\ \E f \in Frees : Push(t, Malloc \o f \o <<[Arg(t) EXCEPT !.op = "put"]>>)
          /\ lowered' = lowered \cup {t}
    /\ UNCHANGED <<internal_call, is_init, pages, mapped, user>>

Put(t) == /\ At(t, "put")
          /\ pages' = pages \cup {<<Arg(t).region, Arg(t).index>>}
          /\ pages_lock' = "none"
          /\ Push(t, <<Op("ring")>>)
          /\ UNCHANGED <<internal_call, is_init, mapped, user, grown, lowered>>

\* kdq_push tells the policy thread; it may make the ring grow, by a plain realloc
\* that maps memory, gives memory back, or does neither.  (mod_page_dq_lock is held,
\* but nothing that holds pages_lock waits for it.)
kdq_push(t) ==
    /\ At(t, "ring")
    /\ \/ Push(t, <<>>) /\ UNCHANGED <<user, grown>>
       \/ /\ grown < MaxGrow /\ grown' = grown + 1
          /\ \E f \in Frees :
             \/ Push(t, f) /\ UNCHANGED user
             \/ \E r \in Unused, k \in {"small", "large"} :
                  user' = [user EXCEPT ![r] = "arms"] /\ Push(t, <<Mmap(k, r)>> \o f)
    /\ UNCHANGED <<internal_call, is_init, pages, pages_lock, mapped, lowered>>

\* pebs_find_page, then pebs_remove_page if the page is tracked.
pebs_find_page(t) ==
    LET a == Arg(t) IN
    /\ At(t, "find") /\ pages_lock = "none"
    /\ Push(t, IF <<a.region, a.index>> \in pages THEN <<[a EXCEPT !.op = "remove"]>> ELSE <<>>)
    /\ UNCHANGED <<internal_call, is_init, pages, pages_lock, mapped, user, grown, lowered>>

pebs_remove_page(t) ==
    /\ At(t, "remove") /\ pages_lock = "none"
    /\ pages' = pages \ {<<Arg(t).region, Arg(t).index>>}
    /\ Push(t, <<Op("ring")>>)
    /\ UNCHANGED <<internal_call, is_init, pages_lock, mapped, user, grown, lowered>>

\* ARMS manages memory of its own: the model ends there.
ManagesItself == \E r \in Regions : user[r] = "arms" /\ mapped[r] = "devdax"

Next == /\ ~ManagesItself
        /\ \/ PolicyAllocates \/ PolicyFrees
           \/ \E t \in Threads :
                \/ AppMmap(t) \/ AppMunmap(t)
                \/ MmapKernel(t) \/ arms_mmap(t) \/ MunmapKernel(t) \/ arms_munmap(t)
                \/ SetFlag(t) \/ malloc(t) \/ InitStep(t)
                \/ pebs_add_page(t) \/ Put(t) \/ kdq_push(t)
                \/ pebs_find_page(t) \/ pebs_remove_page(t)
Spec == Init /\ [][Next]_vars

-----------------------------------------------------------------------------
\* What the hook does to its own calls.  A tracked page is in a managed mapping of the
\* application, and application code never runs with the flag up; a call in which no
\* table has grown keeps the flag up, manages no memory of ARMS's own and never waits
\* for pages_lock while it holds it; one in which a table has does the latter only to
\* give back memory of ARMS's own.
InterposeSafe ==
    /\ \A p \in pages : mapped[p[1]] = "devdax" /\ user[p[1]] = "app"
    /\ \A t \in Threads : todo[t] = <<>> => ~internal_call[t]
    /\ \A t \in Threads : At(t, "ring") /\ t \notin lowered => internal_call[t]
    /\ ManagesItself => lowered # {}
    /\ \A t \in Threads : pages_lock = t =>
         /\ ~At(t, "add") /\ ~At(t, "remove")
         /\ At(t, "find") => t \in lowered /\ user[Arg(t).region] = "arms"
==============================================================================
