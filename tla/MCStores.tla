------------------------------ MODULE MCStores ------------------------------
(***************************************************************************)
(* The tables and their users, side by side: of ARMS the promotion rule,   *)
(* the access counters, the smoothed scores, the interposed calls, the LRU *)
(* and the HeMem policy; of flexkvs the item store, the hash table, the    *)
(* segment allocator and the receive buffer.  They share no state here, so *)
(* a behaviour runs one of them.  The item store has variables of its own, *)
(* the others take theirs from x1, x2, ... x19.                            *)
(***************************************************************************)
EXTENDS Integers, TLC

CONSTANTS Structs, NDram, MaxScore, AgeBits,          \* see PromotionRule
          Sampled, CounterBits,                     \* see AccessCount
          NUM_NEIGHBOURS, MaxVa,                    \* see Smoothing
          Apps, main, Regions, RegionPages, MaxGrow,   \* see Interpose
          LruDram, LruNvm, ActiveAfter,             \* see Lru
          NFast, NSlow, FASTFREE, SweepRate, ThawAfter, FreeMod, MaxRemove, \* PageManager
          Cores, Keys, Values, None, Chained, Segments, SegSize, ItemSize,
          CleanFreed, CqSize, MaxSets,              \* see ItemStore
          TableKeys, TableItems, BUCKET_NITEMS, NULL,    \* see HashTable
          Allocators, segmaxnum,                       \* see SegmentAlloc
          RingSize, Header, MaxRequest, MaxStream   \* see RecvBuffer

VARIABLES used,                                     \* the one that runs
          item, seg, log, reserved, free_segments, cq, cleaning, clean_offset,
          table, core, maint, sets,
          x1, x2, x3, x4, x5, x6, x7, x8, x9, x10, x11, x12,
          x13, x14, x15, x16, x17, x18, x19

\* A key in a chain is stored once.
Store == INSTANCE ItemStore WITH
           MaxSets <- [k \in Keys |-> IF k \in Chained THEN 1 ELSE MaxSets]
Rule == INSTANCE PromotionRule WITH Pages <- Structs,
          score <- x1, prev_score <- x2, hot_age <- x3, can_promote <- x4, tracked <- x5,
          inherited <- x6, top <- x7, streak <- x8
Count == INSTANCE AccessCount WITH Pages <- Sampled,
          accesses <- x1, curr_access_version <- x2, pages <- x3, free <- x4,
          mod_page_dq <- x5, pages_map <- x6, scan <- x7, policy <- x8, todo <- x9,
          counted <- x10, truth <- x11, disturbed <- x12
Smooth == INSTANCE Smoothing WITH
          tree <- x1, present <- x2, itr <- x3, n_itr <- x4, l_neighbours <- x5,
          r_neighbours <- x6, mean <- x7, s_accesses <- x8, at <- x9
Calls == INSTANCE Interpose WITH
          todo <- x1, internal_call <- x2, is_init <- x3, pages <- x4, pages_lock <- x5,
          mapped <- x6, user <- x7, grown <- x8, lowered <- x9
LruLists == INSTANCE Lru WITH NDram <- LruDram, NNvm <- LruNvm,
          list <- x1, on <- x2, in_dram <- x3, devdax_offset <- x4, present <- x5,
          naccesses <- x6, in_kscand <- x7, scan <- x8, global_lock <- x9, kswapd <- x10,
          remove <- x11, failed <- x12
Manager == INSTANCE PageManager WITH
          list <- x1, on <- x2, at <- x3, management <- x4, present <- x5, frame <- x6,
          page_lock <- x7, accesses <- x8, freebytes <- x9, pc <- x10, step <- x11,
          held <- x12, dest <- x13, transition_bytes <- x14, sweep <- x15, remove <- x16,
          removed <- x17, torn <- x18, failed <- x19
Table == INSTANCE HashTable WITH Keys <- TableKeys, Items <- TableItems,
          items <- x1, nxt <- x2, key <- x3, refcount <- x4, found <- x5, had <- x6
Segment == INSTANCE SegmentAlloc WITH Threads <- Allocators,
          segalloc_lock <- x1, free_segments <- x2, nxt <- x3, seg_alloced <- x4,
          owns <- x5, pc <- x6, h <- x7, i <- x8, lost <- x9, broken <- x10
Receive == INSTANCE RecvBuffer WITH
          buf_1 <- x1, len_1 <- x2, buf_2 <- x3, len_2 <- x4, received <- x5,
          done <- x6, reql <- x7, pc <- x8

\* No definition tells values apart.
Symmetry == Permutations(Values)

ASSUME StoresAssumption ==
    /\ Store!StoreAssumption
    /\ Rule!PromotionAssumption /\ Count!CounterAssumption /\ Smooth!SmoothingAssumption
    /\ Calls!InterposeAssumption /\ LruLists!LruAssumption /\ Manager!ManagerAssumption
    /\ Table!HashTableAssumption /\ Segment!SegmentAllocAssumption
    /\ Receive!RecvBufferAssumption

itemVars == <<item, seg, log, reserved, free_segments, cq, cleaning, clean_offset,
              table, core, maint, sets>>
xVars == <<x1, x2, x3, x4, x5, x6, x7, x8, x9, x10, x11, x12,
           x13, x14, x15, x16, x17, x18, x19>>
vars == <<used, itemVars, xVars>>

From7 == x7 = "" /\ x8 = ""
From9 == x9 = "" /\ x10 = ""
From11 == x11 = "" /\ x12 = ""
From13 == x13 = "" /\ x14 = "" /\ x15 = "" /\ x16 = "" /\ x17 = "" /\ x18 = "" /\ x19 = ""
Last7 == <<x13, x14, x15, x16, x17, x18, x19>>
Init == /\ Store!Init
        /\ \/ /\ used = "items"
              /\ x1 = "" /\ x2 = "" /\ x3 = "" /\ x4 = "" /\ x5 = "" /\ x6 = ""
              /\ From7 /\ From9 /\ From11 /\ From13
           \/ used = "rule" /\ Rule!Init /\ From9 /\ From11 /\ From13
           \/ used = "count" /\ Count!Init /\ From13
           \/ used = "smooth" /\ Smooth!Init /\ x10 = "" /\ From11 /\ From13
           \/ used = "calls" /\ Calls!Init /\ x10 = "" /\ From11 /\ From13
           \/ used = "lru" /\ LruLists!Init /\ From13
           \/ used = "manager" /\ Manager!Init
           \/ used = "table" /\ Table!Init /\ From7 /\ From9 /\ From11 /\ From13
           \/ used = "segment" /\ Segment!Init /\ From11 /\ From13
           \/ used = "receive" /\ Receive!Init /\ From9 /\ From11 /\ From13

XNext == \/ used = "rule" /\ Rule!Next /\ UNCHANGED <<x9, x10, x11, x12, Last7>>
         \/ used = "count" /\ Count!Next /\ UNCHANGED Last7
         \/ used = "smooth" /\ Smooth!Next /\ UNCHANGED <<x10, x11, x12, Last7>>
         \/ used = "calls" /\ Calls!Next /\ UNCHANGED <<x10, x11, x12, Last7>>
         \/ used = "lru" /\ LruLists!Next /\ UNCHANGED Last7
         \/ used = "manager" /\ Manager!Next
         \/ used = "table" /\ Table!Next /\ UNCHANGED <<x7, x8, x9, x10, x11, x12, Last7>>
         \/ used = "segment" /\ Segment!Next /\ UNCHANGED <<x11, x12, Last7>>
         \/ used = "receive" /\ Receive!Next /\ UNCHANGED <<x9, x10, x11, x12, Last7>>
Next == /\ UNCHANGED used
        /\ \/ used = "items" /\ Store!Next /\ UNCHANGED xVars
           \/ XNext /\ UNCHANGED itemVars
Spec == Init /\ [][Next]_vars

-----------------------------------------------------------------------------
\* A page the policy thread would promote has stayed hot, or its struct had.
MarkEarned == used = "rule" => Rule!MarkEarned
\* update_window reads the samples that were counted.
CountsRight == used = "count" => Count!CountsRight
\* A score is smoothed over the neighbours of its page.
SmoothedRight == used = "smooth" => Smooth!SmoothedRight
\* Interposed calls manage the application's memory and only that.
InterposeSafe == used = "calls" => Calls!InterposeSafe
\* The lists and frames of the LRU policy.
LruSafe == used = "lru" => LruLists!LruSafe
\* The lists, frames and counters of the HeMem policy.
ManagerSafe == used = "manager" => Manager!ManagerSafe
\* No item in use is overwritten or lost.
ItemsSafe == used = "items" => Store!ItemsSafe
\* GET and SET with the cleaning of the log implement an atomic map.
IsAtomicMap == Store!IsAtomicMap
\* The buckets and chains of hashtable.c hold the items stored.
TableIsMap == used = "table" => Table!TableIsMap
\* No segment is handed out twice or lost.
SegmentsOwned == used = "segment" => Segment!SegmentsOwned
\* The two parts of the receive buffer are the next bytes of the stream.
BufferIsStream == used = "receive" => Receive!BufferIsStream
=============================================================================
