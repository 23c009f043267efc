------------------------------ MODULE ItemStore ------------------------------
(***************************************************************************)
(* The store of flexkvs: the log of items (server/ialloc.c, with the       *)
(* reference counts of server/iokvs.h) and the requests and the cleaning   *)
(* that use it as in server/main-ll.c.  Each core appends to segments of   *)
(* its own; a SET allocates a new item and puts it in the hash table; the  *)
(* maintenance thread gives back segments whose items are all free and     *)
(* sends the items of mostly free ones to their core, which copies the     *)
(* live ones to the end of its log.                                        *)
(*                                                                         *)
(* An item takes ItemSize of the SegSize units of a segment and is named   *)
(* by its segment and offset.  hasht_get and hasht_put run under the lock  *)
(* of their bucket and are one step (see HashTable); segments are handed   *)
(* out in one step (see SegmentAlloc).                                     *)
(***************************************************************************)
EXTENDS Integers, Sequences, FiniteSets, Functions, SequencesExt

CONSTANTS Cores, Keys, Values, None,
          Chained,              \* keys whose items are in a bucket's chain
          Segments,             \* 1 .. n
          SegSize, ItemSize,
          CleanFreed,           \* free units that make a segment worth cleaning
          CqSize,               \* settings.segcqsize
          MaxSets               \* bound: SET requests for each key

Items == Segments \X {n * ItemSize : n \in 0 .. (SegSize \div ItemSize) - 1}

StoreAssumption == /\ IsFiniteSet(Cores) /\ Cores # {} /\ IsFiniteSet(Keys) /\ IsFiniteSet(Segments)
                   /\ Chained \subseteq Keys
                   /\ None \notin Segments \cup Items \cup (Keys \X Values)
                   /\ Segments = 1 .. Cardinality(Segments)
                   /\ Cardinality(Segments) >= 2 * Cardinality(Cores)
                   /\ SegSize \in Nat /\ ItemSize \in 1 .. SegSize - 1 /\ CleanFreed \in Nat /\ CqSize \in Nat \ {0}
                   /\ MaxSets \in [Keys -> Nat]

VARIABLES item,           \* item[i]: reference count, key, value
          seg,            \* seg[s]: offset, freed, flags
          log,            \* log[c]: segments from ia->oldest to ia->cur
          reserved,       \* reserved[c]: a segment, or None
          free_segments,  \* the free list, then the segments never used
          cq,             \* cq[c]: cleanup_queue
          cleaning, clean_offset,
          table,          \* table[k]: item in the hash table, or None
          core,           \* core[c]: step of the request or cleaning
          maint,          \* the maintenance thread: core and step
          sets            \* number of SETs so far, for each key

logVars == <<log, reserved, free_segments>>
cleanVars == <<cq, cleaning, clean_offset>>
vars == <<item, seg, logVars, cleanVars, table, core, maint, sets>>

NoItem == [ref |-> 0, key |-> None, val |-> None]
Idle == [step |-> "idle"]
Empty == [offset |-> 0, freed |-> 0, inactive |-> FALSE, cleaned |-> FALSE]
Cur(c) == log[c][Len(log[c])]

\* ialloc_init_allocator: two segments for each core.
Init ==
    /\ item = [i \in Items |-> NoItem]
    /\ seg = [s \in Segments |-> Empty]
    /\ LET n == Cardinality(Cores)
           first == CHOOSE f \in [Cores -> 1 .. n] : IsInjective(f)
       IN log = [c \in Cores |-> <<first[c]>>] /\ reserved = [c \in Cores |-> first[c] + n]
    /\ free_segments = [n \in 1 .. Cardinality(Segments) - 2 * Cardinality(Cores) |-> n + 2 * Cardinality(Cores)]
    /\ cq = [c \in Cores |-> <<>>] /\ cleaning = [c \in Cores |-> None]
    /\ clean_offset = [c \in Cores |-> 0]
    /\ table = [k \in Keys |-> None]
    /\ core = [c \in Cores |-> Idle]
    /\ maint = [at |-> CHOOSE c \in Cores : TRUE, step |-> "free"]
    /\ sets = [k \in Keys |-> 0]

\* item_unref: the last reference frees the item's space.  Nothing may be read
\* from a free item, so its contents are not kept.
Dropped(i) == IF item[i].ref = 1 THEN NoItem ELSE [item[i] EXCEPT !.ref = @ - 1]
Unref(i) == /\ item' = [item EXCEPT ![i] = Dropped(i)]
            /\ seg' = IF item[i].ref = 1 THEN [seg EXCEPT ![i[1]].freed = @ + ItemSize] ELSE seg

-----------------------------------------------------------------------------
(* ialloc_alloc.                                                           *)

Room(c) == seg[Cur(c)].offset + ItemSize <= SegSize
\* segment_item_alloc gives up what is left of a segment.
Closed(s) == [seg[s] EXCEPT !.freed = @ + SegSize - seg[s].offset, !.offset = SegSize]

\* The item allocated next, in the current segment or in segment h.
NextItem(c, h) == IF Room(c) THEN <<Cur(c), seg[Cur(c)].offset>> ELSE <<h, 0>>
Allocate(c, h, k, v) ==
    /\ item' = [item EXCEPT ![NextItem(c, h)] = [ref |-> 1, key |-> k, val |-> v]]
    /\ IF Room(c)
       THEN seg' = [seg EXCEPT ![Cur(c)].offset = @ + ItemSize] /\ UNCHANGED logVars
       ELSE /\ seg' = [seg EXCEPT ![Cur(c)] = [Closed(Cur(c)) EXCEPT !.inactive = TRUE],
                                  ![h] = [Empty EXCEPT !.offset = ItemSize]]
            /\ log' = [log EXCEPT ![c] = Append(@, h)]
            /\ IF free_segments # <<>>
               THEN free_segments' = Tail(free_segments) /\ UNCHANGED reserved
               ELSE reserved' = [reserved EXCEPT ![c] = None] /\ UNCHANGED free_segments

\* Segments an allocation may go on in; only a cleanup may use the reserved one.
NewSegments(c, cleanup) ==
    IF Room(c) THEN {Cur(c)}
    ELSE IF free_segments # <<>> THEN {Head(free_segments)}
    ELSE IF cleanup /\ reserved[c] # None THEN {reserved[c]} ELSE {}

-----------------------------------------------------------------------------
(* Requests.                                                               *)

\* SET: allocate an item and write it; nobody else can reach it yet.
SetAlloc(c, k, v) ==
    /\ core[c] = Idle /\ reserved[c] # None /\ sets[k] < MaxSets[k]
    /\ sets' = [sets EXCEPT ![k] = @ + 1]
    /\ \E h \in NewSegments(c, FALSE) :
       /\ Allocate(c, h, k, v)
       /\ core' = [core EXCEPT ![c] = [step |-> "put", it |-> NextItem(c, h)]]
    /\ UNCHANGED <<cleanVars, table, maint>>

\* ... or answer ENOMEM, after the segment has been closed.
SetFails(c) == /\ core[c] = Idle
               /\ reserved[c] = None \/ NewSegments(c, FALSE) = {}
               /\ seg' = IF reserved[c] = None THEN seg ELSE [seg EXCEPT ![Cur(c)] = Closed(Cur(c))]
               /\ UNCHANGED <<item, logVars, cleanVars, table, core, maint>>

\* The item i is put in the table for key k instead of the old one, if any.
Replace(k, i) ==
    LET old == table[k] IN
    /\ table' = [table EXCEPT ![k] = i]
    /\ item' = [j \in Items |-> IF j = i THEN [item[j] EXCEPT !.ref = @ + 1]
                                ELSE IF j = old THEN Dropped(j)
                                ELSE item[j]]
    /\ seg' = IF old # None /\ item[old].ref = 1
              THEN [seg EXCEPT ![old[1]].freed = @ + ItemSize] ELSE seg

\* hasht_put(it, NULL).
SetPut(c) == /\ core[c].step = "put"
             /\ Replace(item[core[c].it].key, core[c].it)
             /\ core' = [core EXCEPT ![c] = [step |-> "release", items |-> <<core[c].it>>]]
             /\ UNCHANGED <<logVars, cleanVars, maint>>

\* hasht_get takes a reference, and the item is released once its value has
\* been copied to the reply.
Get(c, k) ==
    /\ core[c] = Idle /\ table[k] # None
    /\ item' = [item EXCEPT ![table[k]].ref = @ + 1]
    /\ core' = [core EXCEPT ![c] = [step |-> "copy", it |-> table[k]]]
    /\ UNCHANGED <<seg, logVars, cleanVars, table, maint>>

GetCopy(c) == /\ core[c].step = "copy"
              /\ Unref(core[c].it)
              /\ core' = [core EXCEPT ![c] = Idle]
              /\ UNCHANGED <<logVars, cleanVars, table, maint>>

\* item_unref at the end of a SET or of clean_log.
Release(c) ==
    /\ core[c].step = "release"
    /\ Unref(Head(core[c].items))
    /\ core' = [core EXCEPT ![c] = IF Len(core[c].items) = 1 THEN Idle
                                   ELSE [step |-> "release", items |-> Tail(core[c].items)]]
    /\ UNCHANGED <<logVars, cleanVars, table, maint>>

-----------------------------------------------------------------------------
(* clean_log.                                                              *)

\* ialloc_cleanup_item: the next item, and a new reserved segment if there is
\* none; nothing to do is not a step unless it changes reserved.
CleanTake(c) ==
    /\ core[c] = Idle
    /\ cq[c] # <<>> \/ (reserved[c] = None /\ free_segments # <<>>)
    /\ IF reserved[c] = None /\ free_segments # <<>>
       THEN /\ reserved' = [reserved EXCEPT ![c] = Head(free_segments)]
            /\ free_segments' = Tail(free_segments)
            /\ seg' = [seg EXCEPT ![Head(free_segments)] = Empty]
       ELSE UNCHANGED <<reserved, free_segments, seg>>
    /\ IF cq[c] # <<>>
       THEN /\ cq' = [cq EXCEPT ![c] = Tail(@)]
            /\ core' = [core EXCEPT ![c] = [step |-> "clean", it |-> Head(cq[c])]]
       ELSE UNCHANGED <<cq, core>>
    /\ UNCHANGED <<item, log, cleaning, clean_offset, table, maint>>

\* Only the queue refers to the item any more: drop it.
CleanDead(c) == /\ core[c].step = "clean" /\ item[core[c].it].ref = 1
                /\ Unref(core[c].it)
                /\ core' = [core EXCEPT ![c] = Idle]
                /\ UNCHANGED <<logVars, cleanVars, table, maint>>

\* Copy the item to the end of the log.
CleanCopy(c) ==
    LET it == core[c].it IN
    /\ core[c].step = "clean" /\ item[it].ref # 1
    /\ \E h \in NewSegments(c, TRUE) :
       /\ Allocate(c, h, item[it].key, item[it].val)
       /\ core' = [core EXCEPT ![c] = [step |-> "cas", it |-> it, nit |-> NextItem(c, h)]]
    /\ UNCHANGED <<cleanVars, table, maint>>

\* "ialloc_alloc failed during cleanup": the server aborts.
CleanFails(c) == /\ core[c].step = "clean" /\ item[core[c].it].ref # 1
                 /\ NewSegments(c, TRUE) = {}
                 /\ core' = [core EXCEPT ![c] = [step |-> "abort", it |-> core[c].it]]
                 /\ UNCHANGED <<item, seg, logVars, cleanVars, table, maint>>

\* A bug to catch: the copy replaces whatever is stored by now.
CleanPutAnyway(c) ==
    LET it == core[c].it nit == core[c].nit k == item[nit].key IN
    /\ core[c].step = "cas"
    /\ Replace(k, nit)
    /\ core' = [core EXCEPT ![c] = [step |-> "release", items |-> <<nit, it>>]]
    /\ UNCHANGED <<logVars, cleanVars, maint>>

\* hasht_put(nit, it): only if it is still stored, and not in a chain.
CleanPut(c) ==
    LET it == core[c].it nit == core[c].nit k == item[nit].key IN
    /\ core[c].step = "cas"
    /\ IF table[k] = it /\ k \notin Chained THEN Replace(k, nit)
       ELSE UNCHANGED <<table, item, seg>>
    /\ core' = [core EXCEPT ![c] = [step |-> "release", items |-> <<nit, it>>]]
    /\ UNCHANGED <<logVars, cleanVars, maint>>

-----------------------------------------------------------------------------
(* ialloc_maintenance, for one core after the other.                       *)

\* An inactive segment, not the last one, all of which is free.
FreeSegment(c) ==
    /\ maint = [at |-> c, step |-> "free"]
    /\ \E n \in 1 .. Len(log[c]) - 1 :
       LET s == log[c][n] IN
       /\ seg[s].inactive /\ seg[s].freed = SegSize
       /\ log' = [log EXCEPT ![c] = RemoveAt(@, n)]
       /\ free_segments' = <<s>> \o free_segments
       /\ seg' = [seg EXCEPT ![s].offset = 0]
    /\ UNCHANGED <<item, reserved, cleanVars, table, core, maint>>

\* The segments worth cleaning, with the most to gain.
Candidates(c) ==
    LET ss == {log[c][n] : n \in 1 .. Len(log[c]) - 1}
        worth == {s \in ss : /\ seg[s].inactive /\ ~seg[s].cleaned
                             /\ seg[s].freed < SegSize /\ seg[s].freed >= CleanFreed}
    IN {s \in worth : \A t \in worth : seg[t].freed <= seg[s].freed}

\* Go on with the segment being cleaned, or choose another: the items of the
\* first one chosen wait for the next call, as size was read before.
StartScan(c) ==
    /\ maint = [at |-> c, step |-> "free"]
    /\ maint' = [at |-> c, step |-> IF cleaning[c] = None THEN "done" ELSE "scan"]
    /\ IF cleaning[c] # None /\ clean_offset[c] < SegSize
       THEN UNCHANGED <<cleaning, clean_offset, seg>>
       ELSE /\ clean_offset' = [clean_offset EXCEPT ![c] = 0]
            /\ \/ /\ Candidates(c) = {}
                  /\ cleaning' = [cleaning EXCEPT ![c] = None]
                  /\ UNCHANGED seg
               \/ \E s \in Candidates(c) :
                  /\ cleaning' = [cleaning EXCEPT ![c] = s]
                  /\ seg' = [seg EXCEPT ![s].cleaned = TRUE]
    /\ UNCHANGED <<item, logVars, cq, table, core>>

Scanning(c) == /\ cleaning[c] # None /\ clean_offset[c] < SegSize /\ Len(cq[c]) < CqSize

\* A bug to catch: the count of a free item is raised.
TakeRef(c) ==
    LET i == <<cleaning[c], clean_offset[c]>> IN
    /\ maint = [at |-> c, step |-> "scan"] /\ Scanning(c)
    /\ IF i \in Items
       THEN item' = [item EXCEPT ![i].ref = @ + 1] /\ cq' = [cq EXCEPT ![c] = Append(@, i)]
       ELSE UNCHANGED <<item, cq>>
    /\ clean_offset' = [clean_offset EXCEPT ![c] =
                           IF @ + 2 * ItemSize <= SegSize THEN @ + ItemSize ELSE SegSize]
    /\ UNCHANGED <<seg, logVars, cleaning, table, core, maint>>

\* item_tryref of the next item; what is left of a segment looks like a free item.
TryRef(c) ==
    LET i == <<cleaning[c], clean_offset[c]>> IN
    /\ maint = [at |-> c, step |-> "scan"] /\ Scanning(c)
    /\ IF i \in Items /\ item[i].ref > 0
       THEN item' = [item EXCEPT ![i].ref = @ + 1] /\ cq' = [cq EXCEPT ![c] = Append(@, i)]
       ELSE UNCHANGED <<item, cq>>
    /\ clean_offset' = [clean_offset EXCEPT ![c] =
                           IF @ + 2 * ItemSize <= SegSize THEN @ + ItemSize ELSE SegSize]
    /\ UNCHANGED <<seg, logVars, cleaning, table, core, maint>>

EndScan(c) == /\ maint.at = c
              /\ maint.step = "done" \/ (maint.step = "scan" /\ ~Scanning(c))
              /\ \E d \in Cores : /\ d # c \/ Cardinality(Cores) = 1
                                  /\ maint' = [at |-> d, step |-> "free"]
              /\ UNCHANGED <<item, seg, logVars, cleanVars, table, core>>

\* The segment being cleaned was given back and handed out again: cleaning and
\* clean_offset are not reset by segment_free.  The scan would then hand items
\* of another core's current segment, written or not, to core c; the model
\* stops here, as at an abort.
Recycled(c) == cleaning[c] # None /\ clean_offset[c] < SegSize /\ ~seg[cleaning[c]].cleaned

Next == /\ \A c \in Cores : core[c].step # "abort" /\ ~Recycled(c)
        /\ \E c \in Cores :
             \/ \E k \in Keys, v \in Values : SetAlloc(c, k, v)
             \/ /\ \/ SetFails(c) \/ SetPut(c) \/ GetCopy(c) \/ Release(c)
                   \/ CleanTake(c) \/ CleanDead(c) \/ CleanCopy(c) \/ CleanFails(c) \/ CleanPut(c)
                   \/ FreeSegment(c) \/ StartScan(c) \/ TryRef(c) \/ EndScan(c)
                   \/ \E k \in Keys : Get(c, k)
                /\ UNCHANGED sets
Spec == Init /\ [][Next]_vars

-----------------------------------------------------------------------------
\* The items core c holds a reference to.
Held(c) == CASE core[c].step \in {"put", "copy", "clean", "abort"} -> <<core[c].it>>
             [] core[c].step = "cas" -> <<core[c].it, core[c].nit>>
             [] core[c].step = "release" -> core[c].items
             [] OTHER -> <<>>
\* How often item i is in the first n places of queues of the cores.
Uses(queues, n, i) ==
    Cardinality({p \in Cores \X (1 .. n) : p[2] <= Len(queues[p[1]]) /\ queues[p[1]][p[2]] = i})
References(i) == Cardinality({k \in Keys : table[k] = i})
                 + Uses(cq, CqSize, i) + Uses([c \in Cores |-> Held(c)], 2, i)

Live == {i \in Items : item[i].ref > 0}
FreeSegments == Range(free_segments)

\* An item's count is the number of references to it from the table, the
\* requests, the cleaning and the cleanup queues; an item that is referenced is
\* in a segment that has not been given back, below its offset, and one that is
\* queued in a segment of its core; a segment's free space is exactly what its
\* live items leave; and a stored item has its key.
Counted == \A i \in Items : item[i].ref = References(i)
Placed == \A i \in Live : i[1] \notin FreeSegments /\ i[2] + ItemSize <= seg[i[1]].offset
Queued == \A c \in Cores : \A n \in DOMAIN cq[c] : cq[c][n][1] \in Range(log[c])
Accounted == \A s \in Segments \ FreeSegments :
                seg[s].freed + ItemSize * Cardinality({i \in Live : i[1] = s}) = seg[s].offset
Stored == \A k \in Keys : table[k] # None => item[table[k]].key = k
ItemsSafe == Counted /\ Placed /\ Queued /\ Accounted /\ Stored

\* The store with its log, cleaning and reference counts behaves as an atomic map.
Kv == INSTANCE KvStore WITH
        store <- [k \in Keys |-> IF table[k] = None THEN None ELSE item[table[k]].val],
        pending <- [c \in Cores |-> IF core[c].step # "put" THEN None
                                    ELSE <<item[core[c].it].key, item[core[c].it].val>>],
        reply <- [c \in Cores |-> IF core[c].step = "copy" THEN item[core[c].it].val ELSE None]
IsAtomicMap == Kv!Spec
==============================================================================
