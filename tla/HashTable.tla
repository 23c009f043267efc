------------------------------ MODULE HashTable ------------------------------
(***************************************************************************)
(* One bucket of the hash table of flexkvs (server/hashtable.c):           *)
(* BUCKET_NITEMS slots, of which the last also heads a chain of items.     *)
(* hasht_get and hasht_put hold the bucket's lock throughout and are one   *)
(* step each.  The hash is a function of the key, so an item matches when  *)
(* its key does.  Items are reused once nothing refers to them.            *)
(***************************************************************************)
EXTENDS Integers, FiniteSets

CONSTANTS Keys, Items, BUCKET_NITEMS, NULL

HashTableAssumption == BUCKET_NITEMS \in Nat \ {0} /\ IsFiniteSet(Items) /\ NULL \notin Items

VARIABLES items,    \* items[n]: item in slot n
          nxt,      \* nxt[i]: i->next
          key,      \* key[i], NULL for a free item
          refcount, \* references held by the table
          found,    \* found[k]: the item the last hasht_put stored for k
          had       \* an item a caller got and holds a reference to: the next cas

vars == <<items, nxt, key, refcount, found, had>>
Slots == 1 .. BUCKET_NITEMS

Init == /\ items = [n \in Slots |-> NULL]
        /\ nxt = [i \in Items |-> NULL] /\ key = [i \in Items |-> NULL]
        /\ refcount = [i \in Items |-> 0]
        /\ found = [k \in Keys |-> NULL] /\ had = NULL

-----------------------------------------------------------------------------
\* The slots that hold an item of key k.
Direct(k) == {n \in Slots : items[n] # NULL /\ key[items[n]] = k}

\* The n-th item of the walk along next from the last slot.
Walk == LET after[n \in 0 .. Cardinality(Items)] ==
              IF n = 0 THEN items[BUCKET_NITEMS]
              ELSE IF after[n - 1] = NULL THEN NULL ELSE nxt[after[n - 1]]
        IN after
\* Where on the walk the items of key k are, the head of the chain left out.
InChain(k) == {n \in 1 .. Cardinality(Items) : Walk[n] # NULL /\ key[Walk[n]] = k}
First(S) == CHOOSE n \in S : \A m \in S : n <= m

\* hasht_get.
Lookup(k) == IF Direct(k) # {} THEN items[First(Direct(k))]
             ELSE IF InChain(k) # {} THEN Walk[First(InChain(k))] ELSE NULL

hasht_get(k) == /\ had' = Lookup(k)
                /\ key' = [i \in Items |-> IF refcount[i] = 0 THEN NULL ELSE key[i]]
                /\ UNCHANGED <<items, nxt, refcount, found>>

-----------------------------------------------------------------------------
(* hasht_put(nit, cas) for key k.                                          *)

Move(old, nit) == [refcount EXCEPT ![nit] = @ + 1, ![old] = @ - 1]

\* A bug to catch: the chain behind the replaced item is cut off.
ReplaceDirectCut(nit, n) == /\ items' = [items EXCEPT ![n] = nit]
                            /\ nxt' = [nxt EXCEPT ![nit] = NULL]
                            /\ refcount' = Move(items[n], nit)

\* The next of the item replaced is not read again: it is NULL here.
ReplaceDirect(nit, n) == /\ items' = [items EXCEPT ![n] = nit]
                         /\ nxt' = [nxt EXCEPT ![nit] = nxt[items[n]], ![items[n]] = NULL]
                         /\ refcount' = Move(items[n], nit)

ReplaceChained(nit, n) == /\ nxt' = [nxt EXCEPT ![nit] = nxt[Walk[n]], ![Walk[n - 1]] = nit,
                                                     ![Walk[n]] = NULL]
                          /\ refcount' = Move(Walk[n], nit)
                          /\ UNCHANGED items

\* In the last empty slot, or in front of the chain.
Insert(nit) == LET empty == {n \in Slots : items[n] = NULL}
                   di == IF empty = {} THEN BUCKET_NITEMS
                         ELSE CHOOSE n \in empty : \A m \in empty : m <= n
               IN /\ nxt' = [nxt EXCEPT ![nit] = items[di]]
                  /\ items' = [items EXCEPT ![di] = nit]
                  /\ refcount' = [refcount EXCEPT ![nit] = @ + 1]

\* The item nit, a free one (they are alike), gets key k; cas is NULL, or an item of
\* that key the caller got before (clean_log).
Free == {i \in Items : refcount[i] = 0 /\ i # had}
hasht_put(k, cas) ==
    LET n == First(Direct(k)) nit == CHOOSE i \in Free : TRUE IN
    /\ Free # {} /\ (cas # NULL => key[cas] = k)
    /\ IF Direct(k) # {}
       THEN IF cas \in {NULL, items[n]}
            THEN ReplaceDirect(nit, n) /\ found' = [found EXCEPT ![k] = nit]
            ELSE UNCHANGED <<items, nxt, refcount, found>>
       ELSE IF cas # NULL THEN UNCHANGED <<items, nxt, refcount, found>>
       ELSE /\ IF InChain(k) # {} THEN ReplaceChained(nit, First(InChain(k))) ELSE Insert(nit)
            /\ found' = [found EXCEPT ![k] = nit]
    /\ key' = [i \in Items |-> IF i = nit /\ refcount'[i] = 1 THEN k
                               ELSE IF refcount'[i] = 0 /\ i # had THEN NULL ELSE key[i]]
    /\ UNCHANGED had

Next == \E k \in Keys : \/ hasht_get(k)
                        \/ \E cas \in {NULL, had} : hasht_put(k, cas)
Spec == Init /\ [][Next]_vars

-----------------------------------------------------------------------------
Chain == {Walk[n] : n \in 0 .. Cardinality(Items)} \ {NULL}
Stored == ({items[n] : n \in Slots} \cup Chain) \ {NULL}

\* Whatever slots and chain positions the items of a bucket have been moved
\* through, hasht_get finds for each key the item the last hasht_put that took
\* effect stored, and the table holds one reference to each of these items and
\* to no other, so that no replaced item is still linked.
TableIsMap ==
    /\ \A k \in Keys : Lookup(k) = found[k]
    /\ Stored = {found[k] : k \in Keys} \ {NULL}
    /\ \A i \in Items : refcount[i] = IF \E k \in Keys : found[k] = i THEN 1 ELSE 0
==============================================================================
