------------------------------- MODULE KvStore -------------------------------
(***************************************************************************)
(* What a key-value server promises its clients: a SET takes effect once,  *)
(* at one moment for everyone, while it is being served; a GET returns     *)
(* what was stored for the key at one moment while it was being served;    *)
(* and nothing else changes what is stored.                                *)
(***************************************************************************)
CONSTANTS Keys, Values, Cores, None

VARIABLES store,   \* store[k], None if there is nothing
          pending, \* pending[c]: the SET core c is serving: <<key, value>>
          reply    \* reply[c]: what the GET core c is serving will return

vars == <<store, pending, reply>>

Init == /\ store = [k \in Keys |-> None]
        /\ pending = [c \in Cores |-> None]
        /\ reply = [c \in Cores |-> None]

Submit(c, k, v) == /\ pending[c] = None
                   /\ pending' = [pending EXCEPT ![c] = <<k, v>>]
                   /\ UNCHANGED <<store, reply>>
Set(c) == /\ pending[c] # None
          /\ store' = [store EXCEPT ![pending[c][1]] = pending[c][2]]
          /\ pending' = [pending EXCEPT ![c] = None]
          /\ UNCHANGED reply
Get(c, k) == /\ reply[c] = None
             /\ reply' = [reply EXCEPT ![c] = store[k]]
             /\ UNCHANGED <<store, pending>>
Reply(c) == reply' = [reply EXCEPT ![c] = None] /\ UNCHANGED <<store, pending>>

Next == \E c \in Cores :
          \/ Set(c) \/ Reply(c)
          \/ \E k \in Keys : Get(c, k) \/ \E v \in Values : Submit(c, k, v)
Spec == Init /\ [][Next]_vars
==============================================================================
