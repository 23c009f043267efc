----------------------------- MODULE AtomicPage -----------------------------
(***************************************************************************)
(* What an application sees of a page: words that it loads and stores      *)
(* atomically.  Migration must not be visible: PageCopy implements this.   *)
(***************************************************************************)
CONSTANTS Threads, Words, Values,
          Nothing   \* no store begun, nothing loaded yet

VARIABLES mem,      \* [Words -> Values]
          want,     \* the store a thread has begun, or Nothing
          got       \* what a thread's last load returned, until it stores

vars == <<mem, want, got>>

Init == /\ mem \in {[i \in Words |-> x] : x \in Values}
        /\ want = [t \in Threads |-> Nothing]
        /\ got = [t \in Threads |-> Nothing]

BeginStore(t) == /\ want[t] = Nothing
                 /\ \E i \in Words, x \in Values :
                       want' = [want EXCEPT ![t] = [word |-> i, value |-> x]]
                 /\ got' = [got EXCEPT ![t] = Nothing]
                 /\ UNCHANGED mem

EndStore(t) == /\ want[t] # Nothing
               /\ mem' = [mem EXCEPT ![want[t].word] = want[t].value]
               /\ want' = [want EXCEPT ![t] = Nothing]
               /\ UNCHANGED got

Load(t) == /\ want[t] = Nothing
           /\ \E i \in Words :
                 got' = [got EXCEPT ![t] = [word |-> i, value |-> mem[i]]]
           /\ UNCHANGED <<mem, want>>

Next == \E t \in Threads : BeginStore(t) \/ EndStore(t) \/ Load(t)

\* A store that has begun is carried out.
Spec == Init /\ [][Next]_vars /\ \A t \in Threads : WF_vars(EndStore(t))
=============================================================================
