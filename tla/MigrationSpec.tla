---------------------------- MODULE MigrationSpec ----------------------------
(***************************************************************************)
(* What the migration machinery of src/src/pebs.c promises the policy      *)
(* thread: in every interval it may submit requests, each of them is       *)
(* executed once by one worker, and the submissions of the next interval   *)
(* start only after every request of the previous one was executed and     *)
(* acknowledged.  MigrationQueue (list, semaphores, workers) implements it.*)
(***************************************************************************)
EXTENDS Naturals

CONSTANT Reqs       \* the migration requests

VARIABLES pending,    \* submitted, no worker has it yet
          executing,  \* some worker has it
          finished,   \* number of executed requests not yet acknowledged
          phase       \* "submit" inside the migration loop, else "collect"

vars == <<pending, executing, finished, phase>>

Init == /\ pending = {} /\ executing = {}
        /\ finished = 0
        /\ phase = "collect"

Submit(r) == /\ phase = "submit"
             /\ r \notin pending \cup executing
             /\ pending' = pending \cup {r}
             /\ UNCHANGED <<executing, finished, phase>>

Execute(r) == /\ r \in pending
              /\ pending' = pending \ {r}
              /\ executing' = executing \cup {r}
              /\ UNCHANGED <<finished, phase>>

Finish(r) == /\ r \in executing
             /\ executing' = executing \ {r}
             /\ finished' = finished + 1
             /\ UNCHANGED <<pending, phase>>

Acknowledge == /\ phase = "collect"
               /\ finished > 0
               /\ finished' = finished - 1
               /\ UNCHANGED <<pending, executing, phase>>

Begin == /\ phase = "collect"
         /\ pending = {} /\ executing = {} /\ finished = 0
         /\ phase' = "submit"
         /\ UNCHANGED <<pending, executing, finished>>

End == /\ phase = "submit"
       /\ phase' = "collect"
       /\ UNCHANGED <<pending, executing, finished>>

Next == \/ \E r \in Reqs : Submit(r) \/ Execute(r) \/ Finish(r)
        \/ Acknowledge \/ Begin \/ End

\* The safety half of the promise, and the promise with its progress half:
\* no submitted request is left behind and no worker keeps one forever.
SafeSpec == Init /\ [][Next]_vars
Progress == \A r \in Reqs : WF_vars(Execute(r)) /\ WF_vars(Finish(r))
Spec == SafeSpec /\ Progress
==============================================================================
