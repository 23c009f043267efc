-------------------------------- MODULE MCWarm --------------------------------
(* PageTiering from a warm start, for a few intervals of the policy thread. *)
EXTENDS MCPageTiering

CONSTANTS WarmDram,       \* how many addresses have a DRAM frame at the start
          MaxIntervals    \* bound on the intervals of a behaviour
VARIABLE intervals        \* intervals the policy thread has begun

\* A warm start that a long run reaches: every address of VAs is mapped and
\* known to the policy thread, WarmDram of them in DRAM; what else was mapped
\* in DRAM has been unmapped and drained.  Structs whose last address is not
\* in VAs have None.
WarmInit ==
    LET n == Cardinality(VAs)
        addr == CHOOSE f \in [1 .. n -> VAs] : \A i, j \in 1 .. n : f[i] = f[j] => i = j
        used == 1 .. WarmDram \cup NDram + 1 .. NDram + n - WarmDram
        index(p) == IF p <= NDram THEN p ELSE p - NDram + WarmDram
        table == [v \in VAs |-> CHOOSE p \in used : addr[index(p)] = v]
    IN
    /\ va = [p \in Pages |-> IF p \in used THEN addr[index(p)] ELSE None]
    /\ frame = [p \in Pages |-> IF p <= NDram THEN <<TRUE, p - 1>>
                                ELSE <<FALSE, p - NDram - 1>>]
    /\ present = [p \in Pages |-> p \in used]
    /\ migrating = [p \in Pages |-> FALSE]
    /\ page_lock = [p \in Pages |-> None]
    /\ dram_free_list = [i \in 1 .. NDram - WarmDram |-> WarmDram + i]
    /\ nvm_free_list = [i \in 1 .. NNvm - n + WarmDram |-> NDram + n - WarmDram + i]
    /\ pages = table /\ pages_map = table
    /\ mod_page_dq = <<>>
    /\ page_table = [v \in VAs |-> frame[table[v]]]
    /\ region = [v \in VAs |-> "ready"]
    /\ thread = [t \in Threads |-> IdleThread]
    /\ unmaps = 0
    /\ step = "asleep" /\ scores = <<>> /\ promote_idx = 0 /\ demote_idx = 0
    /\ np = None
    /\ wstep = [w \in Workers |-> "idle"]
    /\ old_frame = [w \in Workers |-> None]
    /\ new_frame = [w \in Workers |-> None]
    /\ aborted = "no"
    /\ MQ!Init
    /\ intervals = 0

WarmNext == /\ Next
            /\ intervals' = IF WakeUp THEN intervals + 1 ELSE intervals
            /\ intervals' <= MaxIntervals

WarmSpec == WarmInit /\ [][WarmNext]_<<vars, intervals>>

\* From the same start without a bound on the intervals, with fair threads
\* and an application that only unmaps.
Unmapping == \A v \in VAs : region[v] = "none" => region'[v] = "none"
WarmFairSpec == /\ WarmInit
                /\ [][Next /\ Unmapping /\ UNCHANGED intervals]_<<vars, intervals>>
                /\ Fairness
==============================================================================
