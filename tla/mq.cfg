\* Up to three requests in an interval, posts for one or two of them.  The
\* system can stop here (run mq_lost_wakeup), so deadlock is not an error.
CONSTANTS
    Workers = {w1, w2}
    Reqs = {r1, r2, r3}
    NoReq = NoReq
    MaxJobs = 3
    BatchSizes = {1, 2}
    MaxPermits = 1
SPECIFICATION Spec
CHECK_DEADLOCK FALSE
INVARIANTS TypeOK JobsConserved RequestsDistinct
PROPERTIES LoopStartsIdle PromiseSafe ProgressWithinBatch
