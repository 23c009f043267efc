\* Two requests but a single sem_post.
CONSTANTS
    Workers = {w1, w2}
    Reqs = {r1, r2}
    NoReq = NoReq
    MaxJobs = 2
    BatchSizes = {1}
    MaxPermits = 1
SPECIFICATION Spec
CHECK_DEADLOCK FALSE
PROPERTIES WaitTerminates
