SPECIFICATION Spec
CONSTANTS
    t1 = t1
    t2 = t2
    t3 = t3
    Txns = {t1, t2, t3}
    Workloads <- Singles
    Budget = 2
    Free = Free
    MaxErrors = 0
    MaxCrashes = 0
    Preemption = TRUE
INVARIANTS
    CommitReserves
CHECK_DEADLOCK FALSE
