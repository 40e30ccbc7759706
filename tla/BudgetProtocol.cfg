SPECIFICATION Spec
CONSTANTS
    t1 = t1
    t2 = t2
    t3 = t3
    Txns = {t1, t2, t3}
    Workloads <- Batches
    Budget = 2
    Free = Free
    MaxErrors = 1
    MaxCrashes = 1
    Preemption = FALSE
INVARIANTS
    BudgetConserved
    OutcomeMatchesBudget
    CommitReserves
    LockAllOrNone
    FinishedHoldsNothing
PROPERTIES
    CommitEnds
CHECK_DEADLOCK FALSE
