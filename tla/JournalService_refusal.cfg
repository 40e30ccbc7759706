SPECIFICATION Spec
CONSTANTS
    Logs = {l1, l2}
    MaxPerRun = 1
    MaxJournals = 4
    MaxErrors = 1
    MaxCrashes = 0
    Refusals = TRUE
PROPERTIES
    CheckpointCatchesUp
CHECK_DEADLOCK FALSE
