SPECIFICATION JcSpec
CONSTANTS
    JcWorkers = {w1}
    JcClouds = {"aws", "gcp"}
    JcRedeliver = TRUE
    JcMaxMessages = 2
    JcMaxClock = 2
INVARIANTS
    DuplicateIsStored
CHECK_DEADLOCK FALSE
