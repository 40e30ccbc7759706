SPECIFICATION GlobalSpec
CONSTANTS
    Nodes = {n1}
    NoNode = NoNode
    None = None
    Duration = 4
    Threshold = 50
    MaxSkew = 0
    Skew <- EqualClocks
    MaxLockTime = 8
    MaxWrites = 1
    Frequency = 1
    MaxRefresh = 1
    DbLimit = 3
INVARIANTS RefreshIsTimely
CHECK_DEADLOCK FALSE
