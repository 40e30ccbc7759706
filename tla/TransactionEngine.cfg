CONSTANTS
    Coordinators = {A, B}
    MaxCrashes = 1
    Faults = {"notifyFails"}
SPECIFICATION Spec
SYMMETRY Symmetry
VIEW EngineView
INVARIANTS Agreement ClientVerdict BlockedHasVerdict
PROPERTIES JournalNeverStale AbortIsFinal
CHECK_DEADLOCK FALSE
