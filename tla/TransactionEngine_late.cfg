CONSTANTS
    Coordinators = {A, B}
    MaxCrashes = 0
    Faults = {"lateRequest"}
SPECIFICATION Spec
SYMMETRY Symmetry
VIEW EngineView
INVARIANTS Agreement
CHECK_DEADLOCK FALSE
