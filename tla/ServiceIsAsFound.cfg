SPECIFICATION Spec
CONSTANTS
    Absent = Absent
    Torn = Torn
    MaxRuns = 2
    Faults = {"confirm"}
    UndoFaults = {}
    Halves = {}
CHECK_DEADLOCK FALSE
INVARIANTS ServiceIsAsFound
