SPECIFICATION Spec
CONSTANTS
    Paths = {a, b}
    Callers = {u, v}
    Worker = worker
    MaxRecent = 1
    MinPerInterval = 1
    MaxIntervals = 2
    MaxVersion = 1
    MaxPublished = 2
CHECK_DEADLOCK FALSE
INVARIANTS
    StopIsFinal
PROPERTIES
    ReportsAreCurrent
    EditsAreFound
    StopsReturn
