\* A series of three occurrences, two requests at once, a capture, a fault.
SPECIFICATION Spec
CONSTANTS
    t1 = t1
    t2 = t2
    t3 = t3
    r1 = r1
    r2 = r2
    Tasks = {t1, t2, t3}
    Nodes = {n}
    Projects = {n}
    Captures = {c}
    Requests = {r1, r2}
    Free = Free
    Keep = Keep
    NewStatuses = {"open", "done"}
    MaxSent = 4
    MaxFaults = 1
SYMMETRY MCSymmetry
INVARIANTS Inv SeriesInStep
PROPERTIES CapturesAreKept
CHECK_DEADLOCK FALSE
