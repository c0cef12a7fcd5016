\* Three saves or pins on two connections, with a failure or a crash.
SPECIFICATION Spec
CONSTANTS
    b1 = b1
    b2 = b2
    m = m
    r1 = r1
    r2 = r2
    s1 = s1
    s2 = s2
    Saves = {r1, r2}
    Bodies = {b1, b2}
    Statuses = {s1, s2}
    Targets = {m}
    LinksOf <- MCLinksOf
    Keep = Keep
    None = None
    MaxSaves = 3
    MaxFaults = 1
SYMMETRY MCSymmetry
INVARIANTS Inv StatusChain HistoryKeepsBodies 
PROPERTIES SavesAreAtomic
CHECK_DEADLOCK FALSE
