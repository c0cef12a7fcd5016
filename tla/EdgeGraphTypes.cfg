SPECIFICATION FairSpec
CONSTANTS
    a = a  b = b  c = c  w1 = w1  w2 = w2
    Nodes = {a, b}
    FirstNodes = {a, b}
    Types = {"contains", "depends_on", "references", "related_to"}
    AcyclicTypes = {"contains", "depends_on"}
    Writers = {w1, w2}
    Faults = {"db"}
    MaxRestores = 0
INVARIANTS Inv
PROPERTIES WritersEnd
CHECK_DEADLOCK FALSE
