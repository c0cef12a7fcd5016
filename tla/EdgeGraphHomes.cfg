SPECIFICATION Spec
CONSTANTS
    a = a  b = b  c = c  w1 = w1  w2 = w2
    Nodes = {a, b, c}
    FirstNodes = {a, b}
    Types = {"contains"}
    AcyclicTypes = {"contains"}
    Writers = {w1, w2}
    Faults = {}
    MaxRestores = 1
SYMMETRY Symmetry
INVARIANTS NoLoops ChecksStand
PROPERTIES MovesKeepAHome WritesAreAtomic
CHECK_DEADLOCK FALSE
