SPECIFICATION Spec
CONSTANTS
    k1 = k1  k2 = k2  n1 = n1  n2 = n2  u1 = u1  r1 = r1  r2 = r2  a1 = a1  a2 = a2
    Keys = {k1}
    Nodes = {n1}
    Users = {u1}
    NodeOf <- MCNodeOf
    OwnerOf <- MCOwnerOf
    PathOf <- MCPathOf
    Requests = {r1, r2}
    Admins = {a1, a2}
    DrainLimit = 1
    MaxBatches = 1
    Faults = {"store", "db", "crash"}
    MaxBackups = 1
    MaxRestores = 2
    MaxCrashes = 1
SYMMETRY Symmetry
INVARIANTS Inv RowsKeepFiles
PROPERTIES DeletesNothingNamed
