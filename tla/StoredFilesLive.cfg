SPECIFICATION FairSpec
CONSTANTS
    k1 = k1  k2 = k2  n1 = n1  n2 = n2  u1 = u1  r1 = r1  r2 = r2  a1 = a1  a2 = a2
    Keys = {k1, k2}
    Nodes = {n1, n2}
    Users = {u1}
    NodeOf <- MCNodeOf
    OwnerOf <- MCOwnerOf
    PathOf <- MCPathOf
    Requests = {r1}
    Admins = {}
    DrainLimit = 1
    MaxBatches = 2
    Faults = {"store", "crash"}
    MaxBackups = 0
    MaxRestores = 0
    MaxCrashes = 1
INVARIANTS NoOrphan
PROPERTIES QueueDrains
