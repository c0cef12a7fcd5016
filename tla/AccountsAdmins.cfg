\* One account, two instances, two admins at once.
SPECIFICATION FairSpec
CONSTANTS
    a1 = a1  a2 = a2  i1 = i1  i2 = i2  r1 = r1  r2 = r2
    Accounts = {a1}
    Instances = {i1, i2}
    Admins = {r1, r2}
    Free = Free
    MaxSent = 2
    MaxWrites = 1
    MaxFaults = 1
INVARIANTS Inv SuspendedStaysRefused NobodyIsLockedOutUnseen DeletedLeavesNothing
PROPERTIES MirrorsCatchUp
CHECK_DEADLOCK FALSE
