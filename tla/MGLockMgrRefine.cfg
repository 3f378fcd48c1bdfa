CONSTANTS
    Locks = {l1, l2, l3, l4}
    t0 = t0
    t1 = t1
    t2 = t2
    Targets <- MCTargetsOne
    EmptyTarget = t0
    Hash <- MCHashOne
    SHARD_NUM = 2
SYMMETRY LockSymmetry
SPECIFICATION Spec
PROPERTY ImplementsGroupLock
