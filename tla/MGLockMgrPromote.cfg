CONSTANTS
    Locks = {l1, l2, l3}
    t0 = t0
    t1 = t1
    t2 = t2
    Targets <- MCTargets
    EmptyTarget = t0
    Hash <- MCHash
    SHARD_NUM = 2
SPECIFICATION Spec
INVARIANT OldestWaiterConflicts
