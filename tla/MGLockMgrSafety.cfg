CONSTANTS
    Locks = {l1, l2, l3}
    t0 = t0
    t1 = t1
    t2 = t2
    Targets <- MCTargets
    EmptyTarget = t0
    Hash <- MCHash
    SHARD_NUM = 2
SPECIFICATION FairSpec
INVARIANT TypeOK
INVARIANT RunningCompatible
INVARIANT RefCountsMatchLists
INVARIANT StatusMatchesLists
INVARIANT EveryEntryHasHolder
PROPERTY WaiterServed
