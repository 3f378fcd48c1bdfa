CONSTANTS
    Sessions = {s1, s2}
    stores = stores  store = store  chunk = chunk  k1 = k1  k2 = k2
    Nodes <- MCNodes
    Root = stores
    Parent <- MCParent
    Rank <- MCRank
    Requests <- MCRequests
    MaxLocks = 8
    Hash <- MCHash
    SHARD_NUM = 2
SPECIFICATION Spec
INVARIANTS
    TypeOK
    CoveredAccessExclusive
    WaitCycleOnlyThroughRetakenIntent
