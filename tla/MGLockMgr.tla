------------------------------ MODULE MGLockMgr ------------------------------
(***************************************************************************)
(* The multi-granularity lock manager: class MGLock of                     *)
(* src/novadbplus/lock/mgl/mgl.cpp and class MGLockMgr of                  *)
(* src/novadbplus/lock/mgl/mgl_mgr.cpp, over the scheduling contexts of    *)
(* module LockSchedCtx.                                                    *)
(*                                                                         *)
(* An MGLock is one lock request.  Its owner thread calls lock(target,     *)
(* mode, timeout), which registers the request with the manager under the  *)
(* mutex of the target's shard and, when the request has to wait, blocks   *)
(* on the MGLock's condition variable until it is granted or the timeout   *)
(* expires.  unlock() withdraws the request whether it runs or still       *)
(* waits.  The manager keeps, per shard, a map from target to              *)
(* LockSchedCtx; an entry is created by the first request for the target   *)
(* and erased by the unlock that leaves both of its lists empty.           *)
(*                                                                         *)
(* Every MGLockMgr call holds the shard mutex from its first to its last   *)
(* statement, so it is one action.  The steps of one lock() call are       *)
(* Lock, then (when the result was WAIT) WaitGranted or WaitTimeout.       *)
(***************************************************************************)
EXTENDS LockSchedCtx, FiniteSets, TLC

CONSTANTS
    Locks,        \* the MGLock objects
    Targets,      \* the lock targets ("", "storeId", "storeId:chunkId", ...)
    EmptyTarget,  \* the target "" of a constructed MGLock and of StoresLock
    Hash,         \* std::hash<std::string> on the targets
    SHARD_NUM     \* MGLockMgr::SHARD_NUM

ASSUME
    /\ EmptyTarget \in Targets
    /\ SHARD_NUM \in Nat \ {0}
    /\ Hash \in [Targets -> Nat]
    /\ Hash[EmptyTarget] = 0      \* lock(): "_targetHash = 0" when target is ""

VARIABLES
    shards,  \* MGLockMgr::_shards: shard index -> (target -> LockSchedCtx)
    mgl,     \* the fields _target, _mode, _res of every MGLock
    pc       \* where the owner thread of every MGLock is in lock()/unlock()

vars == <<shards, mgl, pc>>

Shards == 0 .. (SHARD_NUM - 1)

\* lock()/unlock(): "_shards[hash % SHARD_NUM]"
ShardOf(target) == Hash[target] % SHARD_NUM

\* core->getMode() for every MGLock
modeOf == [l \in Locks |-> mgl[l].mode]

\* MGLock::MGLock
NewMGLock == [target |-> EmptyTarget, mode |-> LOCK_NONE, res |-> "UNINITED"]

\* The states of the owner thread:
\*   idle     no call of lock() since construction or the last unlock()
\*   waiting  inside waitLock()
\*   locked   lock() returned LOCKRES_OK
\*   timedout lock() returned LOCKRES_TIMEOUT, unlock() not yet called
PcStates == {"idle", "waiting", "locked", "timedout"}

-----------------------------------------------------------------------------
\* The context of a target in its shard, as MGLockMgr::lock finds or makes it.
CtxOf(target) ==
    IF target \in DOMAIN shards[ShardOf(target)]
    THEN shards[ShardOf(target)][target]
    ELSE NewCtx

-----------------------------------------------------------------------------
\* Forms a plausible bug would give the manager.

\* the scheduled waiters are moved to the running list and their result is
\* not set (they are not woken either)
Promoted_None(old, new) == {}

\* the context is never erased from the shard's map
MgrUnlockShard_NoErase(shard, target, left) == [shard EXCEPT ![target] = left.ctx]

-----------------------------------------------------------------------------
\* The locks a scheduling step moved from pending to running: they get
\* setLockResult(LOCKRES_OK, ...) and notify().
Promoted(old, new) == ToSet(new.runningList) \ ToSet(old.runningList)

\* MGLockMgr::unlock, the map of the shard after LockSchedCtx::unlock left
\* `left`: the entry is erased when the context became empty.
MgrUnlockShard(shard, target, left) ==
    IF left.empty
    THEN Restrict(shard, DOMAIN shard \ {target})
    ELSE [shard EXCEPT ![target] = left.ctx]

-----------------------------------------------------------------------------
Init ==
    /\ shards = [s \in Shards |-> <<>>]
    /\ mgl    = [l \in Locks |-> NewMGLock]
    /\ pc     = [l \in Locks |-> "idle"]

\* MGLock::lock up to the test of the status, with MGLockMgr::lock and
\* LockSchedCtx::lock.  The call returns LOCKRES_OK when the request runs at
\* once and enters waitLock() otherwise.
Lock(core, target, mode) ==
    /\ pc[core] = "idle"
    /\ LET new == CtxLock(CtxOf(target), core, mode)
           res == IF core \in ToSet(new.runningList) THEN "OK" ELSE "WAIT"
       IN  /\ shards' = [shards EXCEPT ![ShardOf(target)] =
                                            (target :> new) @@ @]
           /\ mgl' = [mgl EXCEPT ![core] =
                          [target |-> target, mode |-> mode, res |-> res]]
           /\ pc' = [pc EXCEPT ![core] =
                          IF res = "OK" THEN "locked" ELSE "waiting"]

\* MGLock::waitLock returns true: the predicate _res == LOCKRES_OK holds
\* when the waiter is notified or when the timeout expires.
WaitGranted(core) ==
    /\ pc[core] = "waiting"
    /\ mgl[core].res = "OK"
    /\ pc' = [pc EXCEPT ![core] = "locked"]
    /\ UNCHANGED <<shards, mgl>>

\* MGLock::waitLock returns false: the timeout expired and the request still
\* waits.  lock() returns LOCKRES_TIMEOUT; the request stays in the pending
\* list until the owner calls unlock().
WaitTimeout(core) ==
    /\ pc[core] = "waiting"
    /\ mgl[core].res # "OK"
    /\ pc' = [pc EXCEPT ![core] = "timedout"]
    /\ UNCHANGED <<shards, mgl>>

\* MGLock::unlock with MGLockMgr::unlock and LockSchedCtx::unlock, followed
\* by the destruction of the MGLock and the construction of the next one
\* with this identity (an ILock owns its MGLock and locks it once).
Unlock(core) ==
    /\ pc[core] \in {"locked", "timedout"}
    /\ mgl[core].res # "UNINITED"
    /\ LET target == mgl[core].target
           old    == shards[ShardOf(target)][target]
           left   == CtxUnlock(old, core, mgl[core].res, modeOf)
       IN  /\ shards' = [shards EXCEPT ![ShardOf(target)] =
                                            MgrUnlockShard(@, target, left)]
           /\ mgl' = [l \in Locks |->
                        CASE l = core -> NewMGLock
                          [] l \in Promoted(old, left.ctx) ->
                                 [mgl[l] EXCEPT !.res = "OK"]
                          [] OTHER -> mgl[l]]
    /\ pc' = [pc EXCEPT ![core] = "idle"]

Next ==
    \/ \E core \in Locks, target \in Targets, mode \in LockMode :
           Lock(core, target, mode)
    \/ \E core \in Locks : WaitGranted(core)
    \/ \E core \in Locks : WaitTimeout(core)
    \/ \E core \in Locks : Unlock(core)

Spec == Init /\ [][Next]_vars

\* ENABLED <<Unlock(core)>>_vars as a state predicate: the guard of Unlock
\* (every Unlock step changes pc).
UnlockEnabled(core) ==
    /\ pc[core] \in {"locked", "timedout"}
    /\ mgl[core].res # "UNINITED"

\* A thread that holds or has given up a request calls unlock() (the ILock
\* destructor does), and a notified waiter returns from waitLock().  Nothing
\* obliges a thread to ask for a lock, and a timeout need not expire.
\* The first conjunct is WF_vars(Unlock(core)) written out by its definition
\* with UnlockEnabled.
Fairness ==
    /\ \A core \in Locks : \/ []<>(~UnlockEnabled(core))
                            \/ []<><<Unlock(core)>>_vars
    /\ \A core \in Locks : WF_vars(WaitGranted(core))

FairSpec == Spec /\ Fairness

-----------------------------------------------------------------------------
\* All contexts in the maps, by target.
Entries == UNION {DOMAIN shards[s] : s \in Shards}

CtxType ==
    [runningModes  : SUBSET LockMode,
     pendingModes  : SUBSET LockMode,
     runningRefCnt : [LockMode -> 0 .. Cardinality(Locks)],
     pendingRefCnt : [LockMode -> 0 .. Cardinality(Locks)],
     runningList   : BoundedSeq(Locks, Cardinality(Locks)),
     pendingList   : BoundedSeq(Locks, Cardinality(Locks))]

TypeOK ==
    /\ DOMAIN shards = Shards
    /\ \A s \in Shards :
         /\ DOMAIN shards[s] \subseteq {t \in Targets : ShardOf(t) = s}
         /\ \A t \in DOMAIN shards[s] : shards[s][t] \in CtxType
    /\ mgl \in [Locks -> [target : Targets,
                          mode   : LockMode \cup {LOCK_NONE},
                          res    : {"OK", "WAIT", "UNINITED"}]]
    /\ pc \in [Locks -> PcStates]

\* Safety of the lock: the requests that run on one target at the same time
\* are pairwise compatible, whatever order of lock, timeout and unlock led
\* there (LockSchedCtx::lock and schedPendingLocks decide it from the mask
\* _runningModes, never from the list).
RunningCompatible ==
    \A t \in Entries :
        \A i, j \in DOMAIN CtxOf(t).runningList :
            i # j => Compatible(modeOf[CtxOf(t).runningList[i]],
                                modeOf[CtxOf(t).runningList[j]])

\* The number of the entries of a list that have mode m.
CountOf(list, m) == Cardinality({i \in DOMAIN list : modeOf[list[i]] = m})

\* The bookkeeping the INVARIANT_Ds of incr/decRunningRef and
\* incr/decPendingRef assert: each reference count is the number of the
\* list's requests of that mode, and a mode is in the mask iff its count is
\* not zero.
RefCountsMatchLists ==
    \A t \in Entries :
        LET ctx == CtxOf(t) IN
        \A m \in LockMode :
            /\ ctx.runningRefCnt[m] = CountOf(ctx.runningList, m)
            /\ ctx.pendingRefCnt[m] = CountOf(ctx.pendingList, m)
            /\ m \in ctx.runningModes <=> ctx.runningRefCnt[m] # 0
            /\ m \in ctx.pendingModes <=> ctx.pendingRefCnt[m] # 0

\* An MGLock and the lists agree: its result is OK iff it is in the running
\* list of its own target, WAIT iff in the pending list, and it is in no
\* other list and in none twice.  MGLock::unlock relies on it (it erases
\* the list position the MGLock remembers), also for the request whose
\* lock() returned TIMEOUT and that was granted before unlock() was called.
StatusMatchesLists ==
    \A l \in Locks :
        \A t \in Targets :
            LET ctx   == CtxOf(t)
                where == {<<"OK", i>> : i \in
                            {i \in DOMAIN ctx.runningList : ctx.runningList[i] = l}}
                         \cup
                         {<<"WAIT", i>> : i \in
                            {i \in DOMAIN ctx.pendingList : ctx.pendingList[i] = l}}
            IN  IF t = mgl[l].target /\ mgl[l].res # "UNINITED"
                THEN \E i \in 1 .. Cardinality(Locks) : where = {<<mgl[l].res, i>>}
                ELSE where = {}

\* No target is left without a holder while requests wait for it, and the
\* map holds no context without requests: an unlock that empties the running
\* list schedules the waiters, and the one that empties both lists erases
\* the entry (the map would otherwise grow with every key ever locked).
EveryEntryHasHolder ==
    \A t \in Entries : CtxOf(t).runningList # <<>>

-----------------------------------------------------------------------------
\* The manager as a GroupLock: the holders of a target are the requests of
\* its running list, the queue is its pending list, and a target without a
\* context has neither.  The steps of waitLock() change nothing a GroupLock
\* shows.
Holders(t) == {<<l, modeOf[l]>> : l \in ToSet(CtxOf(t).runningList)}

Waiters(t) ==
    [i \in DOMAIN CtxOf(t).pendingList |->
        <<CtxOf(t).pendingList[i], modeOf[CtxOf(t).pendingList[i]]>>]

Abs == INSTANCE GroupLock
           WITH Requests <- Locks,
                granted  <- [t \in Targets |-> Holders(t)],
                waiting  <- [t \in Targets |-> Waiters(t)]

\* The manager implements the group lock: every MGLockMgr::lock is an
\* Acquire that is granted or queued as the group lock says, and every
\* MGLockMgr::unlock, of a holder, of a waiter or of a request that timed
\* out and was granted since, is a Leave that admits waiters from the head
\* of the queue only, keeps the holders compatible and does not leave the
\* target free while requests wait (LockSchedCtx::lock, unlock and
\* schedPendingLocks together).
ImplementsGroupLock == Abs!AbsSpec

\* Every request that waits is in the end granted or given up by its
\* timeout, and when no timeout expires it is granted: a waiter is never
\* overtaken for ever by newer compatible requests.
WaiterServed ==
    \A l \in Locks : (pc[l] = "waiting") ~> (pc[l] # "waiting")

\* What the design says of release: "On each release, pending requests are
\* promoted in enqueue order, stopping at the first incompatible one."  Then
\* the oldest waiter is always one that conflicts with a running request.
OldestWaiterConflicts ==
    \A t \in Entries :
        LET ctx == CtxOf(t) IN
        ctx.pendingList # <<>> =>
            \E i \in DOMAIN ctx.runningList :
                ~Compatible(modeOf[Head(ctx.pendingList)],
                            modeOf[ctx.runningList[i]])

=============================================================================
