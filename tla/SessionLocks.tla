---------------------------- MODULE SessionLocks ----------------------------
(***************************************************************************)
(* The lock hierarchy of src/novadbplus/lock/lock.h at work over the lock  *)
(* manager of module MGLockMgr.  StoresLock, StoreLock, ChunkLock and      *)
(* KeyLock are the levels of a tree of targets.  Every ILock owns its      *)
(* MGLock and its parent (std::unique_ptr<ILock> _parent), and no          *)
(* constructor takes a parent: a lock brings its own chain, the intent     *)
(* locks on every level above it, taken from the top before the lock       *)
(* itself.  A command on several keys takes one such chain per key, the    *)
(* keys in the canonical order.  A lock that times out fails the command.  *)
(* The locks are released by their destructors, the youngest first.        *)
(*                                                                         *)
(* lock.h declares the classes and their members; the bodies of the        *)
(* constructors and destructors are not in the sources.  What they do is   *)
(* taken from the declarations and from the design (lock manager contract  *)
(* and session/router, step 5).  _isRecursive is declared and nowhere      *)
(* used in the sources: the model gives it no effect.                      *)
(***************************************************************************)
EXTENDS MGLDefines, Integers, Sequences, SequencesExt, FiniteSets

CONSTANTS
    Sessions,   \* the sessions that run commands
    Nodes,      \* every target: the stores lock, stores, chunks, keys
    Root,       \* the target "" of StoresLock
    Parent,     \* Parent[n]: the level above n, for every n but Root
    Rank,       \* Rank[n]: the place of n in the canonical order
    Requests,   \* what a command may ask for: targets as given, and a mode
    MaxLocks,   \* the most MGLocks one command takes
    Hash,       \* std::hash on the targets
    SHARD_NUM   \* MGLockMgr::SHARD_NUM

ASSUME /\ Root \in Nodes
       /\ Parent \in [Nodes \ {Root} -> Nodes]
       /\ Rank \in [Nodes -> Nat]
       /\ \A n \in Nodes \ {Root} : Rank[Parent[n]] < Rank[n]

VARIABLES
    shards, mgl, pc,    \* the lock manager (module MGLockMgr)
    sess                \* sess[s]: the command of s, its locks, how many
                        \* MGLocks it has constructed

vars == <<shards, mgl, pc, sess>>

\* The MGLocks: the i-th of a command of session s.
Locks == Sessions \X (1 .. MaxLocks)

Mgr == INSTANCE MGLockMgr WITH Targets <- Nodes, EmptyTarget <- Root

NoCommand == [phase |-> "idle", plan |-> <<>>, n |-> 0]

\* The levels above n, the highest first.
RECURSIVE PathTo(_)
PathTo(n) == IF n = Root THEN <<>> ELSE Append(PathTo(Parent[n]), Parent[n])

Above(n) == ToSet(PathTo(n))

\* ILock::getParentMode: S needs IS on the levels above, X needs IX.
getParentMode(mode) == IF mode \in {"IS", "S"} THEN "IS" ELSE "IX"

InOrder(a, b) == Rank[a] < Rank[b]

-----------------------------------------------------------------------------
\* Forms a plausible bug would give the session's use of the locks.

\* The keys locked in the order the client wrote them.
Canonical_AsGiven(targets) == targets

\* The command is over while its oldest lock is still held.
AllReleased_ButOldest(s) == sess[s].n <= 1

-----------------------------------------------------------------------------
\* The canonical order: storeId ascending, then chunkId, then key.
Canonical(targets) == SortSeq(targets, InOrder)

\* The MGLocks one lock constructs: its parents from the top, in the mode
\* getParentMode gives, then its own.
Chain(target, mode) ==
    [i \in DOMAIN PathTo(target) |-> <<PathTo(target)[i], getParentMode(mode)>>]
        \o <<<<target, mode>>>>

\* The locks of a command: the chain of every target, the targets in the
\* canonical order.
Plan(targets, mode) ==
    FlattenSeq([i \in DOMAIN targets |-> Chain(Canonical(targets)[i], mode)])

\* The youngest MGLock of the command of s.
Top(s) == <<s, sess[s].n>>

\* Every lock of the command has been destroyed.
AllReleased(s) == sess[s].n = 0

Init ==
    /\ Mgr!Init
    /\ sess = [s \in Sessions |-> NoCommand]

\* A command arrives: its lock set is fixed.
Begin(s, req) ==
    /\ sess[s] = NoCommand
    /\ sess' = [sess EXCEPT ![s] =
                   [phase |-> "acquiring", plan |-> Plan(req.targets, req.mode),
                    n |-> 0]]
    /\ UNCHANGED <<shards, mgl, pc>>

\* The constructor of the next lock: MGLock::lock up to waitLock.
Acquire(s) ==
    /\ sess[s].phase = "acquiring"
    /\ sess[s].n < Len(sess[s].plan)
    /\ sess[s].n > 0 => pc[Top(s)] = "locked"
    /\ LET lock == sess[s].plan[sess[s].n + 1]
       IN  Mgr!Lock(<<s, sess[s].n + 1>>, lock[1], lock[2])
    /\ sess' = [sess EXCEPT ![s].n = @ + 1]

\* waitLock returns: the lock was granted.
Granted(s) ==
    /\ sess[s].phase = "acquiring"
    /\ sess[s].n > 0
    /\ Mgr!WaitGranted(Top(s))
    /\ UNCHANGED sess

\* waitLock returns: the timeout expired.  The command fails with a lock
\* error and what it has constructed is destroyed.
TimedOut(s) ==
    /\ sess[s].phase = "acquiring"
    /\ sess[s].n > 0
    /\ Mgr!WaitTimeout(Top(s))
    /\ sess' = [sess EXCEPT ![s].phase = "releasing"]

\* The command has all its locks, runs and ends.
Finish(s) ==
    /\ sess[s].phase = "acquiring"
    /\ sess[s].n = Len(sess[s].plan)
    /\ pc[Top(s)] = "locked"
    /\ sess' = [sess EXCEPT ![s].phase = "releasing"]
    /\ UNCHANGED <<shards, mgl, pc>>

\* The destructor of the youngest lock: MGLock::unlock.
Release(s) ==
    /\ sess[s].phase = "releasing"
    /\ sess[s].n > 0
    /\ Mgr!Unlock(Top(s))
    /\ sess' = [sess EXCEPT ![s].n = @ - 1]

\* The command is over.
Done(s) ==
    /\ sess[s].phase = "releasing"
    /\ AllReleased(s)
    /\ sess' = [sess EXCEPT ![s] = NoCommand]
    /\ UNCHANGED <<shards, mgl, pc>>

Next ==
    \E s \in Sessions :
        \/ \E req \in Requests : Begin(s, req)
        \/ Acquire(s)
        \/ Granted(s)
        \/ TimedOut(s)
        \/ Finish(s)
        \/ Release(s)
        \/ Done(s)

Spec == Init /\ [][Next]_vars

-----------------------------------------------------------------------------
\* The MGLocks of s that lock() returned OK for, as <<target, mode>>.
Holds(s) ==
    {<<mgl[c].target, mgl[c].mode>> : c \in {c \in Locks : c[1] = s
                                                /\ pc[c] = "locked"}}

\* The session variables have the values their declarations allow (the
\* manager's are checked with MGLockMgr), and a session without a command
\* has no lock and no request in the manager: a command that ends, by
\* success or by a timeout at any of its locks, leaves nothing behind.
TypeOK ==
    /\ DOMAIN sess = Sessions
    /\ \A s \in Sessions :
          /\ sess[s].phase \in {"idle", "acquiring", "releasing"}
          /\ sess[s].n \in 0 .. MaxLocks
          /\ \A i \in 1 .. MaxLocks : i > sess[s].n => pc[<<s, i>>] = "idle"

\* What multi-granularity locking is for: an S or X lock covers everything
\* below its target.  No session holds a lock at or below the target of
\* another session's S or X lock in a mode that conflicts with it,
\* although the two locks are requests for different targets and the
\* manager never compares them.
CoveredAccessExclusive ==
    \A a, b \in Sessions :
        a # b =>
            \A x \in Holds(a), y \in Holds(b) :
                (x[2] \in {"S", "X"} /\ x[1] \in Above(y[1]) \cup {y[1]})
                    => Compatible(x[2], y[2])

\* The sessions that the request s waits with stands behind: the holders
\* of its target in a conflicting mode and everyone before it in the queue.
BlockedBy(s) ==
    LET ctx   == Mgr!CtxOf(mgl[Top(s)].target)
        ahead == {ctx.pendingList[i] : i \in
                     {i \in DOMAIN ctx.pendingList :
                         \E j \in DOMAIN ctx.pendingList :
                             i < j /\ ctx.pendingList[j] = Top(s)}}
        conflicting == {c \in ToSet(ctx.runningList) :
                           ~Compatible(mgl[c].mode, mgl[Top(s)].mode)}
    IN  {c[1] : c \in ahead \cup conflicting} \ {s}

\* s is in waitLock() and its request has not been granted.
Waits(s) ==
    /\ sess[s].phase = "acquiring" /\ sess[s].n > 0
    /\ pc[Top(s)] = "waiting" /\ mgl[Top(s)].res = "WAIT"

\* s asks again for a lock it holds: the intent lock above its second key
\* on a level where it has the intent lock above its first.
Retakes(s) ==
    \E i \in 1 .. sess[s].n - 1 :
        pc[<<s, i>>] = "locked" /\ mgl[<<s, i>>].target = mgl[Top(s)].target

\* A group of sessions each of which waits behind another of the group.
WaitCycle(group) ==
    \A s \in group : Waits(s) /\ BlockedBy(s) \cap group # {}

\* "Deadlock prevention: callers acquire locks in a canonical order", and
\* the manager detects none.  The order keeps the locks a command names
\* free of wait cycles.  What it does not cover is the chain every lock
\* brings: a command on two keys asks again for the intent locks it holds,
\* and LockSchedCtx::lock queues the request behind any waiter, a chunk or
\* store lock of another session that waits for the first intent lock to
\* go.  Every wait cycle there is goes through such a request; only a
\* timeout ends it.
WaitCycleOnlyThroughRetakenIntent ==
    \A group \in SUBSET Sessions \ {{}} :
        WaitCycle(group) => \E s \in group : Retakes(s)

=============================================================================
