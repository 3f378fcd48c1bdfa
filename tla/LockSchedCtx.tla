---------------------------- MODULE LockSchedCtx ----------------------------
(***************************************************************************)
(* class LockSchedCtx of src/novadbplus/lock/mgl/mgl_mgr.cpp: the          *)
(* scheduling context of ONE lock target.  It holds the list of the        *)
(* MGLocks that run (hold the target), the FIFO list of the MGLocks that   *)
(* wait for it, and for each list a per-mode reference count with the      *)
(* mask of the modes whose count is not zero.                              *)
(*                                                                         *)
(* A context is a record; every member function is an operator from the    *)
(* context it is called on to the context it leaves.  Every call happens   *)
(* under the mutex of the shard that owns the context, so a call is one    *)
(* step of the module that uses these operators (MGLockMgr).               *)
(*                                                                         *)
(* The lists hold MGLock pointers; the model holds lock identities and is  *)
(* given the mode of each (core->getMode()) as the function modeOf.        *)
(***************************************************************************)
EXTENDS MGLDefines, Integers, Sequences, SequencesExt

\* LockSchedCtx::LockSchedCtx()
NewCtx ==
    [runningModes  |-> {},
     pendingModes  |-> {},
     runningRefCnt |-> [m \in LockMode |-> 0],
     pendingRefCnt |-> [m \in LockMode |-> 0],
     runningList   |-> <<>>,
     pendingList   |-> <<>>]

\* The mask after a count moved to cnt: the bit is set when the count becomes
\* 1 and cleared when it becomes 0.
MaskAfter(modes, mode, cnt) ==
    CASE cnt = 1 -> modes \cup {mode}
      [] cnt = 0 -> modes \ {mode}
      [] OTHER   -> modes

-----------------------------------------------------------------------------
\* Forms a plausible bug would give the reference counting.

\* the mode bit is cleared on every decrement, not only on the last one
decRunningRef_ClearsAlways(ctx, mode) ==
    [ctx EXCEPT !.runningRefCnt[mode] = @ - 1,
                !.runningModes = @ \ {mode}]

-----------------------------------------------------------------------------
incrPendingRef(ctx, mode) ==
    [ctx EXCEPT !.pendingRefCnt[mode] = @ + 1,
                !.pendingModes = MaskAfter(@, mode, ctx.pendingRefCnt[mode] + 1)]

decPendingRef(ctx, mode) ==
    [ctx EXCEPT !.pendingRefCnt[mode] = @ - 1,
                !.pendingModes = MaskAfter(@, mode, ctx.pendingRefCnt[mode] - 1)]

incrRunningRef(ctx, mode) ==
    [ctx EXCEPT !.runningRefCnt[mode] = @ + 1,
                !.runningModes = MaskAfter(@, mode, ctx.runningRefCnt[mode] + 1)]

decRunningRef(ctx, mode) ==
    [ctx EXCEPT !.runningRefCnt[mode] = @ - 1,
                !.runningModes = MaskAfter(@, mode, ctx.runningRefCnt[mode] - 1)]

-----------------------------------------------------------------------------
\* Forms a plausible bug would give the scheduling.

\* a compatible request runs at once although older requests are waiting
CtxLock_Barging(ctx, core, mode) ==
    IF isConflict(ctx.runningModes, mode)
    THEN incrPendingRef([ctx EXCEPT !.pendingList = Append(@, core)], mode)
    ELSE incrRunningRef([ctx EXCEPT !.runningList = Append(@, core)], mode)

\* the scan goes on past a conflicting waiter ("continue" for "break")
schedPendingLocks_Continue(ctx, modeOf) ==
    LET Step(c, tmpLock) ==
            IF isConflict(c.runningModes, modeOf[tmpLock])
            THEN c
            ELSE decPendingRef(
                   incrRunningRef(
                     [c EXCEPT !.runningList = Append(@, tmpLock),
                               !.pendingList = Remove(@, tmpLock)],
                     modeOf[tmpLock]),
                   modeOf[tmpLock])
    IN  FoldLeft(Step, ctx, ctx.pendingList)

-----------------------------------------------------------------------------
\* LockSchedCtx::lock.  The request runs when it conflicts with no running
\* mode AND nobody waits; otherwise it joins the end of the pending list.
\* The MGLock's result is OK in the first case and WAIT in the second.
CtxLock(ctx, core, mode) ==
    IF isConflict(ctx.runningModes, mode) \/ Len(ctx.pendingList) >= 1
    THEN incrPendingRef([ctx EXCEPT !.pendingList = Append(@, core)], mode)
    ELSE incrRunningRef([ctx EXCEPT !.runningList = Append(@, core)], mode)

\* LockSchedCtx::schedPendingLocks.  Moves waiters to the running list from
\* the head of the pending list and stops at the first one that conflicts
\* with the modes running by then.  Each moved MGLock gets the result OK and
\* is notified.
RECURSIVE schedPendingLocks(_, _)
schedPendingLocks(ctx, modeOf) ==
    IF \/ ctx.pendingList = <<>>
       \/ isConflict(ctx.runningModes, modeOf[Head(ctx.pendingList)])
    THEN ctx
    ELSE LET tmpLock == Head(ctx.pendingList)
             moved   == [ctx EXCEPT !.runningList = Append(@, tmpLock),
                                    !.pendingList = Tail(@)]
         IN  schedPendingLocks(
               decPendingRef(incrRunningRef(moved, modeOf[tmpLock]),
                             modeOf[tmpLock]),
               modeOf)

\* What unlock returns: the context it leaves and whether both lists are
\* empty (the caller then erases the context from the shard's map).
Left(ctx) ==
    [ctx   |-> ctx,
     empty |-> ctx.pendingList = <<>> /\ ctx.runningList = <<>>]

-----------------------------------------------------------------------------
\* Forms a plausible bug would give unlock.

\* the last holder leaves and the waiters are not scheduled
CtxUnlock_NoSched(ctx, core, status, modeOf) ==
    IF status = "OK"
    THEN Left(decRunningRef([ctx EXCEPT !.runningList = Remove(@, core)],
                            modeOf[core]))
    ELSE Left(schedPendingLocks(
                decPendingRef([ctx EXCEPT !.pendingList = Remove(@, core)],
                              modeOf[core]),
                modeOf))

\* a waiter that leaves is taken for a holder (the result of the lock() call
\* is trusted, not the status under the shard mutex)
CtxUnlock_AsRunning(ctx, core, status, modeOf) ==
    LET released == decRunningRef(
                      [ctx EXCEPT !.runningList = Remove(@, core)],
                      modeOf[core])
    IN  IF released.runningModes # {}
        THEN [ctx |-> released, empty |-> FALSE]
        ELSE Left(schedPendingLocks(released, modeOf))

-----------------------------------------------------------------------------
\* LockSchedCtx::unlock, status being core->getStatus() (OK or WAIT).
\*  OK:   core leaves the running list.  While some mode still runs the
\*        call returns false at once; the waiters are scheduled only when
\*        the running list became empty.
\*  WAIT: core leaves the pending list and the waiters are scheduled.
CtxUnlock(ctx, core, status, modeOf) ==
    IF status = "OK"
    THEN LET released == decRunningRef(
                           [ctx EXCEPT !.runningList = Remove(@, core)],
                           modeOf[core])
         IN  IF released.runningModes # {}
             THEN [ctx |-> released, empty |-> FALSE]
             ELSE Left(schedPendingLocks(released, modeOf))
    ELSE Left(schedPendingLocks(
                decPendingRef([ctx EXCEPT !.pendingList = Remove(@, core)],
                              modeOf[core]),
                modeOf))

=============================================================================
