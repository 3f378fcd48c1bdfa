----------------------------- MODULE MCMGLockMgr -----------------------------
(***************************************************************************)
(* MGLockMgr for model checking: three targets on two shards, so that two  *)
(* targets share a shard (and its map) and one is alone on its shard.      *)
(***************************************************************************)
EXTENDS MGLockMgr

CONSTANTS t0, t1, t2

MCTargets == {t0, t1, t2}

\* t0 is the target "" (hash 0); t2 falls on the shard of t0, t1 on the other.
MCHash == (t0 :> 0) @@ (t1 :> 1) @@ (t2 :> 2)

LockSymmetry == Permutations(Locks)

\* For the refinement run: one target and one request more.  Everything a
\* group lock shows happens inside one context, and it takes four requests
\* for a waiter to stand behind one that conflicts with the holders while it
\* is itself compatible with them.
MCTargetsOne == {t0}

MCHashOne == (t0 :> 0)

=============================================================================
