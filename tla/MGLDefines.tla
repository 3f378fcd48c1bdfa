----------------------------- MODULE MGLDefines -----------------------------
(***************************************************************************)
(* Lock modes, lock results and the conflict table of the multi-           *)
(* granularity lock (MGL) manager: src/novadbplus/lock/mgl/lock_defines.h  *)
(* and the head of src/novadbplus/lock/mgl/mgl_mgr.cpp.                    *)
(*                                                                         *)
(* The code keeps the modes that are running (pending) on a target as a    *)
(* 16-bit mask with one bit per mode; the model keeps the same information *)
(* as a set of modes: bit m is set iff m is in the set.                    *)
(***************************************************************************)

\* enum class LockMode.  LOCK_NONE is the mode of an MGLock that was
\* constructed and never locked; it is never the mode of a request.
LOCK_NONE == "NONE"
LockMode  == {"IS", "IX", "S", "X"}

\* enum class LockRes.  LOCKRES_DEADLOCK is declared and never produced
\* ("currently LOCKRES_DEADLOCK is not implemented").
LockRes == {"OK", "WAIT", "TIMEOUT", "UNINITED"}

\* The compatibility matrix of the lock modes as the design states it: IS
\* goes with IS, IX and S; IX with IS and IX; S with IS and S; X with
\* nothing.  The properties of the lock manager are stated with it, the
\* code decides with conflictTable.
Compatible(m1, m2) ==
    {m1, m2} \in {{"IS"}, {"IS", "IX"}, {"IS", "S"}, {"IX"}, {"S"}}

-----------------------------------------------------------------------------
\* A form a plausible bug would give the table: the row of S lacks the bit
\* of IX, so that the table is no longer symmetric.
conflictTable_SLacksIX ==
    [m \in LockMode \cup {LOCK_NONE} |->
        CASE m = LOCK_NONE -> {}
          [] m = "IS"      -> {"X"}
          [] m = "IX"      -> {"S", "X"}
          [] m = "S"       -> {"X"}
          [] m = "X"       -> {"IS", "IX", "S", "X"}]

-----------------------------------------------------------------------------
\* conflictTable[newMode] is the set of existing modes a new request of
\* mode newMode conflicts with.
conflictTable ==
    [m \in LockMode \cup {LOCK_NONE} |->
        CASE m = LOCK_NONE -> {}
          [] m = "IS"      -> {"X"}
          [] m = "IX"      -> {"S", "X"}
          [] m = "S"       -> {"IX", "X"}
          [] m = "X"       -> {"IS", "IX", "S", "X"}]

\* isConflict(modes, mode): (conflictTable[mode] & modes) != 0
isConflict(modes, mode) == conflictTable[mode] \cap modes # {}

=============================================================================
