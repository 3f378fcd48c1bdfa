------------------------------- MODULE MCAtom -------------------------------
(***************************************************************************)
(* Atom for TLC: two threads, a counter both write and a counter only the  *)
(* first thread writes, a T of two bits.                                   *)
(***************************************************************************)
EXTENDS Atom, TLC

CONSTANTS t1, t2, shared, own

MCThreads == {t1, t2}
MCAtoms   == {shared, own}
MCOwner   == (shared :> {t1, t2}) @@ (own :> {t1})

=============================================================================
