------------------------------ MODULE GroupLock ------------------------------
(***************************************************************************)
(* What the lock manager promises its callers, with nothing of how it      *)
(* keeps its books: a lock per target that a group of mutually compatible  *)
(* requests holds together, and a queue of the requests that wait, served  *)
(* in arrival order.                                                       *)
(*                                                                         *)
(*  - A request is granted at once when it is compatible with every        *)
(*    holder and nobody waits; otherwise it joins the end of the queue.    *)
(*  - When a request leaves (released by its holder, or withdrawn while    *)
(*    it waits), some number of the OLDEST waiters is admitted; the lock   *)
(*    does not say how many, only that the holders stay compatible and     *)
(*    that the lock is not left free while requests wait.                  *)
(*                                                                         *)
(* Module MGLockMgr shows that the manager implements this specification.  *)
(***************************************************************************)
EXTENDS MGLDefines, Naturals, Sequences, FiniteSets

CONSTANTS
    Requests,   \* the identities of the lock requests
    Targets     \* what can be locked

VARIABLES
    granted,    \* granted[t]: the requests <<r, mode>> that hold t
    waiting     \* waiting[t]: the requests <<r, mode>> that wait for t, oldest first

absVars == <<granted, waiting>>

Request == Requests \X LockMode

\* The requests of a queue, as a set.
Queued(t) == {waiting[t][i] : i \in DOMAIN waiting[t]}

\* The identities that hold or wait for some target.
Active == {q[1] : q \in UNION {granted[t] \cup Queued(t) : t \in Targets}}

PairwiseCompatible(group) ==
    \A p, q \in group : p # q => Compatible(p[2], q[2])

\* queue without the request r
Without(queue, r) == SelectSeq(queue, LAMBDA q : q[1] # r)

-----------------------------------------------------------------------------
AbsInit ==
    /\ granted = [t \in Targets |-> {}]
    /\ waiting = [t \in Targets |-> <<>>]

\* A new request for t in mode m.
Acquire(r, t, m) ==
    /\ r \notin Active
    /\ IF waiting[t] = <<>> /\ PairwiseCompatible(granted[t] \cup {<<r, m>>})
       THEN /\ granted' = [granted EXCEPT ![t] = @ \cup {<<r, m>>}]
            /\ UNCHANGED waiting
       ELSE /\ waiting' = [waiting EXCEPT ![t] = Append(@, <<r, m>>)]
            /\ UNCHANGED granted

\* Request r leaves t, and the k oldest of the remaining waiters are
\* admitted.
Leave(r, t) ==
    /\ r \in {q[1] : q \in granted[t] \cup Queued(t)}
    /\ LET holders == {q \in granted[t] : q[1] # r}
           queue   == Without(waiting[t], r)
       IN  \E k \in 0 .. Len(queue) :
             LET group == holders \cup {queue[i] : i \in 1 .. k} IN
             /\ PairwiseCompatible(group)
             /\ queue # <<>> => group # {}
             /\ granted' = [granted EXCEPT ![t] = group]
             /\ waiting' = [waiting EXCEPT ![t] = SubSeq(queue, k + 1, Len(queue))]

AbsNext ==
    \/ \E r \in Requests, t \in Targets, m \in LockMode : Acquire(r, t, m)
    \/ \E r \in Requests, t \in Targets : Leave(r, t)

AbsSpec == AbsInit /\ [][AbsNext]_absVars

=============================================================================
