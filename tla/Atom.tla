-------------------------------- MODULE Atom --------------------------------
(***************************************************************************)
(* The counter class Atom<T> of src/novadbplus/utils/atomic_utility.h: a   *)
(* std::atomic<T> whose operators are built from relaxed loads and stores. *)
(* operator++ and operator-- are one read-modify-write; operator+=,        *)
(* operator= and the move constructor are a load and a later store, and    *)
(* other threads run in between.  Each load and each store is one step.    *)
(*                                                                         *)
(* T is an unsigned integer of which Modulus values are told apart.        *)
(* operator-, the copy constructor and get() only read and build a private *)
(* object; they change nothing another thread sees and are not actions.    *)
(***************************************************************************)
EXTENDS Naturals, FiniteSets

CONSTANTS
    Threads,    \* the threads that use the counters
    Atoms,      \* the Atom objects they share
    Modulus,    \* 2^w for a T of w bits
    Owner       \* Owner[a]: the threads whose calls write a

ASSUME /\ Modulus \in Nat \ {0}
       /\ Owner \in [Atoms -> SUBSET Threads]

VARIABLES
    data,       \* data[a]: _data of a
    op,         \* op[t]: the operator thread t is inside, and what it loaded
    applied     \* applied[a]: what a holds if no update of it was lost

vars == <<data, op, applied>>

Value == 0 .. Modulus - 1
NoVal == Modulus
Wrap(n) == n % Modulus

Idle == [kind |-> "idle", self |-> NoVal, other |-> NoVal,
         lhs |-> NoVal, rhs |-> NoVal]

Init ==
    /\ data = [a \in Atoms |-> 0]
    /\ applied = data
    /\ op = [t \in Threads |-> Idle]

\* Thread t stores v to a; delta is what the call means to add to a.
Store(a, v, delta) ==
    /\ data' = [data EXCEPT ![a] = v]
    /\ applied' = [applied EXCEPT ![a] = Wrap(@ + delta)]

-----------------------------------------------------------------------------
\* operator++ that does not wrap at the largest value of T.
Increment_NoWrap(t, a) ==
    /\ op[t] = Idle
    /\ t \in Owner[a]
    /\ Store(a, data[a] + 1, 1)
    /\ UNCHANGED op

\* The store of operator+= without the addend.
AddStore_DropsAddend(t) ==
    /\ op[t].kind = "add"
    /\ op[t].lhs # NoVal /\ op[t].rhs # NoVal
    /\ Store(op[t].self, op[t].lhs, op[t].rhs)
    /\ op' = [op EXCEPT ![t] = Idle]

\* The move constructor taken for a write of the new object, not of the
\* object it empties.
Call_MoveWritesSelf(t, kind, a, b) ==
    /\ op[t] = Idle
    /\ t \in Owner[a]
    /\ op' = [op EXCEPT ![t] = [Idle EXCEPT !.kind = kind, !.self = a,
                                             !.other = b]]
    /\ UNCHANGED <<data, applied>>

-----------------------------------------------------------------------------
\* ++_data and --_data: one atomic read-modify-write each.
Increment(t, a) ==
    /\ op[t] = Idle
    /\ t \in Owner[a]
    /\ Store(a, Wrap(data[a] + 1), 1)
    /\ UNCHANGED op

Decrement(t, a) ==
    /\ op[t] = Idle
    /\ t \in Owner[a]
    /\ Store(a, Wrap(data[a] + Modulus - 1), Modulus - 1)
    /\ UNCHANGED op

\* Thread t enters a += b, a = b or Atom(std::move(b)).  The move
\* constructor writes b, the other two write a.
Call(t, kind, a, b) ==
    /\ op[t] = Idle
    /\ t \in Owner[IF kind = "move" THEN b ELSE a]
    /\ op' = [op EXCEPT ![t] = [Idle EXCEPT !.kind = kind, !.self = a,
                                             !.other = b]]
    /\ UNCHANGED <<data, applied>>

\* _data.load(RLX) of operator+=.  The order of the two loads of the sum
\* is unspecified: either may come first.
LoadSelf(t) ==
    /\ op[t].kind = "add"
    /\ op[t].lhs = NoVal
    /\ op' = [op EXCEPT ![t].lhs = data[op[t].self]]
    /\ UNCHANGED <<data, applied>>

\* other._data.load(RLX) of operator+=, operator= and the move constructor.
LoadOther(t) ==
    /\ op[t].kind \in {"add", "assign", "move"}
    /\ op[t].rhs = NoVal
    /\ op' = [op EXCEPT ![t].rhs = data[op[t].other]]
    /\ UNCHANGED <<data, applied>>

\* _data.store(sum, RLX) of operator+=: the call adds what it read of b.
AddStore(t) ==
    /\ op[t].kind = "add"
    /\ op[t].lhs # NoVal /\ op[t].rhs # NoVal
    /\ Store(op[t].self, Wrap(op[t].lhs + op[t].rhs), op[t].rhs)
    /\ op' = [op EXCEPT ![t] = Idle]

\* _data.store(loaded, RLX) of operator=: a becomes what was read of b.
AssignStore(t) ==
    /\ op[t].kind = "assign"
    /\ op[t].rhs # NoVal
    /\ Store(op[t].self, op[t].rhs,
             Modulus - applied[op[t].self] + op[t].rhs)
    /\ op' = [op EXCEPT ![t] = Idle]

\* v._data.store(0, RLX) of the move constructor: what the new object took
\* leaves v.
MoveStore(t) ==
    /\ op[t].kind = "move"
    /\ op[t].rhs # NoVal
    /\ Store(op[t].other, 0, Modulus - op[t].rhs)
    /\ op' = [op EXCEPT ![t] = Idle]

Next ==
    \E t \in Threads :
        \/ \E a \in Atoms : Increment(t, a) \/ Decrement(t, a)
        \/ \E kind \in {"add", "assign", "move"}, a, b \in Atoms :
               Call(t, kind, a, b)
        \/ LoadSelf(t) \/ LoadOther(t)
        \/ AddStore(t) \/ AssignStore(t) \/ MoveStore(t)

Spec == Init /\ [][Next]_vars

-----------------------------------------------------------------------------
\* The variables have the values their declarations allow.
TypeOK ==
    /\ data \in [Atoms -> Value]
    /\ applied \in [Atoms -> Value]
    /\ op \in [Threads -> [kind : {"idle", "add", "assign", "move"},
                           self : Atoms \cup {NoVal},
                           other : Atoms \cup {NoVal},
                           lhs : Value \cup {NoVal},
                           rhs : Value \cup {NoVal}]]

\* No update of a counter is lost: every Atom holds the sum of what the
\* calls of operator++, operator--, operator+=, operator= and the move
\* constructor added to it and took from it, whatever threads made them.
NoLostUpdate == data = applied

\* A counter that one thread writes is exact, although its writer reads
\* counters that other threads are changing (operator+= and operator= load
\* the other operand in a step of its own) and although others read it.
OwnedAtomExact ==
    \A a \in Atoms : Cardinality(Owner[a]) <= 1 => data[a] = applied[a]

\* Updates are lost by the stores of operator+= and of the move constructor
\* only: a step after which a counter is no longer exact is the store of a
\* thread that loaded the counter before another thread wrote it.
OnlyStaleStoresLose ==
    [][\A a \in Atoms :
          data[a] = applied[a] /\ data'[a] # applied'[a] =>
              \E t \in Threads :
                  /\ op'[t] = Idle
                  /\ \/ op[t].kind = "add" /\ op[t].self = a
                        /\ op[t].lhs # data[a]
                     \/ op[t].kind = "move" /\ op[t].other = a
                        /\ op[t].rhs # data[a]]_vars

=============================================================================
