---------------------------- MODULE ServerParams ----------------------------
(***************************************************************************)
(* The typed parameters of src/novadbplus/server/server_params.h: BaseVar  *)
(* and its classes StringVar, IntVar, Int64Var, FloatVar, DoubleVar,       *)
(* BoolVar and NoUseVar.  parseFile sets them at start-up from one thread; *)
(* afterwards every CONFIG SET runs setVar on the thread of its session,   *)
(* without a lock.  set() calls the hook Onupdate whenever one is          *)
(* registered, at start-up as well.                                        *)
(*                                                                         *)
(* A text is a record: whether it is quoted, whether it is a number, and   *)
(* the number (or which word it is).  The letters are not modelled.  A     *)
(* number is a count of the smallest step a text can tell apart; a float   *)
(* or a double keeps it to the step its mantissa has room for.             *)
(*                                                                         *)
(* Outside the sources and assumed: the hooks are registered before the    *)
(* server serves sessions, and a hook reads its parameter and installs     *)
(* what it read in one step.                                               *)
(***************************************************************************)
EXTENDS Integers

CONSTANTS
    Params,     \* the registered parameters
    Var,        \* Var[p]: class, bounds, hooks of parameter p
    Default,    \* Default[p]: the value its member is initialised with
    Inputs,     \* the texts a configuration file or a CONFIG SET carries
    Clients,    \* the sessions that run CONFIG SET
    IntBits,    \* width of int
    Grain       \* Grain[class]: the step a float and a double resolve

Classes == {"string", "int", "int64", "float", "double", "bool", "nouse"}

IntMin == -(2 ^ (IntBits - 1))
IntMax == 2 ^ (IntBits - 1) - 1

Text(quoted, isNum, n) == [quoted |-> quoted, isNum |-> isNum, n |-> n]
Yes == Text(FALSE, FALSE, 1)
No  == Text(FALSE, FALSE, 0)

VARIABLES
    phase,      \* "startup" while parseFile runs, then "running"
    value,      \* value[p]: *value of parameter p
    setFlag,    \* setFlag[p]: _setFlag of a NoUseVar
    hook,       \* the parameters whose Onupdate is not NULL
    derived,    \* derived[p]: what the Onupdate hook of p last installed
    session     \* session[c]: the CONFIG SET session c is in

vars == <<phase, value, setFlag, hook, derived, session>>

Idle == [pc |-> "idle"]

-----------------------------------------------------------------------------
\* if (Onupdate != NULL) with the test inverted.
CallsOnupdate_WhenNull(p) == p \notin hook /\ Var[p].class # "nouse"

\* BoolVar::set without its call of Onupdate.
CallsOnupdate_NotForBool(p) ==
    p \in hook /\ Var[p].class \notin {"nouse", "bool"}

-----------------------------------------------------------------------------
\* static_cast of an int64_t to the int behind *value.
ToInt(n) == ((n - IntMin) % 2 ^ IntBits) + IntMin

\* static_cast of the long double of stold to float or double.
Narrow(class, n) == n - (n % Grain[class])

\* removeQuotes; a StringVar without preProcessFun gets it.
PreProcess(p, val) ==
    IF Var[p].preProcess \/ Var[p].class = "string"
    THEN [val EXCEPT !.quoted = FALSE] ELSE val

\* BaseVar::check: checkFun, if there is one, decides.
Check(p, v) == v \notin Var[p].rejects

\* stoll and stold: the number a text is, if it is one.
IsNumber(v) == v.isNum /\ ~v.quoted

\* if (valTemp < _minVal || valTemp > _maxVal)
InRange(p, n) == Var[p].minVal <= n /\ n <= Var[p].maxVal

\* if (!allowDynamicSet && !startup) of BaseVar::setVar
MaySet(p, startup) == Var[p].allowDynamicSet \/ startup

Status(code, val) == [status |-> code, value |-> val]

\* StringVar::set
StringSet(p, v) == Status("OK", v)

\* IntVar::set and Int64Var::set: stoll, the range, the store through
\* an int* or an int64_t*.
IntSet(p, v) ==
    CASE ~IsNumber(v)     -> Status("ERR_NUMBER", value[p])
      [] ~InRange(p, v.n) -> Status("ERR_PARSEOPT", value[p])
      [] OTHER -> Status("OK", IF Var[p].class = "int" THEN ToInt(v.n)
                               ELSE v.n)

\* FloatVar::set and DoubleVar::set: stold, no range, the cast.
FloatSet(p, v) ==
    IF IsNumber(v) THEN Status("OK", Narrow(Var[p].class, v.n))
    ELSE Status("ERR_NUMBER", value[p])

\* BoolVar::set: isOptionOn of whatever text it is.
BoolSet(p, v) == Status("OK", v = Yes)

\* set() of the class of p: the status and the value *value then has.
\* NoUseVar::set neither pre-processes nor checks.
Set(p, val) ==
    LET v   == PreProcess(p, val)
        cls == Var[p].class
    IN  CASE cls = "nouse"  -> Status("OK", value[p])
          [] ~Check(p, v)   -> Status("ERR_PARSEOPT", value[p])
          [] cls = "string" -> StringSet(p, v)
          [] cls = "bool"   -> BoolSet(p, v)
          [] cls \in {"int", "int64"} -> IntSet(p, v)
          [] OTHER          -> FloatSet(p, v)

\* if (Onupdate != NULL) Onupdate(); NoUseVar::set has no such call.
CallsOnupdate(p) == p \in hook /\ Var[p].class # "nouse"

\* setVar(name, val, startup): whether set() gets as far as its store.
Stores(p, val, startup) == MaySet(p, startup) /\ Set(p, val).status = "OK"

\* setVar(name, val, startup) up to the call of Onupdate: the value is
\* stored, a NoUseVar remembers that it was set.
Store(p, val, startup) ==
    /\ value' = [value EXCEPT ![p] = IF MaySet(p, startup)
                                     THEN Set(p, val).value ELSE @]
    /\ setFlag' = [setFlag EXCEPT
                      ![p] = @ \/ (Var[p].class = "nouse"
                                      /\ MaySet(p, startup))]

\* BaseVar::BaseVar: Onupdate(nullptr), the members hold their defaults.
Init ==
    /\ phase = "startup"
    /\ value = Default
    /\ setFlag = [p \in Params |-> FALSE]
    /\ hook = {}
    /\ derived = Default
    /\ session = [c \in Clients |-> Idle]

\* setUpdate(f): a component registers its hook.
setUpdate(p) ==
    /\ phase = "startup"
    /\ Var[p].hooked /\ p \notin hook
    /\ hook' = hook \cup {p}
    /\ UNCHANGED <<phase, value, setFlag, derived, session>>

\* One line of the configuration file: parseFile calls setVar with
\* startup = true, on the one thread there is; set() runs the hook, if
\* one is registered by then, before it returns.
ParseLine(p, val) ==
    /\ phase = "startup"
    /\ Store(p, val, TRUE)
    /\ derived' = IF Stores(p, val, TRUE) /\ CallsOnupdate(p)
                  THEN [derived EXCEPT ![p] = value'[p]] ELSE derived
    /\ UNCHANGED <<phase, hook, session>>

\* The server starts: its components are built from the parameters
\* parsed.
Startup ==
    /\ phase = "startup"
    /\ phase' = "running"
    /\ derived' = value
    /\ UNCHANGED <<value, setFlag, hook, session>>

\* CONFIG SET of session c: setVar with startup = false, as far as the
\* store.  Only a successful set of a class that calls Onupdate goes on to
\* the hook.
ConfigSet(c, p, val) ==
    /\ phase = "running"
    /\ session[c] = Idle
    /\ Store(p, val, FALSE)
    /\ session' = [session EXCEPT ![c] =
                      IF Stores(p, val, FALSE) /\ CallsOnupdate(p)
                      THEN [pc |-> "hook", param |-> p]
                      ELSE Idle]
    /\ UNCHANGED <<phase, hook, derived>>

\* Onupdate() of the parameter: the hook takes no argument and reads the
\* parameter as it is when it runs.
Onupdate(c) ==
    /\ session[c].pc = "hook"
    /\ derived' = [derived EXCEPT ![session[c].param] = value[session[c].param]]
    /\ session' = [session EXCEPT ![c] = Idle]
    /\ UNCHANGED <<phase, value, setFlag, hook>>

Next ==
    \/ \E p \in Params : setUpdate(p)
    \/ \E p \in Params, val \in Inputs : ParseLine(p, val)
    \/ Startup
    \/ \E c \in Clients, p \in Params, val \in Inputs : ConfigSet(c, p, val)
    \/ \E c \in Clients : Onupdate(c)

Spec == Init /\ [][Next]_vars

-----------------------------------------------------------------------------
ValueOf(p) ==
    CASE Var[p].class = "string"            -> [quoted : {FALSE},
                                                isNum : BOOLEAN, n : Int]
      [] Var[p].class \in {"bool", "nouse"} -> BOOLEAN
      [] Var[p].class = "int"               -> IntMin .. IntMax
      [] Var[p].class = "int64"             -> Int
      [] OTHER -> {n \in Int : n % Grain[Var[p].class] = 0}

\* Every parameter holds a value of its type, and Onupdate is called
\* only where a hook is registered (a call of the empty std::function
\* throws).
TypeOK ==
    /\ phase \in {"startup", "running"}
    /\ \A p \in Params : value[p] \in ValueOf(p) /\ derived[p] \in ValueOf(p)
    /\ setFlag \in [Params -> BOOLEAN]
    /\ hook \subseteq Params
    /\ \A c \in Clients :
          \/ session[c] = Idle
          \/ session[c].pc = "hook" /\ session[c].param \in hook

\* When no CONFIG SET is between its store and its hook, the component
\* behind a hooked parameter runs with the value of the parameter, also
\* after CONFIG SETs of several sessions that overlapped.
DerivedFollowsValue ==
    \A p \in Params :
        (phase = "running" /\ p \in hook
            /\ \A c \in Clients : session[c] = Idle)
            => derived[p] = value[p]

=============================================================================
