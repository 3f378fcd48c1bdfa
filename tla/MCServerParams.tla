--------------------------- MODULE MCServerParams ---------------------------
(***************************************************************************)
(* ServerParams for TLC: one parameter of every class, an int of three     *)
(* bits whose bounds reach past the largest int, a float that resolves     *)
(* steps of two, two sessions.                                             *)
(***************************************************************************)
EXTENDS ServerParams, TLC

CONSTANTS pString, pInt, pInt64, pFloat, pDouble, pBool, pNoUse, c1, c2

MCParams  == {pString, pInt, pInt64, pFloat, pDouble, pBool, pNoUse}
MCClients == {c1, c2}

V(class, dyn, hooked, pre, lo, hi, rejects) ==
    [class |-> class, allowDynamicSet |-> dyn, hooked |-> hooked,
     preProcess |-> pre, minVal |-> lo, maxVal |-> hi, rejects |-> rejects]

MCVar ==
       pString :> V("string", FALSE, FALSE, FALSE, 0, 0, {Text(FALSE, TRUE, 1)})
    @@ pInt    :> V("int", TRUE, FALSE, FALSE, 0, IntMax + 1, {})
    @@ pInt64  :> V("int64", FALSE, FALSE, TRUE, 1, 3, {})
    @@ pFloat  :> V("float", TRUE, TRUE, FALSE, 0, 0, {})
    @@ pDouble :> V("double", FALSE, FALSE, FALSE, 0, 0, {Text(FALSE, TRUE, 4)})
    @@ pBool   :> V("bool", TRUE, TRUE, FALSE, 0, 0, {})
    @@ pNoUse  :> V("nouse", TRUE, TRUE, FALSE, 0, 0, {})

MCDefault ==
       pString :> No
    @@ pInt    :> 0
    @@ pInt64  :> 1
    @@ pFloat  :> 0
    @@ pDouble :> 0
    @@ pBool   :> FALSE
    @@ pNoUse  :> FALSE

\* A number inside every bound, one past the largest int and the bound of
\* pInt64, a quoted number, and a word.
MCInputs ==
    {Text(FALSE, TRUE, 3), Text(FALSE, TRUE, IntMax + 1), Text(TRUE, TRUE, 3),
     Yes}

MCGrain == [float |-> 2, double |-> 1]

=============================================================================
