SPECIFICATION Spec
CONSTANTS
    pString = pString
    pInt = pInt
    pInt64 = pInt64
    pFloat = pFloat
    pDouble = pDouble
    pBool = pBool
    pNoUse = pNoUse
    c1 = c1
    c2 = c2
    Params <- MCParams
    Clients <- MCClients
    Var <- MCVar
    Default <- MCDefault
    Inputs <- MCInputs
    IntBits = 3
    Grain <- MCGrain
INVARIANTS TypeOK DerivedFollowsValue
