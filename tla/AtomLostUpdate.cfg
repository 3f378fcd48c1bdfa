SPECIFICATION Spec
CONSTANTS
    t1 = t1
    t2 = t2
    shared = shared
    own = own
    Threads <- MCThreads
    Atoms <- MCAtoms
    Owner <- MCOwner
    Modulus = 4
INVARIANT
    NoLostUpdate
