SPECIFICATION Spec
CONSTANTS
    t1 = t1
    t2 = t2
    Threads <- MCThreads
    Rates <- MCRates
    Period = 2
    MaxBytes = 4
INVARIANT TypeOK
