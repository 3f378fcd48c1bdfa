SPECIFICATION FairSpec
CONSTANTS
    Clients = {c1, c2}
    Passwords = {none, p1, p2}
    NoPassword = none
    DbNum = 2
INVARIANTS
    TypeOK
    PidFileOnlyWhileAlive
    HandlerFindsServer
    AbruptEndOnlyBeforeHandlers
PROPERTY
    ShutdownCompletes
CHECK_DEADLOCK FALSE
