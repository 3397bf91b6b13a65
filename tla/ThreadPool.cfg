SPECIFICATION FairSpec
CONSTANTS
    N = 2
    Clients = {x}
    MaxOps = 3
    W = 8
\* The pool may be shut down.
CHECK_DEADLOCK FALSE
INVARIANTS
    NoSleepOnWork
PROPERTIES
    OpsRunUnlessMiscounted
    ShutdownJoins
