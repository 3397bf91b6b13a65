SPECIFICATION FairSpec
CONSTANTS
    N = 1
    Clients = {x}
    MaxOps = 6
    W = 8
\* The pool may be shut down.
CHECK_DEADLOCK FALSE
PROPERTIES
    EveryOpRuns
