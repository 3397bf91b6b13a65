SPECIFICATION FairSpec
CONSTANTS
    Processes = {a1, a2, a3}
    Awaiters = {a1, a2, a3}
    W = 5
    ConcurrentReset = FALSE
\* The program ends when every coroutine waits and nobody is left to set.
CHECK_DEADLOCK FALSE
INVARIANTS
    WordCountsWaiters
    NoStrandedWaiter
PROPERTIES
    MatchedWaiterRuns
