SPECIFICATION MCSpec
CONSTANTS
    Coroutines = {c1, c2, c3}
    Creator = c1
    Other = Other
    NoOne = NoOne
    N = 3
    Works = {w1, w2, w3}
    Depth = 3
    MaxSteps = 2
    Levels = 3
    MaxValues = 3
\* A thread that has returned from sync_wait(), or joined a scope, is done.
CHECK_DEADLOCK FALSE
INVARIANTS
    TaskSafe
    JoinsWithResult
    JoinedWhenDone
    DepthFirst
    OneRuns
    ResumesSuspended
PROPERTIES
    WaitersGoOn
    TaskIsGate
