SPECIFICATION MCSpec
CONSTANTS
    Coroutines = {c1, c2, c3}
    IoThreads = {t1, t2}
    QWorkers = {w1}
    None = None
    Capacity = 2
    Calls <- MCMixed
    MaxSchedules = 1
    MaxStops = 2
    MaxResets = 1
    Workers = {v1, v2}
    Kinds = {"read", "connect", "close", "timer"}
    Values = {0, 1}
    MaxLength = 17
\* A program ends when the coroutines are done and the service is stopped.
CHECK_DEADLOCK FALSE
SYMMETRY Symmetry
INVARIANTS
    InOnePlace
    NoSleepOnMessage
    NeverStranded
    WithoutToken
    ReadsTheGrammar
