SPECIFICATION ServiceFairSpec
CONSTANTS
    Coroutines = {c1, c2}
    IoThreads = {t1, t2}
    QWorkers = {w1}
    None = None
    Capacity = 1
    Calls <- MCWaiting
    MaxSchedules = 1
    MaxStops = 1
    MaxResets = 0
\* The program ends when the coroutines are done and the service is stopped.
CHECK_DEADLOCK FALSE
PROPERTIES
    SubmittedIsResumed
