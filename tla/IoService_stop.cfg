SPECIFICATION ServiceFairSpec
CONSTANTS
    Coroutines = {c1}
    IoThreads = {t1}
    QWorkers = {w1}
    None = None
    Capacity = 2
    Calls <- MCUntilStopped
    MaxSchedules = 1
    MaxStops = 1
    MaxResets = 0
\* The program ends when the coroutines are done and the service is stopped.
CHECK_DEADLOCK FALSE
PROPERTIES
    StopEndsLoops
