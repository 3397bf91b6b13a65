SPECIFICATION MCSpec
CONSTANTS
    Coroutines = {c1, c2, c3, c4}
    None = None
    Awaiters = {a1, a2, a3}
    Callers = {t1, t2}
    InitCounts <- MCInitCounts
    Amounts = {1, 2}
    MaxCalls = 4
    Consumer = Consumer
    Setters = {t1, t2}
    AutoSetters = {t1, t2}
    BarrierAwaiters = {a1, a2}
    Producer = Producer
    W = 12
    Ahead = 2
    MaxPublished = 2
    MaxWaits = 2
\* A program ends when the calls are made and the coroutines have run.
CHECK_DEADLOCK FALSE
INVARIANTS
    MutexSafe
    SuspendedOnOneList
    ReadyMeansCounted
    HandleIsInOnePlace
    InOneList
    SuspendedOnceResumedOnce
    LeftBehindOnlyIfUnseen
PROPERTIES
    FifoMutex
    WaitersAreServed
    ImplementsGate
    ReleasedRun
    CallsReturn
