SPECIFICATION Spec
CONSTANTS
    Processes = {a1, s1}
    Awaiters = {a1}
    W = 4
    ConcurrentReset = TRUE
INVARIANTS
    DestructorAsserts
