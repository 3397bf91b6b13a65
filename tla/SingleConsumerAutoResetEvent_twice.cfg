SPECIFICATION AutoSpec
CONSTANTS
    AutoSetters = {t1, t2}
\* A consumer may wait for a set() that nobody calls.
CHECK_DEADLOCK FALSE
PROPERTIES
    FailedAwaitFindsSet
