SPECIFICATION Spec
CONSTANTS
    r1 = r1
    r2 = r2
    r3 = r3
    Registrants = {r1, r2}
    Cancellers = {t1}
    None = None
    ListCount = 1
    ListOf <- MCListOf
    HeadSize = 1
    SizeLimit = 2
    Threshold <- MCThreshold
    MaxRegs = 2
\* The program ends when every token and source is dropped.
CHECK_DEADLOCK FALSE
INVARIANTS
    CalledOnceInTime
PROPERTIES
    CallsReturn
