SPECIFICATION Spec
CONSTANTS
    r1 = r1
    r2 = r2
    r3 = r3
    Registrants = {r1, r2, r3}
    Cancellers = {t1, t2}
    None = None
    ListCount = 2
    ListOf <- MCListOf
    HeadSize = 1
    SizeLimit = 2
    Threshold <- MCThreshold
    MaxRegs = 1
\* The program ends when every token and source is dropped.
CHECK_DEADLOCK FALSE
INVARIANTS
    RegistrationsAreServed
    DeletedLast
