SPECIFICATION Spec
CONSTANTS
    Producers = {p1}
    Consumers = {c1, c2}
    Size = 2
    W = 16
    InitSeq = 14
    MaxClaims = 3
\* All numbers are claimed, published and consumed.
CHECK_DEADLOCK FALSE
INVARIANTS
    ResultReachesTarget
