SPECIFICATION MCSpec
CONSTANTS
    Producers = {p1, p2}
    Consumers = {c1, c2}
    Size = 2
    W = 16
    InitSeq = 14
    MaxClaims = 3
    MaxCount = 3
    Thieves = {t1, t2}
    MaxItems = 6
    InitSize = 2
    MaxSize = 4
\* All numbers are claimed, published and consumed; the owner of the deque
\* stops when its operations are used up.
CHECK_DEADLOCK FALSE
SYMMETRY Symmetry
INVARIANTS
    SlotsAreExclusive
    NobodyLeftBehind
    WriterStaysAhead
    ContentsAreIntact
PROPERTIES
    ImplementsDeque
