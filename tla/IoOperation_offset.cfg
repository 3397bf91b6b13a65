SPECIFICATION Spec
CONSTANTS
    Workers = {w1, w2}
    Kinds = {"read"}
CHECK_DEADLOCK FALSE
INVARIANTS
    TransfersAtOffset
