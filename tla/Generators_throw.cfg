SPECIFICATION NestSpec
CONSTANTS
    Depth = 2
    MaxSteps = 3
\* The consumer has got to the end.
CHECK_DEADLOCK FALSE
INVARIANTS
    ExceptionsReachCaller
