SPECIFICATION Spec
CONSTANTS
    MaxTurns = 5
INVARIANT NothingForgotten
CHECK_DEADLOCK FALSE
