SPECIFICATION Spec
CONSTANTS
    Requests = {q1, q2}
    Files = {f1}
    MaxDirs = 3
    MaxCalls = 5
INVARIANT SubdirectoriesGo
CHECK_DEADLOCK FALSE
