SPECIFICATION Spec
CONSTANTS
    Requests = {q1, q2}
    MaxPerUser = 2
    MaxSessions = 3
    MaxCalls = 4
INVARIANT RefreshKeepsRenewed
CHECK_DEADLOCK FALSE
