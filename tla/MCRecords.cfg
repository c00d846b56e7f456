SPECIFICATION MCSpec
CONSTANTS
    Writers = {w1, w2}
    MaxMessages = 4
    MaxInitial = 2
    MaxScripts = 2
    MaxText = 1
    FanOut = 2
    Requests = {q1, q2}
    Emails = {e1, e2}
    Instances = {i1, i2}
    Files = {f1}
    Documents = {d1, d2}
    MaxPrompts = 5
    MaxItems = 4
    MaxIterations = 2
    MaxTurns = 2
    MaxUsers = 3
    MaxRequests = 4
    MaxPerUser = 2
    MaxSessions = 3
    MaxTokenCalls = 4
    Limit = 1
    Window = 2
    BucketSize = 2
    MaxTime = 4
    MaxAttempts = 2
    MaxDirs = 3
    MaxTreeCalls = 5
    MaxVersions = 2
    MaxFileCalls = 2
    MaxMemoryCalls = 3
INVARIANTS
    TypesOK HistoryInOrder RowsKeepFanOut OnlyKeptAreForgotten TurnIsKept
    MemoriesAgree SessionsHonoured LimitHolds DirectoriesInOrder
  
SYMMETRY Sym
CHECK_DEADLOCK FALSE
