SPECIFICATION MCSpec
CONSTANTS
    Editors = {e1, e2}
    Deployments = {FALSE, TRUE}
    Instance <- OwnInstance
    Threshold = 2
    MaxEdits = 1
    MaxConnections = 2
    MaxDepartures = 1
    Instances = {i1, i2}
    Sessions = {s1, s2}
    SessionTimeout = 2
    Heartbeat = 1
    LockTimeout = 1
    MaxCrashes = 1
    Nobody = Nobody
    s1 = s1
    i1 = i1
    i2 = i2
    Models = {m1, m2}
    Steady = {m1}
    Never = Never
    MaxRefreshes = 4
    MaxRestarts = 1
    MaxTexts = 3
    MaxUses = 4
    Home <- SessionsHome
INVARIANTS
    TypesOK RoomIsUpToDate SeededOnce SaveIsDue LiveSessionsStay PluginsAreFresh
PROPERTIES NothingDropped ModelsAreServed
CONSTRAINT Bounded
SYMMETRY Sym
CHECK_DEADLOCK FALSE
