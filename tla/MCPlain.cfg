CONSTANTS
    Tasks = {t1, t2}
    Items = {i1, i2}
    Stoppers = {s1, s2}
    NoItem = no_item
    NoTask = no_task
    a1 = a1 a2 = a2 u1 = u1
    Instances = {n1, n2}
    Handlers = {h1}
SPECIFICATION MCSpec
INVARIANTS
    TypeOK
    TasksAreTracked
    StoppedMeansEnded
PROPERTIES
    StopReturns
    ClaimedOnSqlite
