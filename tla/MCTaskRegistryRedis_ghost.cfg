CONSTANTS
    Tasks = {t1, t2}
    Items = {i1}
    Instances = {n1, n2}
    Requests = {r1}
    Stoppers = {s1}
    NoItem = no_item
    NoTask = no_task
    NoInst = no_inst
    MaxCrashes = 0
SPECIFICATION Spec
INVARIANT NoGhostTask
