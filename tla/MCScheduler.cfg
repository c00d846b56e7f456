SPECIFICATION MCSpec
CONSTANTS
    a1 = a1 a2 = a2 u1 = u1
    Automations = {a1}
    Instances = {i1, i2}
    Handlers = {h1, h2}
    Users = {u1}
    Owner <- MCOwner
    Rules <- MCRules
    InitialRule <- Often
    Existing = {a1}
    Postgres = TRUE
    Limit = 1
    MaxCount = 0
    MaxTime = 2
    MaxCrashes = 1
    Events = {e1}
    AlertHandlers = {h1, h2}
    Starts = {1, 2}
    AlertChoices <- AtTime_Before
    MaxLookahead = 1
    Grace = 2
    MaxGap = 2
    AlertMaxTime = 4
INVARIANTS
    TypeOK OncePerSchedule RunsAccounted
    AlertsHold
PROPERTIES ClaimsAreCurrent ImplementsAtomicClaims
SYMMETRY Symmetry
CHECK_DEADLOCK FALSE
