SPECIFICATION FairSpec
CONSTANTS
    r1 = r1 r2 = r2 c1 = c1 c2 = c2 c3 = c3 c4 = c4 c5 = c5 c6 = c6 d1 = d1
    net = net local = local missing = missing ext = ext default = default
    Requests = {r1, r2}
    Calls = {c1, c2, c3, c4, c5, c6, d1}
    Tools = {net, local, missing}
    Plan <- MCPlan
    ToolOf <- MCToolOf
    Unknown = {missing}
    Malformed = {c5}
    External = {net}
    Classes = {ext, default}
    ClassOf <- MCClassOf
    ClassLimit <- MCClassLimit
    Attempts <- MCAttempts
    Quota <- MCQuota
    OutputBudget <- MCOutputBudget
    Sizes = {2, 7}
    ErrorSize = 3
    MaxCalls = 5
    RequestConcurrency = 1
    GlobalConcurrency = 1
    TurnBudget = 8
    RequestBudget = 10
    TurnTokens = 3
    RequestTokens = 4
    Threshold = 2
PROPERTIES BatchEnds
INVARIANTS TypeOK WithinLimits BudgetsHold
CHECK_DEADLOCK FALSE
