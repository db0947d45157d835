\* Is every spawn accounted for, whatever fails?
CONSTANTS
    MaxDepth = 2
    MaxFanout = 1
    MaxEpoch = 2
    MaxDetached = 1
    DelBudgets <- DelCases
    CronSpecs <- CronCases
    Period = 1
    MaxTime = 3
    CronBudgets <- CronEventCases
    Child = {scanner}
    Policies = {"permanent", "transient", "temporary"}
    Initial = 1
    MaxDelay = 2
    MaxRestarts = 2
    MeltWindow = 5
    MaxClock = 8
    MaxProcs = 2
    ToolCall = {c1, c2}
    MaxTracked = 1
    StrikeLimit = 1
    ProcBudgets <- ProcCases
SPECIFICATION NodeSpec
INVARIANT SpawnAccounted
CHECK_DEADLOCK FALSE
