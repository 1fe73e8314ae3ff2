SPECIFICATION DashboardSpec
CONSTANTS
    Selections = {s1}
    s1 = s1
    MaxLoads = 1
    MaxTicks = 2
INVARIANT NoDuplicateRequest
CHECK_DEADLOCK FALSE
