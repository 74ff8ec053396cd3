SPECIFICATION UpdateSpec
CONSTANTS
    Panels = {p1, p2, p3}
    MaxRuns = 1
    MaxRestarts = 1
    MaxHelpers = 2
    Failures = {}
    MaxFaults = 0
    None = None
INVARIANT OneClickCompletes
CHECK_DEADLOCK FALSE
