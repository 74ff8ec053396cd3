SPECIFICATION UpdateSpec
CONSTANTS
    Panels = {p1, p2, p3}
    MaxRuns = 1
    MaxRestarts = 0
    MaxHelpers = 2
    Failures = {"throws"}
    MaxFaults = 1
    None = None
INVARIANT AbortsRestore
CHECK_DEADLOCK FALSE
