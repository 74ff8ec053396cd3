SPECIFICATION UpdateSpec
CONSTANTS
    Panels = {p1, p2, p3}
    MaxRuns = 2
    MaxRestarts = 0
    MaxHelpers = 2
    Failures = {"boot", "relay"}
    MaxFaults = 2
    None = None
INVARIANT RollbackTellsOfRelay
CHECK_DEADLOCK FALSE
