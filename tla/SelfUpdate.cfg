SPECIFICATION UpdateLiveSpec
CONSTANTS
    Panels = {p1, p2, p3}
    MaxRuns = 2
    MaxRestarts = 1
    MaxHelpers = 2
    Failures = {"git", "checkout", "npm", "restore", "watchdog", "relay", "throws", "helper", "lost",
                "boot", "slow", "deaf", "crash"}
    MaxFaults = 2
    None = None
INVARIANTS
    OutcomeIsTrue
    WatchdogComesBack
PROPERTIES
    AppliedUpdateLands
    PanelComesBack
CHECK_DEADLOCK FALSE
