SPECIFICATION LifecycleSpec
CONSTANTS
    Callers = {panel, watchdog}
    MaxCalls = 3
    MaxPid = 2
    None = None
INVARIANT StopHolds
PROPERTIES AskedIsGone NoPileUp
CHECK_DEADLOCK FALSE
\* Refuted in the same instance:
\* PROPERTY OnlyStaleCleared
\* PROPERTY AskedIsGoneAlways
