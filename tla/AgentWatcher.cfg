SPECIFICATION WatcherSpec
CONSTANTS
    Threshold = 1
    Grace = 2
    Backoff <- MCBackoff
    Budget = 3
    Window = 9
    None = None
INVARIANT BudgetHeld
PROPERTIES GraceUnbroken RelayComesBack GivingUpEnds
CHECK_DEADLOCK TRUE
\* Refuted in the same instance:
\* PROPERTY DegradedIsRestarted
