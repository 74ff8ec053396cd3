SPECIFICATION Spec
CONSTANTS
    MaxSessions = 2
    PerPass = 1
    MaxRounds = 2
    MaxEvents = 3
    None = None
INVARIANTS ClosedIsGone IndexAgrees RestingIsOnDisk
PROPERTY EveryMarkHasItsTurn
CHECK_DEADLOCK FALSE
