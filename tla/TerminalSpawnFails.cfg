SPECIFICATION Spec
CONSTANTS
    MaxSessions = 2
    PerPass = 1
    MaxRounds = 2
    MaxEvents = 3
    None = None
INVARIANT GoneDespiteASpawn
CHECK_DEADLOCK FALSE
