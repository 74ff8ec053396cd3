SPECIFICATION Spec
CONSTANTS
    Hosts = {h1, h2}
    Requests = {r1, r2}
    Window = 2
    Budget = 2
    None = None
INVARIANTS OnlyTheChild BreakerHolds StopIsFinal
PROPERTIES NoCrashIsMissed CrashIsRepaired
