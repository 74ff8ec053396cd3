\* Every contender may have ended.
SPECIFICATION LiveSpec
CONSTANTS
    Contenders = {p1, p2, p3}
    MayStall = TRUE
    RmMayFail = FALSE
    None = None
    Absent = Absent
    First = First
    Blank = Blank
INVARIANT SerializedUnlessBroken
PROPERTIES IsARegister EveryCallEnds
CHECK_DEADLOCK FALSE
