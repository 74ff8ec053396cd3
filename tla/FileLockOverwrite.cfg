\* Every contender may have ended.
SPECIFICATION Spec
CONSTANTS
    Contenders = {p1, p2, p3}
    MayStall = FALSE
    RmMayFail = FALSE
    None = None
    Absent = Absent
    First = First
    Blank = Blank
PROPERTY NeverOverwritesSilently
CHECK_DEADLOCK FALSE
