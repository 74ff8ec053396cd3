\* Every contender may have ended.
SPECIFICATION Spec
CONSTANTS
    Contenders = {p1, p2}
    MayStall = FALSE
    RmMayFail = FALSE
    None = None
    Absent = Absent
    First = First
    Blank = Blank
INVARIANT CreatedWhole
CHECK_DEADLOCK FALSE
