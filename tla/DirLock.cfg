SPECIFICATION Spec
CONSTANTS
    c1 = c1
    c2 = c2
    c3 = c3
    i1 = i1
    i2 = i2
    None = None
    Contenders <- MCContenders
    Inodes <- MCInodes
    MayStall = FALSE
SYMMETRY LockSymmetry
INVARIANT NoLockLeftBehind
PROPERTY ExcludesEachOther
CHECK_DEADLOCK FALSE
