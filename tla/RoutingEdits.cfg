SPECIFICATION SSpec
CONSTANTS
    auto = auto
    pool = pool
    mid = mid
    tail = tail
    m1 = m1
    m2 = m2
    u1 = u1
    u2 = u2
    r1 = r1
    r2 = r2
    None = None
    DemoteAfter = 2
    Keys = {auto}
    Window = 1
    Entries = {pool, mid}
    Upstreams = {m1, m2, u1}
    PoolRequests = {pool}
    Requests <- MCRequests
    Stores <- Edited
SYMMETRY RequestSymmetry
PROPERTIES NeverDemotedByABlip StickyNeverMovedByABlip
