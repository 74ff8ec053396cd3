SPECIFICATION LiveHSpec
CONSTANTS
    auto = auto
    pool = pool
    mid = mid
    tail = tail
    m1 = m1
    m2 = m2
    u1 = u1
    u2 = u2
    r1 = r1
    r2 = r2
    None = None
    DemoteAfter = 2
    Keys = {auto}
    Window = 2
    Entries = {pool, mid, tail}
    Upstreams = {m1, m2, u1, u2}
    PoolRequests = {}
    Requests <- MCRequests
    Stores <- ThreeHops
INVARIANT ProbedOncePerWindow
PROPERTY ComesHome
