CONSTANTS
    d1 = d1
    d2 = d2
    t1 = t1
    g1 = g1
    c1 = c1
    u0 = u0
    p1 = p1
    None = None
    NoPath = NoPath
    Downloads = {}
    TcontDeletes = {t1}
    GemDeletes = {g1}
    Reconciles = {c1}
    Unis = {u0}
    Uni0 = u0
    Paths = {p1}
    Unusable = {p1}
    UniOf <- MCUniOf
    PathOf <- MCPathOf
    Stored <- MCStored
    MaxDowns = 1
    MaxExpired = 3
    MaxFaults = 0
SPECIFICATION FairSpec
PROPERTIES
    ReleasedUnlessJammed
CHECK_DEADLOCK FALSE
