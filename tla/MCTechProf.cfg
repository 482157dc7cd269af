CONSTANTS
    d1 = d1
    d2 = d2
    t1 = t1
    g1 = g1
    c1 = c1
    u0 = u0
    p1 = p1
    None = None
    NoPath = NoPath
    Downloads = {d1, d2}
    TcontDeletes = {t1}
    GemDeletes = {}
    Reconciles = {c1}
    Unis = {u0}
    Uni0 = u0
    Paths = {p1}
    Unusable = {}
    UniOf <- MCUniOf
    PathOf <- MCPathOf
    Stored <- MCStored
    MaxDowns = 0
    MaxExpired = 1
    MaxFaults = 1
SPECIFICATION Spec
INVARIANTS
    TypeOK
    OneRequestAtWork
    LeftoversNeedADisturbance
    KvFollowsPaths
PROPERTIES
    SuccessIsConfigured
    UsesMachine
SYMMETRY Symmetry
CHECK_DEADLOCK FALSE
