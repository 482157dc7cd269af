CONSTANTS
    d1 = d1
    a1 = a1
    a2 = a2
    r1 = r1
    x1 = x1
    m1 = m1
    m2 = m2
    None = None
    Devices = {d1}
    Adopts = {a1, a2}
    Reconciles = {r1}
    Deletes = {x1}
    Messages = {m1, m2}
    Indications = {m1}
    DeviceOf <- MCDeviceOf
    MaxRestarts = 1
    MaxFaults = 1
SPECIFICATION FairSpec
INVARIANTS
    OrphanNeedsOverlap
    UnheardNeedsAnother
PROPERTY
    ReconciledIsRestored
CHECK_DEADLOCK FALSE
