SPECIFICATION Spec
CONSTANTS
    s1 = s1
    s2 = s2
    r1 = r1
    r2 = r2
    r3 = r3
    k1 = k1
    gk = gk
    kernel = kernel
    Sessions = {s1, s2}
    Runs = {r1, r2, r3}
    SessionOf <- MCSessionOf
    Owners = {k1}
    Generations = {gk}
    Units = {kernel}
    GenOf <- MCGenOf
    UnitOf <- MCUnitOf
    KindOf <- MCKindOf
    None = None
    CallIds = {c1, c2}
    Keys = {x1}
    CapacityLimit = 2
    MaxTools = 1
    MaxFence = 2
INVARIANTS
    IndexesAgree
    PhysicalWorkPinsLease
    DeferredReleaseWaits
    ReleaseInFlightIsGated
    CapacityAccounted
CHECK_DEADLOCK FALSE
