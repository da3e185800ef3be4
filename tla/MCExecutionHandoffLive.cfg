SPECIFICATION FairSpec
CONSTANTS
    s1 = s1
    r1 = r1
    r2 = r2
    k1 = k1
    k2 = k2
    d1 = d1
    d2 = d2
    gk = gk
    gk2 = gk2
    gd = gd
    kernel = kernel
    driver = driver
    Sessions = {s1}
    Runs = {r1, r2}
    SessionOf <- MCSessionOf
    Owners = {k1, k2, d1, d2}
    Generations = {gk, gk2, gd}
    Units = {kernel, driver}
    GenOf <- RestartGenOf
    UnitOf <- MCUnitOf
    KindOf <- MCKindOf
    None = None
    CallIds = {c1}
    Keys = {}
    CapacityLimit = 1
    MaxTools = 1
    MaxFence = 4
    BindingsOf <- MCBindingsOf
    Startup = {k1, d1}
    Mortal = {k1, d1}
    MaxDrops = 0
INVARIANT
    HandoffIsSafe
PROPERTIES
    StoppedRunsAreReconciled
    UninterruptedRunsHandOver
    ImplementsAuthority
CHECK_DEADLOCK FALSE
