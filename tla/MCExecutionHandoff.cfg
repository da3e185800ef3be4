SPECIFICATION Spec
CONSTANTS
    s1 = s1
    r1 = r1
    r2 = r2
    k1 = k1
    k2 = k2
    d1 = d1
    d2 = d2
    gk = gk
    gk2 = gk2
    gd = gd
    kernel = kernel
    driver = driver
    Sessions = {s1}
    Runs = {r1, r2}
    SessionOf <- MCSessionOf
    Owners = {k1, k2, d1, d2}
    Generations = {gk, gk2, gd}
    Units = {kernel, driver}
    GenOf <- ReloadGenOf
    UnitOf <- MCUnitOf
    KindOf <- MCKindOf
    None = None
    CallIds = {}
    Keys = {x1}
    CapacityLimit = 1
    MaxTools = 1
    MaxFence = 4
    BindingsOf <- MCBindingsOf
    Startup = {k1, d1}
    Mortal = {d1}
    MaxDrops = 1
INVARIANTS
    OpenSessionIsFree
    RecoveryIsClear
    LostAuthorityIsAcknowledged
    RevocationsAreAccepted
    CoordinatorStaysCoherent
PROPERTIES
    ImplementsAuthority
CHECK_DEADLOCK FALSE
