SPECIFICATION Spec
CONSTANTS
    s1 = s1
    s2 = s2
    r1 = r1
    r2 = r2
    r3 = r3
    k1 = k1
    k2 = k2
    d1 = d1
    gk = gk
    gd = gd
    kernel = kernel
    driver = driver
    Sessions = {s1, s2}
    Runs = {r1, r2, r3}
    SessionOf <- MCSessionOf
    Owners = {k1, k2, d1}
    Generations = {gk, gd}
    Units = {kernel, driver}
    GenOf <- MCGenOf
    UnitOf <- MCUnitOf
    KindOf <- MCKindOf
    None = None
    Drafts <- MCDrafts
    MaxFence = 6
INVARIANTS
    OneOwnerPerSession
    ReleasedAfterSettling
    JournalRebuildsRows
PROPERTIES
    FencesRise
    AuthorityIsFinal
CHECK_DEADLOCK FALSE
