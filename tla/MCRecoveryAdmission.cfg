SPECIFICATION Spec
CONSTANTS
    r1 = r1  r2 = r2  r3 = r3  k1 = k1  k2 = k2  q1 = q1  q2 = q2
    None = None
    Runs = {r1, r2, r3}
    Originals = {r1}
    Requests = {q1, q2}
    AuthorOf <- MCAuthorOf
    AutomaticLimit = 1
    TotalLimit = 2
    Kernels = {k1, k2}
    Settings <- MCSettings
    Approvals = {r1}
    Completions = {r2}
    Losable = {"queue"}
    MaxBusy = 2
SYMMETRY MCSymmetry
INVARIANTS ChainNamesItsTail LogRebuildsRecovery JoinedRequestsAreTried
PROPERTY ImplementsLineage
CHECK_DEADLOCK FALSE
