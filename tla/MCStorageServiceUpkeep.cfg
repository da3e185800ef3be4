SPECIFICATION Spec
CONSTANTS
    w1 = w1
    w2 = w2
    q1 = q1
    None = None
    Calls = {w1, w2, q1}
    Writes = {w1, w2}
    QueueReads = {q1}
    MaxOwners = 3
    InFlightLimit = 2
    QueueLimit = 1
    AcquireLimit = 2
PROPERTIES
    NewCallsWait
CHECK_DEADLOCK FALSE
