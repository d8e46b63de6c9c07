SPECIFICATION Spec
CONSTANTS
    r1 = r1  r2 = r2  r3 = r3
    w1 = w1  w2 = w2
    k1 = k1
    NoReq = NoReq
    Reqs = {r1, r2}
    Keys = {k1}
    KeyOf <- TwoReqs
    Workers = {w1, w2}
    QueueCap = 1
    Window = 2
    MaxTime = 2
    MaxRestarts = 1
    Faults = {"redis", "store", "deadline", "lostreply", "stall", "crash"}
INVARIANTS OrderAccountedFor NoSendOnClosed
PROPERTIES KeepsContract
CHECK_DEADLOCK FALSE
