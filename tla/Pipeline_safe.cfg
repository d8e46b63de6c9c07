SPECIFICATION Spec
CONSTANTS
    r1 = r1  r2 = r2  r3 = r3
    w1 = w1  w2 = w2
    k1 = k1
    NoReq = NoReq
    Reqs = {r1, r2, r3}
    Keys = {k1}
    KeyOf <- OneKey
    Workers = {w1, w2}
    QueueCap = 1
    Window = 2
    MaxTime = 3
    MaxRestarts = 0
    Faults = {}
SYMMETRY Sym
INVARIANTS NoDoubleOrder
PROPERTY DuplicateHasOriginal
CHECK_DEADLOCK FALSE
