SPECIFICATION Spec
CONSTANTS
    a1 = a1  a2 = a2
    Actors = {a1, a2}
    Paid = {2}
    Grants = {0}
    MaxEvents = 3
    MaxGrants = 1
    MaxFaults = 1
SYMMETRY Sym
INVARIANTS InSync AdminOwnsPlan AckedIsHandled DowngradePauses
CHECK_DEADLOCK FALSE
