SPECIFICATION Spec
CONSTANTS
    s1 = s1  s2 = s2
    o1 = o1  o2 = o2
    Signals = {s1, s2}
    Owners = {o1}
    TTL = 1
    Delay = 1
    MaxTime = 3
    MaxRev = 2
    Ops = {"pause", "resume", "edit", "rotate", "delete"}
    Platform = {"pauseAll", "disable", "enable"}
    RedisFails = TRUE
SYMMETRY Sym
INVARIANTS StaleUntilTTL
PROPERTY AcceptedWithinTTL
CHECK_DEADLOCK FALSE
