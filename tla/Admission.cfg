SPECIFICATION Spec
CONSTANTS
    ann = ann
    bob = bob
    c1 = c1
    c2 = c2
    Users = {ann, bob}
    Conns = {c1, c2}
    SendBuffer = 1
    MaxWrites = 2
    SecTTL = 2
    MinTTL = 3
    Day = 4
    Week = 3
    DailyCap = 1
    PaidPerSec = 2
    CredPerSec = 1
INVARIANTS RatesHold HoursKept AnsweredIsOnRecord FeedHasNoGaps
PROPERTIES GoneIsForgotten
CHECK_DEADLOCK FALSE
