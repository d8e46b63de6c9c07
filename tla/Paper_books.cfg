SPECIFICATION PaperSpec
CONSTANTS
    s1 = s1  s2 = s2
    a1 = a1  a2 = a2
    Actors = {a1, a2}
    Symbols = {s1, s2}
    Prices = {5040, 10080, 11340}
    Lots = {1, 2}
    Balances = {100000, 200000}
    Quota = 1
    Tick = 2520
    Slip = 2520
    Fee = 1
    Jobs = {"order", "close", "squareoff", "sweep", "signal", "edit", "reset", "status"}
    MaxJobs = 3
SYMMETRY Sym
INVARIANTS BooksBalance EquityUnlessStale QuotaOvershoot SnapshotIsAnEquity
PROPERTY CloseNeverOpens
CHECK_DEADLOCK FALSE
