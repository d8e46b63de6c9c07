SPECIFICATION MCSpec
CONSTANTS
    c1 = c1
    k1 = k1
    k2 = k2
    Creds = {c1, c2, c3}
    Hooks = {h1, h2, h3}
    Requests = {r1, r2}
    Apps = {k1, k2}
    MaxLogins = 2
    MaxSwitches = 2
    MaxTime = 3
    Validity = 3
    RefreshBefore = 1
    MaxConnects = 2
    MaxRestarts = 1
    MaxFailures = 2
    Worlds <- MCWorlds
INVARIANTS ActiveWithinPlan LoginIsHonest
PROPERTIES FeedIsKept
CHECK_DEADLOCK FALSE
