SPECIFICATION FairSpec
CONSTANTS
    Orders = {1, 2}
    Requests = {1, 2}
    Expiry = 1
    MaxTime = 2
    Envs <- MCEnvs

INVARIANTS OutcomeIsTheUsers
PROPERTIES FollowsLifecycle PendingIsResolved
CHECK_DEADLOCK FALSE
