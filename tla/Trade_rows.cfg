SPECIFICATION FairSpec
CONSTANTS
    Trades = {1, 2}
    Calls = {1, 2}
    Limit = 1
    MaxFailures = 1
    MaxReports = 1
    Worlds <- MCWorlds
INVARIANTS FinalMatchesBroker
PROPERTIES KeepsTradeStatus SubmittedIsSettled
CHECK_DEADLOCK FALSE
