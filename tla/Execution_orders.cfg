SPECIFICATION Spec
CONSTANTS
    Cmds = {1, 2}
    Keys = {1, 2}
    Starts <- MCStarts
    Equities <- MCEquities
    Positions <- MCPositions
    Quotes <- MCQuotes
    CredCap = 1
    Faults = {"redis", "lost", "garbled", "busy", "refuse", "crash", "timeout"}
    MaxFaults = 1

INVARIANTS OncePerKey AnswerMatchesBroker StopProtects
PROPERTY CloseNeverReverses
CHECK_DEADLOCK FALSE
