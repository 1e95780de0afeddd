SPECIFICATION FairSpec
CONSTANTS
    k1 = k1
    k2 = k2
    None = None
    Msgs = {m1}
    CallIds = {k1, k2}
    Id <- OneId
    MaxConns = 3
    Serves = {1, 3}
    MaxCalls = 1
    MaxTurn = 1
    MaxRuns = 2
    MaxFaults = 1
PROPERTIES MessagesHandled DeliveredResolve
CHECK_DEADLOCK FALSE
