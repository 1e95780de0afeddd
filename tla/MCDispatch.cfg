SPECIFICATION Spec
CONSTANTS
    k1 = k1
    k2 = k2
    None = None
    Msgs = {m1}
    CallIds = {k1, k2}
    Id <- TurnIds
    MaxConns = 1
    Serves = {1}
    MaxCalls = 3
    MaxTurn = 2
    MaxRuns = 2
    MaxFaults = 2
INVARIANTS TypeOK NoStrandedWakeup ClaimsAreHeld WokenResultsAreSeen
PROPERTY ConsumedByItsRun
CHECK_DEADLOCK FALSE
