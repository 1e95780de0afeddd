SPECIFICATION Spec
CONSTANTS
    Site = {hub, a}
    Hub = hub
    Compared = {q, r}
    Row = {q, r}
    MaxCount = 4
    MaxWall = 1
    MaxWrites = 2
    MaxFaults = 1
    Ties = TRUE
INVARIANTS TypeOK LogEndsInTable ConfirmedWasHandled
PROPERTY OnlyNewerReplaces
CHECK_DEADLOCK FALSE
