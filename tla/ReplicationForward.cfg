SPECIFICATION FairSpec
CONSTANTS
    Site = {hub, a, b}
    Hub = hub
    Compared = {r}
    Row = {q, r}
    MaxCount = 4
    MaxWall = 1
    MaxWrites = 1
    MaxFaults = 0
    Ties = FALSE
PROPERTY Converges
CHECK_DEADLOCK FALSE
