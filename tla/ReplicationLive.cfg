SPECIFICATION FairSpec
CONSTANTS
    Site = {hub, a}
    Hub = hub
    Compared = {r}
    Row = {r}
    MaxCount = 5
    MaxWall = 2
    MaxWrites = 2
    MaxFaults = 1
    Ties = FALSE
PROPERTIES Converges
CHECK_DEADLOCK FALSE
