SPECIFICATION FairSpec
CONSTANTS
    Backends = {"main", "spare"}
    Default = "main"
    Sigs = {"x", "y"}
    Names = {"read", "write"}
    MaxTransient = 1
    MaxSilence = 1
    MaxDegenerate = 1
    MaxTruncated = 2
    MaxDuplicate = 3
    MaxError = 3
    NudgeAt = 2
    MaxRouting = 2
INVARIANTS TypeOK ToolResultsKept StatusTruthful NudgedOnce
PROPERTIES StopsWhenAsked RunawayEnds
CHECK_DEADLOCK FALSE
