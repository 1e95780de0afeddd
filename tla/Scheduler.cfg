SPECIFICATION FairSpec
CONSTANTS
    Kinds = {"cron", "heartbeat", "consolidation", "event", "deferred"}
    DeferredMaxRetries = 2
    MaxBackoffs = 2
    MaxRuns = 3
    MaxFaults = 2
    None = None  Me = Me  Peer = Peer
INVARIANTS TypeOK OneRunAtATime RetriesBounded
PROPERTIES DueIsHandled Recurs IntakeFolded
CHECK_DEADLOCK FALSE
