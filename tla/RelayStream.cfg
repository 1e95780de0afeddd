SPECIFICATION FairSpec
CONSTANTS
    N = 2
    MaxSeq = 2
    MaxGap = 2
    MaxFaults = 1
INVARIANTS TypeOK AckedWasDelivered
PROPERTIES AnswersWhole DeliversInOrder StreamEnds AbandonedStops
CHECK_DEADLOCK FALSE
