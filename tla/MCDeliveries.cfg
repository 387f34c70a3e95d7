SPECIFICATION FairSpec
CONSTANTS
    d1 = d1
    d2 = d2
    Reply = {d1, d2}
    Chunks <- LongAndShort
    MaxAttempts = 2
    Batch = 2
    MaxFaults = 2
INVARIANT DuplicatesAreBounded
INVARIANT ChunksInOrder
PROPERTY RecordedEnds
CHECK_DEADLOCK FALSE
INVARIANT OutcomesAreTrue
