SPECIFICATION FairSpec
CONSTANTS
    m1 = m1
    m2 = m2
    w1 = w1
    w2 = w2
    Message = {m1}
    Worker = {w1, w2}
    MaxAttempts = 2
    MaxRounds = 1
    Zombies = TRUE
    MaxMore = 1
    MaxConvs = 3
    MaxFaults = 1
INVARIANT OneTurnPerMessage
INVARIANT DoneIsDone
INVARIANT FewConversations
PROPERTY KeepsTurns
PROPERTY EveryItemEnds
CHECK_DEADLOCK FALSE
