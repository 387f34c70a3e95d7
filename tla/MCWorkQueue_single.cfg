SPECIFICATION FairSpec
CONSTANTS
    i1 = i1
    i2 = i2
    w1 = w1
    w2 = w2
    None = None
    Item = {i1, i2}
    Worker = {w1, w2}
    Id <- OwnIds
    WakeEvent <- MessageChain
    Deadlined = {i1}
    Unhandled = {i2}
    Cancellable = {i2}
    External <- Messages
    MaxAttempts = 2
    BatchSize = 2
    MaxAlive = 1
    MaxFaults = 1
PROPERTY WakeIsNotLost
PROPERTY WokenNeverExpires
PROPERTY EventuallyEnds
