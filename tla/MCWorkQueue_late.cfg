SPECIFICATION FairSpec
CONSTANTS
    i1 = i1
    i2 = i2
    w1 = w1
    w2 = w2
    None = None
    Item = {i1, i2}
    Worker = {w1, w2}
    Id <- OwnIds
    WakeEvent <- Clock
    Deadlined = {}
    Unhandled = {}
    Cancellable = {}
    External <- NoExternal
    MaxAttempts = 2
    BatchSize = 1
    MaxAlive = 2
    MaxFaults = 0
PROPERTY LateResultsDiscarded
