SPECIFICATION Spec
CONSTANTS
    i1 = i1
    i2 = i2
    w1 = w1
    w2 = w2
    None = None
    Item = {i1, i2}
    Worker = {w1, w2}
    Id <- OwnIds
    WakeEvent <- Clock
    Deadlined = {i2}
    Unhandled = {}
    Cancellable = {}
    External <- NoExternal
    MaxAttempts = 2
    BatchSize = 2
    MaxAlive = 2
    MaxFaults = 0
SYMMETRY Incarnations
INVARIANT RunsWithinBudget
INVARIANT LedgerIsTrue
PROPERTY FenceStopsZombies
PROPERTY StartIsFenced
PROPERTY ResultIsFenced
PROPERTY KeepsLifecycle
