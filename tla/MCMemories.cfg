SPECIFICATION Spec
CONSTANTS
    Ids <- MCIds
    Early <- MCEarly
    Expiring <- MCEarly
    Similar <- MCSimilar
    Linkable <- MCLinkable
    Relevance <- MCRelevance
    MinCluster = 2
    MaxClusters = 2
    Limit = 2
    MaxPerTurn = 1
    MaxTurns = 1
    MaxStatements = 1
    MaxFaults = 1
    None = None
CHECK_DEADLOCK FALSE
INVARIANT HasHeir
INVARIANT NoRootTwice
INVARIANT RecallIsHonest
PROPERTY KeepsLifecycle
PROPERTY ExpiredEndsUp
