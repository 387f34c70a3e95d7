SPECIFICATION Spec
CONSTANTS
    c1 = c1
    c2 = c2
    w1 = w1
    w2 = w2
    Contexts <- MCContexts
    k1 = k1
    k2 = k2
    Keys <- MCKeys
    Values = {done}
    Writers <- MCWriters
    Turns = {t}
    MaxCalls = 2
    MaxTurns = 2
    None = None
CHECK_DEADLOCK FALSE
SYMMETRY Alike
INVARIANT PacketIsOfThisTurn
PROPERTY WipedOnlyByStaleRead
