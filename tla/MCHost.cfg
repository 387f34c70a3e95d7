SPECIFICATION Spec
CONSTANTS
    c1 = c1
    c2 = c2
    Commands <- MCCommands
    Pids = {1, 2}
    Batch = 2
    MaxBoots = 2
    None = None
CHECK_DEADLOCK FALSE
INVARIANT TurnSeesOpenClients
PROPERTY CommandReturns
PROPERTY ShutdownEnds
PROPERTY EndsAreRegistered
