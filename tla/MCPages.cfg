SPECIFICATION Spec
CONSTANTS
    Forms = {form}
    Grants = {grant}
    r1 = r1
    r2 = r2
    r3 = r3
    Requests <- MCRequests
    MaxSubmissions = 1
    MaxFaults = 1
    None = None
CHECK_DEADLOCK FALSE
INVARIANT ResultIsAnnounced
INVARIANT ConnectedIsBacked
PROPERTY LateIsNeverRecorded
