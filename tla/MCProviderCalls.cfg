SPECIFICATION FairSpec
CONSTANTS
    Caller = {c1, c2}
    Providers = 2
    FailureThreshold = 2
    TrialLimit = 2
    MaxAttempts = 2
    Streaming = TRUE
INVARIANT RefusesOnEvidence
INVARIANT TrialSlotsAreHeld
INVARIANT HealthyCandidateServes
PROPERTY RefusalEnds
