SPECIFICATION WebhookFairSpec
CONSTANTS
    r1 = r1
    r2 = r2
    r3 = r3
    m1 = m1
    m2 = m2
    s1 = s1
    Request = {r1, r2}
    Message = {m1, m2}
    Sender = {s1}
    Carries <- TwiceAndOnce
    From <- OneSender
    None = None
    MaxTries = 2
    MaxFailures = 0
PROPERTY AcceptedIsProcessed
CHECK_DEADLOCK FALSE
