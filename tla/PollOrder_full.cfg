SPECIFICATION FairSpec
CONSTANTS
    p1 = p1
    p2 = p2
    q1 = q1
    Deliveries = {p1, p2, q1}
    Unpushable = {q1}
    BatchSize = 1
    MaxAttempts = 1
PROPERTY PushesAreServed
CHECK_DEADLOCK FALSE
