SPECIFICATION Spec
CONSTANTS
    d1 = d1
    d2 = d2
    d3 = d3
    e1 = e1
    e2 = e2
    c1 = c1
    c2 = c2
    NoDelivery = NoDelivery
    Deliveries = {d1, d2}
    LateRows = {}
    Events = {e1, e2}
    Consumers = {c1, c2}
    EventOf <- OneRowPerEvent
    ConsumerOf <- OnePerConsumer
    PullConsumers = {}
    CorruptEvents = {e2}
    Workers = {w1, w2}
    BatchSize = 1
    ApiCalls = {a1}
    MaxAttempts = 1
    MaxApiAttempts = 1
    RetryCap = 2
    LetterCap = 2
    MaxCrashes = 1
    MaxDbErrors = 0
    Replies = {"ok", "202", "4xx", "5xx", "error"}
    LateTimers = FALSE
    RacingAcks = FALSE
INVARIANT LeaseIsKept
PROPERTY KeepsContract
CHECK_DEADLOCK FALSE
