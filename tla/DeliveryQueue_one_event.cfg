SPECIFICATION Spec
CONSTANTS
    d1 = d1
    d2 = d2
    d3 = d3
    e1 = e1
    e2 = e2
    c1 = c1
    c2 = c2
    NoDelivery = NoDelivery
    Deliveries = {d1, d2, d3}
    LateRows = {d3}
    Events = {e1}
    Consumers = {c1, c2}
    EventOf <- OneEvent
    ConsumerOf <- OnePerConsumer
    PullConsumers = {c2}
    CorruptEvents = {}
    Workers = {w1, w2}
    BatchSize = 1
    ApiCalls = {}
    MaxAttempts = 1
    MaxApiAttempts = 1
    RetryCap = 2
    LetterCap = 1
    MaxCrashes = 1
    MaxDbErrors = 0
    Replies = {"ok", "202", "4xx", "5xx", "error"}
    LateTimers = FALSE
    RacingAcks = FALSE
INVARIANT EventNeverAhead
SYMMETRY WorkerSymmetry
CHECK_DEADLOCK FALSE
