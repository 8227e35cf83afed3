SPECIFICATION Spec
CONSTANTS
    d1 = d1
    d2 = d2
    d3 = d3
    e1 = e1
    e2 = e2
    c1 = c1
    c2 = c2
    NoDelivery = NoDelivery
    Deliveries = {d1, d2}
    LateRows = {}
    Events = {e1}
    Consumers = {c1}
    EventOf <- OneEvent
    ConsumerOf <- OneConsumer
    PullConsumers = {}
    CorruptEvents = {}
    Workers = {w1, w2}
    BatchSize = 1
    ApiCalls = {}
    MaxAttempts = 1
    MaxApiAttempts = 1
    RetryCap = 2
    LetterCap = 1
    MaxCrashes = 0
    MaxDbErrors = 0
    Replies = {"ok", "202", "5xx"}
    LateTimers = TRUE
    RacingAcks = TRUE
INVARIANT PendingEventUntouched
INVARIANT FinalEventEarned
CHECK_DEADLOCK FALSE
SYMMETRY WorkerSymmetry
