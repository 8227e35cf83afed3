SPECIFICATION FairSpec
CONSTANTS
    d1 = d1
    d2 = d2
    d3 = d3
    e1 = e1
    e2 = e2
    c1 = c1
    c2 = c2
    NoDelivery = NoDelivery
    Deliveries = {d1}
    LateRows = {}
    Events = {e1}
    Consumers = {c1}
    EventOf <- OneEvent
    ConsumerOf <- OnePerConsumer
    PullConsumers = {}
    CorruptEvents = {}
    Workers = {w1}
    BatchSize = 1
    ApiCalls = {}
    MaxAttempts = 1
    MaxApiAttempts = 1
    RetryCap = 2
    LetterCap = 1
    MaxCrashes = 0
    MaxDbErrors = 0
    Replies = {"ok", "202"}
    LateTimers = TRUE
    RacingAcks = FALSE
PROPERTY AwaitingAckEnds
CHECK_DEADLOCK FALSE
