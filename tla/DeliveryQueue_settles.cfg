SPECIFICATION FairSpec
CONSTANTS
    d1 = d1
    d2 = d2
    d3 = d3
    e1 = e1
    e2 = e2
    c1 = c1
    c2 = c2
    NoDelivery = NoDelivery
    Deliveries = {d1, d2}
    LateRows = {d2}
    Events = {e1}
    Consumers = {c1}
    EventOf <- OneEvent
    ConsumerOf <- OneConsumer
    PullConsumers = {}
    CorruptEvents = {}
    Workers = {w1}
    BatchSize = 1
    ApiCalls = {}
    MaxAttempts = 1
    MaxApiAttempts = 1
    RetryCap = 2
    LetterCap = 1
    MaxCrashes = 1
    MaxDbErrors = 1
    Replies = {"ok", "202", "4xx", "5xx", "error"}
    LateTimers = FALSE
    RacingAcks = FALSE
PROPERTY AwaitingAckEnds
PROPERTY EventuallySettled
CHECK_DEADLOCK FALSE
