SPECIFICATION Spec
CONSTANTS
    d1 = d1
    d2 = d2
    d3 = d3
    e1 = e1
    e2 = e2
    c1 = c1
    c2 = c2
    NoDelivery = NoDelivery
    Deliveries = {d1}
    LateRows = {}
    Events = {e1}
    Consumers = {c1}
    EventOf <- OneEvent
    ConsumerOf <- OnePerConsumer
    PullConsumers = {}
    CorruptEvents = {}
    Workers = {w1, w2}
    BatchSize = 1
    ApiCalls = {a1}
    MaxAttempts = 1
    MaxApiAttempts = 1
    RetryCap = 2
    LetterCap = 1
    MaxCrashes = 0
    MaxDbErrors = 1
    Replies = {"ok", "202", "error"}
    LateTimers = TRUE
    RacingAcks = TRUE
INVARIANT FailedIsBuried
INVARIANT DeliveredHasEvidence
INVARIANT GivesUpNoEarlier
CHECK_DEADLOCK FALSE
SYMMETRY WorkerSymmetry
