SPECIFICATION SideBySide
CONSTANTS
    r1 = r1
    r2 = r2
    r3 = r3
    r4 = r4
    r5 = r5
    sharedKey = sharedKey
    NoKey = NoKey
    NoEvent = NoEvent
    Requests = {r1, r2, r3, r4, r5}
    Keys = {sharedKey}
    KeyOf <- SharedKey
    Oversized = {r5}
    Consumers = {c1, c2}
    Concurrency = 2
    EventsPerMonth = 1
    FanOutLimit = 2
    MaxMonth = 2
    MaxScheduled = 1
    MaxFaults = 1
    d0 = d0
    Originals = {d0}
    ConsumerOf <- SomeConsumer
    Rows = {d0, d1, d2, d3}
    Operators = {o1, o2}
    NoRow = NoRow
    NoConsumer = NoConsumer
    ObjectKeys = {"10", "9", "aa", "b"}
    IntegerKeys = {"10", "9"}
    ByCodeUnit <- CodeUnits
    ByLength <- Lengths
    ByIndex <- Indices
    Inside = Inside
    Payloads <- TwoLevels
    Edits <- OneKey
    Leaf = Leaf
    MaxKeys = 2
SYMMETRY Interchangeable
INVARIANTS TypesOK QuotaOvershootBounded OneAnswerPerKey CreatedMeansFannedOut ReplayedIsEnqueued CopiesBounded PayloadVerified
CHECK_DEADLOCK FALSE
