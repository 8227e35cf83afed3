SPECIFICATION SideBySide
CONSTANTS
    Parts = {"task", "scheduler", "process", "cleanup", "migrated"}
    Timers = {t1, t2, t3}
    Runs = {r1, r2, r3, r4, r5}
    Callers = {k1, k2, k3}
    None = None
    Schedules = {s1, s2}
    Seeded = {s1}
    BadCron = {}
    Consumers = {c1, c2}
    Workers = {w1, w2}
    BatchSize = 1
    ConsumerLimit = 2
    Period = 2
    LateUpdates = FALSE
    MaxTime = 4
    FireCap = 5
    MaxFaults = 2
    Tenants = {a, b}
    Jobs = {j1, j2}
    Others = {"scheduler"}
    MaxRecords = 1
    Firsts <- Calendar
    FirstDays = {29, 32}
    LastDay = 62
    Busy = {29, 30}
    Retention = 3
    Deliveries = {}
    Unpushable = {}
    MaxAttempts = 1
SYMMETRY Interchangeable
INVARIANTS TypesOK RecordedRunReachedAll FiresBounded CountsAddUp QuietWhenDisconnected CleanupLeavesWhole
PROPERTIES KeepsContract NothingGoesEarly
CHECK_DEADLOCK FALSE
