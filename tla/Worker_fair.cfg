SPECIFICATION FairSideBySide
CONSTANTS
    Parts = {"task", "scheduler", "process", "poll"}
    Timers = {t1, t2, t3}
    Runs = {r1, r2, r3, r4, r5}
    Callers = {k1, k2, k3}
    None = None
    Schedules = {s1, s2, s3}
    Seeded = {s1, s2, s3}
    BadCron = {s3}
    Consumers = {c1}
    Workers = {w1}
    BatchSize = 2
    ConsumerLimit = 1
    Period = 2
    LateUpdates = TRUE
    MaxTime = 2
    FireCap = 3
    MaxFaults = 1
    Tenants = {a}
    Jobs = {j1, j2}
    Others = {"scheduler"}
    MaxRecords = 1
    Firsts <- Calendar
    FirstDays = {29}
    LastDay = 29
    Busy = {29}
    Retention = 3
    Deliveries = {p1, p2, q1}
    Unpushable = {q1}
    MaxAttempts = 2
PROPERTIES DueIsFired KeepsGoing StopsByItself PushesAreServed TurnsGetOn
CHECK_DEADLOCK FALSE
