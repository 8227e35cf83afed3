SPECIFICATION SideBySide
CONSTANTS
    Clients = {r1, r2}
    r4 = r4
    alice = alice
    bob = bob
    t2 = t2
    n2 = n2
    Requests = {r1, r2, r3, r4}
    Emails = {alice, bob}
    EmailOf <- MCEmailOf
    Registrations = {r1, r2}
    MaxFaults = 2
    Passwords = {1}
    RefreshTTL = 3
    AccessTTL = 2
    GracePeriod = 1
    MaxLatency = 1
    MaxTime = 4
    Topics = {t1, t2}
    Children = {c1, c2}
    ApiKeys = {k1}
    Pull = {c2}
    Names = {n1, n2}
    Fields = {retentionDays}
    Values = {0, 1}
    Default = 0
    NoName = NoName
    NoTopic = NoTopic
    Unset = 9
    Rows = {1, 2, 3, 4}
    CreatedAt <- MCCreatedAt
    MaxFirst = 4
    PageSize = 2
SYMMETRY Interchangeable
INVARIANTS TypesOK SessionsEnd AloneNeverFails GoneIsRefused UpdatesAddUp WalkIsSound
PROPERTY WindowCloses
CHECK_DEADLOCK FALSE
