SPECIFICATION TwoKinds
CONSTANTS
    a = a
    b = b
    p1 = p1
    p2 = p2
    c1 = c1
    c2 = c2
    d2 = d2
    Tenants = {a, b}
    NoTenant = NoTenant
    Topics = {p1, p2}
    TopicOwner <- MCTopicOwner
    FirstOn <- MCFirstOn
    Consumers = {c1, c2}
    Schedules = {s1}
    Events = {e1}
    Deliveries = {d1, d2}
    Tasks = {x1, x2}
    NoRow = NoRow
SYMMETRY Interchangeable
INVARIANTS JobsSeeTheirEvent ReferencesStayHome
PROPERTY WritesStayHome
