SPECIFICATION Spec
CONSTANTS
    p1 = p1
    p2 = p2
    e1 = e1
    e2 = e2
    e3 = e3
    a1 = a1
    a2 = a2
    c1 = c1
    c2 = c2
    NoRow = NoRow
    NoOne = NoOne
    Clients = {c1, c2}
    Events = {e1, e2}
    Charged = {}
    Costs = {2}
    Projects = {p1, p2}
    EventProject <- Naming
    Alerts = {a1}
    AlertProject <- Plans
    WarnAt <- Shares
    DemoAlerts <- None
INVARIANTS
    AlertsCurrent
