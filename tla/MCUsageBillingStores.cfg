SPECIFICATION FairStoresSpec
CONSTANTS
    p1 = p1
    P1 = P1
    e1 = e1
    e2 = e2
    e3 = e3
    a1 = a1
    a2 = a2
    c1 = c1
    c2 = c2
    NoRow = NoRow
    NoOne = NoOne
    Clients = {c1, c2}
    Events = {e1, e2, e3}
    Charged = {e3}
    Costs <- Amounts
    Projects = {p1, P1}
    Fold <- Folding
    EventProject <- Naming
    Alerts = {a1, a2}
    AlertProject <- Plans
    WarnAt <- Shares
    DemoAlerts <- Demo
INVARIANTS
    TypeOK
    AuditPerRow
    AlertsFollow
PROPERTIES
    LedgerKept
    Settles
