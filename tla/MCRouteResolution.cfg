SPECIFICATION Spec
CONSTANTS
    a = a
    b = b
    c = c
    api = api
    NoCanary = NoCanary
    Unset = Unset
    Upstreams = {a, b, c}
    NotUrls = {api}
    MaxWeight = 4
    Weights <- Tables
    Ids = {"route_llm", "route_2"}
    Forms <- AllForms
    Seeds <- Starts
    HeaderMaps <- HeadersSent
    ProxyRequests <- Clients
    Requests <- Selections
    MaxDraws = 8
    MaxEdits = 3
INVARIANTS
    TypeOK
    EachUpstreamOnce
    ShareExact
    ReadyRouteServes
PROPERTIES
    RoutedAsPublished
