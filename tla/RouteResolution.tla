-------------------------- MODULE RouteResolution --------------------------
(***************************************************************************)
(* From a proxied request to the upstreams it tries: its own ones, or      *)
(* those of the first active route whose pattern covers it, with the       *)
(* route's policy filled in where the request sets none                    *)
(* (internal/gateway/proxy.go, resolveProxyRoute), then ordered by         *)
(* UpstreamSelection, while administrators change the RouteRegistry.       *)
(* The list of routes is read at once and nothing but the cursor is shared *)
(* afterwards, so that a resolution is one step.                           *)
(***************************************************************************)
EXTENDS RouteRegistry

CONSTANTS
    HeaderMaps,      \* the headers clients send, functions from names to values
    ProxyRequests    \* what clients send, see ProxyRequest

VARIABLE via   \* history: the route last used, as it was read, or NoRoute

vars == <<selectionVars, registryVars, via>>

\* A request whose fallback is no address is refused after its turn is drawn;
\* such requests are left out.
ProxyRequest ==
    [path : Seq(STRING), own : Seq(Upstreams \cup NotUrls),
     strategy : Strategies \cup {"unknown", Unset}, weights : Weights,
     canary : [header : {Unset} \cup STRING, value : {Unset} \cup STRING,
               upstream : {Unset} \cup Upstreams \cup NotUrls],
     headers : HeaderMaps, fallback : Seq(Upstreams)]

ASSUME ProxyRequestsAssumption ==
    /\ ProxyRequests \subseteq ProxyRequest
    /\ \A h \in HeaderMaps : Unset \notin DOMAIN h

NoRoute == [id |-> Unset]

-----------------------------------------------------------------------------
RouteMatches(pattern, path) ==
    IF pattern.tree THEN IsPrefix(pattern.segs, path) ELSE pattern.segs = path

Covers(i, p) == routes[i].status = "Active" /\ RouteMatches(routes[i].form.pattern, p.path)

Chosen(p) ==
    {i \in DOMAIN routes : Covers(i, p) /\ \A j \in 1 .. i - 1 : ~Covers(j, p)}

\* What the request sets wins, each part of the canary rule by itself.
Merged(p, f) ==
    [p EXCEPT
        !.strategy = IF @ = Unset THEN f.strategy ELSE @,
        !.weights = IF DOMAIN @ = {} THEN f.weights ELSE @,
        !.canary = [part \in DOMAIN NoPolicy |->
                       IF p.canary[part] = Unset THEN f.canary[part] ELSE p.canary[part]]]

CanaryMatches(o) ==
    /\ o.canary.header \in DOMAIN o.headers
    /\ o.canary.value \in {Unset, o.headers[o.canary.header]}

\* Everything but the weights, which only a weighted request looks at.
Usable(o, cands) ==
    /\ o.strategy # "unknown"
    /\ ValidUpstreams(cands)
    /\ o.canary # NoPolicy => o.canary.header # Unset /\ o.canary.upstream # Unset
    /\ CanaryMatches(o) => o.canary.upstream \in Upstreams

ToSelect(o, cands) ==
    [cands |-> cands,
     strategy |-> IF o.strategy = Unset THEN "ordered" ELSE o.strategy,
     weights |-> o.weights,
     canary |-> IF CanaryMatches(o) THEN o.canary.upstream ELSE NoCanary,
     fallback |-> o.fallback]

\* Texts of upstreams are split without repetitions, and Requests holds what
\* the requests of clients come to.
ASSUME SelectionsAssumption ==
    \A p \in ProxyRequests :
        /\ Usable(p, p.own) => ToSelect(p, p.own) \in Requests
        /\ p.own = <<>> =>
               \A f \in Forms : Usable(Merged(p, f), f.cands) =>
                   ToSelect(Merged(p, f), f.cands) \in Requests

Serve(o, cands) ==
    IF Usable(o, cands)
    THEN Select(ToSelect(o, cands))
    ELSE last' = <<>> /\ UNCHANGED <<cursor, first>>

-----------------------------------------------------------------------------
Init == SelectionInit /\ RegistryInit /\ via = NoRoute

ProxyOwn(p) ==
    /\ p.own # <<>>
    /\ Serve(p, p.own)
    /\ via' = NoRoute
    /\ UNCHANGED registryVars

ProxyRouted(p, i) ==
    /\ p.own = <<>> /\ p.strategy # "unknown"
    /\ i \in Chosen(p)
    /\ Serve(Merged(p, routes[i].form), routes[i].form.cands)
    /\ via' = [id |-> routes[i].id, form |-> routes[i].form]
    /\ UNCHANGED registryVars

\* No active route covers the request, or its strategy is unknown.
ProxyUnrouted(p) ==
    /\ p.own = <<>>
    /\ p.strategy = "unknown" \/ Chosen(p) = {}
    /\ last' = <<>>
    /\ via' = NoRoute
    /\ UNCHANGED <<cursor, first, registryVars>>

Next ==
    \/ RegistrySteps /\ UNCHANGED <<selectionVars, via>>
    \/ \E p \in ProxyRequests : ProxyOwn(p) \/ ProxyUnrouted(p)
    \/ \E p \in ProxyRequests, i \in DOMAIN routes : ProxyRouted(p, i)

Spec == Init /\ [][Next]_vars

-----------------------------------------------------------------------------
\* The registry is in order, in Postgres with distinct patterns; cursor, counts
\* and answer are as UpstreamSelection says.
TypeOK ==
    /\ SelectionTypeOK
    /\ RegistryInv
    /\ backend \in DOMAIN Seeds
    /\ \A i \in DOMAIN routes : PatternFree(RemoveAt(routes, i), routes[i].form)
    /\ edits \in 0 .. MaxEdits
    /\ via = NoRoute \/ via \in [id : Ids, form : Forms]

\* A request goes through a route only as an administrator has published it:
\* no draft, and no edit made after the publication, ever routes anything,
\* although edits overwrite the published policy in place.
RoutedAsPublished ==
    [][UNCHANGED registryVars /\ via' # NoRoute => via'.form = live[via'.id]]_vars

\* What was saved can be served: a request that brings no weights and no
\* canary rule of its own is not refused by a published route that preflight
\* can call ready, whatever strategy it asks for, whatever was edited before
\* and however the two are merged.
ReadyRouteServes ==
    \A p \in ProxyRequests : \A i \in Chosen(p) :
        LET f == routes[i].form
            o == Merged(p, f)
        IN  /\ p.strategy # "unknown" /\ DOMAIN p.weights = {} /\ p.canary = NoPolicy
            /\ f \in ReadyForms
            => Usable(o, f.cands) /\ ~Refused(ToSelect(o, f.cands))

=============================================================================
