--------------------------- MODULE RouteRegistry ---------------------------
(***************************************************************************)
(* The gateway's routes and the policies administrators give them          *)
(* (internal/gateway/routes.go, with the memory store's or Postgres's      *)
(* repository): creation and editing as drafts, publication, and the       *)
(* preflight an operator may ask for.  Each operation is one critical      *)
(* section of the store, or one transaction on one row, which changes the  *)
(* row or, when it fails, nothing.  Refused operations change nothing and  *)
(* have no action.                                                         *)
(***************************************************************************)
EXTENDS UpstreamSelection

CONSTANTS
    Ids,        \* what nextID can return
    Forms,      \* what administrators submit, see Form
    NotUrls,    \* upstream texts that are no http(s) address
    Unset,      \* a header, value or upstream left empty
    Seeds,      \* the lists of routes a process may find when it starts
    MaxEdits    \* bound: operations on routes

VARIABLES
    backend,   \* "memory" or "postgres", fixed when the process starts
    routes,    \* ListRoutes, in its order
    live,      \* history: the policy each route was last published with
    edits      \* operations so far

registryVars == <<backend, routes, live, edits>>

NoPolicy == [header |-> Unset, value |-> Unset, upstream |-> Unset]

\* A route as submitted, its upstream text split into candidates: none when
\* it held only separators.  A pattern is segments, open-ended or not; what
\* does not start with / is not rooted.
Form ==
    [pattern : [segs : Seq(STRING), tree : BOOLEAN, rooted : BOOLEAN],
     cands : Seq(Upstreams \cup NotUrls),
     limit : {"governed", "unlimited", "unreadable"},
     strategy : Strategies \cup {"unknown"}, weights : Weights,
     canary : [header : {Unset} \cup STRING, value : {Unset} \cup STRING,
               upstream : {Unset} \cup Upstreams \cup NotUrls]]

Route == [id : Ids, form : Forms, status : {"Draft", "Active"}]

ASSUME UnsetAssumption == Unset \notin Upstreams \cup Forms
ASSUME AddressesAssumption == NotUrls \cap Upstreams = {}
ASSUME FormsAssumption == Forms \subseteq Form
ASSUME EditsBound == MaxEdits \in Nat

-----------------------------------------------------------------------------
\* Saving checks the policy and not the addresses of the candidates.
PolicyAccepted_HalfCanary(f) ==
    /\ f.strategy \in Strategies
    /\ WeightsValid(f)
    /\ f.canary.upstream \in Upstreams \cup {Unset}

PolicyAccepted(f) ==
    /\ f.strategy \in Strategies
    /\ WeightsValid(f)
    /\ \/ f.canary = NoPolicy
       \/ f.canary.header # Unset /\ f.canary.upstream \in Upstreams

\* What a process finds was saved through these operations, or by the demo
\* data, whose policies they would accept; ids are primary keys, and Postgres
\* has a unique index on the pattern.
ASSUME SeedsAssumption ==
    \A kind \in DOMAIN Seeds : \A list \in Seeds[kind] :
        /\ list \in Seq(Route)
        /\ \A i \in DOMAIN list : PolicyAccepted(list[i].form)
        /\ \A i, j \in DOMAIN list : list[i].id = list[j].id => i = j
        /\ kind = "postgres" =>
               \A i, j \in DOMAIN list :
                   list[i].form.pattern = list[j].form.pattern => i = j

\* Postgres keeps patterns unique and lists the latest change first.  The
\* time of a change is when its transaction began, so others that began later
\* and committed earlier stay in front.  The memory store keeps its order.
PatternFree(rest, f) ==
    backend = "postgres" => \A i \in DOMAIN rest : rest[i].form.pattern # f.pattern

Listed(rest, i, r) ==
    {InsertAt(rest, j, r) :
        j \in IF backend = "memory" THEN {i} ELSE 1 .. Len(rest) + 1}

LivePolicies(list) ==
    [id \in Ids |->
        IF \E i \in DOMAIN list : list[i].id = id /\ list[i].status = "Active"
        THEN list[CHOOSE i \in DOMAIN list : list[i].id = id].form
        ELSE Unset]

RegistryInit ==
    /\ backend \in DOMAIN Seeds
    /\ routes \in Seeds[backend]
    /\ live = LivePolicies(routes)
    /\ edits = 0

Edited(list) ==
    /\ edits < MaxEdits
    /\ edits' = edits + 1
    /\ routes' \in list
    /\ UNCHANGED backend

\* Ids come from the clock, which moves on between two creations.
CreateRoute(id, f) ==
    /\ \A i \in DOMAIN routes : routes[i].id # id
    /\ PolicyAccepted(f)
    /\ PatternFree(routes, f)
    /\ Edited(Listed(routes, 1, [id |-> id, form |-> f, status |-> "Draft"]))
    /\ UNCHANGED live

\* An edit withdraws the route until it is published again.
UpdateRoute_StaysActive(i, f) ==
    LET rest == RemoveAt(routes, i) IN
        /\ PolicyAccepted(f)
        /\ PatternFree(rest, f)
        /\ Edited(Listed(rest, i, [routes[i] EXCEPT !.form = f]))
        /\ UNCHANGED live

UpdateRoute(i, f) ==
    LET rest == RemoveAt(routes, i) IN
        /\ PolicyAccepted(f)
        /\ PatternFree(rest, f)
        /\ Edited(Listed(rest, i, [routes[i] EXCEPT !.form = f, !.status = "Draft"]))
        /\ UNCHANGED live

\* Publication takes the route as it is, whatever preflight says of it.
PublishRoute(i) ==
    /\ Edited(Listed(RemoveAt(routes, i), i, [routes[i] EXCEPT !.status = "Active"]))
    /\ live' = [live EXCEPT ![routes[i].id] = routes[i].form]

RegistrySteps ==
    \/ \E id \in Ids, f \in Forms : CreateRoute(id, f)
    \/ \E i \in DOMAIN routes, f \in Forms : UpdateRoute(i, f)
    \/ \E i \in DOMAIN routes : PublishRoute(i)

\* The routes are saved forms with distinct ids whose policies were accepted,
\* and an active one has the form it was published with.  This is inductive.
InOrder(list, published) ==
    /\ list \in Seq(Route)
    /\ \A i, j \in DOMAIN list : list[i].id = list[j].id => i = j
    /\ \A i \in DOMAIN list :
           /\ PolicyAccepted(list[i].form)
           /\ list[i].status = "Active" => list[i].form = published[list[i].id]

RegistryInv ==
    /\ InOrder(routes, live)
    /\ live \in [Ids -> Forms \cup {Unset}]

-----------------------------------------------------------------------------
(* The preflight reads the list once, probes the candidates in their order  *)
(* and stores nothing.  `answers` says what each would answer to HEAD and   *)
(* to GET.  Every route has the auth policy it was created with, a          *)
(* recognized one.                                                          *)
Replies == {"fine", "405", "5xx", "none"}
Answers == [Upstreams -> [head : Replies, get : Replies]]

Probe(a) == IF a.head = "405" THEN a.get ELSE a.head

ValidUpstreams(cands) == cands # <<>> /\ ToSet(cands) \subseteq Upstreams

\* The first candidate below 500 makes the route healthy.
Health(f, answers) ==
    LET got == {Probe(answers[u]) : u \in ToSet(f.cands)} IN
        CASE ~ValidUpstreams(f.cands)       -> "Invalid"
          [] ValidUpstreams(f.cands) /\ got \cap {"fine", "405"} # {} -> "Healthy"
          [] ValidUpstreams(f.cands) /\ got \subseteq {"none"} -> "Unreachable"
          [] OTHER                          -> "Degraded"

Checks(r, answers) ==
    {IF r.form.pattern.rooted THEN "Pass" ELSE "Block",
     CASE r.form.limit = "governed"   -> "Pass"
       [] r.form.limit = "unlimited"  -> "Warn"
       [] r.form.limit = "unreadable" -> "Block",
     IF r.status = "Active" THEN "Pass" ELSE "Warn",
     CASE Health(r.form, answers) = "Healthy"  -> "Pass"
       [] Health(r.form, answers) = "Degraded" -> "Warn"
       [] OTHER                                -> "Block"}

Ready(r, answers) == "Block" \notin Checks(r, answers)

\* What preflight could call ready, were its upstreams well.
ReadyForms ==
    {f \in Forms : \E answers \in Answers :
        Ready([id |-> Unset, form |-> f, status |-> "Draft"], answers)}

=============================================================================
