------------------------- MODULE UpstreamSelection -------------------------
(***************************************************************************)
(* The order in which a proxied request tries its upstreams                *)
(* (internal/gateway/proxy.go, orderGatewayProxyUpstreams and below): a    *)
(* matching canary first; otherwise as declared, or starting at the turn   *)
(* that one atomic cursor, shared by all routes of the process, says; the  *)
(* fallback upstreams last.  The cursor is drawn with one atomic Add, so   *)
(* concurrent requests are taken one at a time.                            *)
(***************************************************************************)
EXTENDS UpstreamLists, SequencesExt

CONSTANTS
    Upstreams,    \* upstream addresses
    NoCanary,     \* the request matches no canary rule
    MaxWeight,    \* maxProxyUpstreamWeight
    Weights,      \* the weight tables in use, partial functions to Int
    Requests,     \* the requests to order upstreams for, see Request
    MaxDraws      \* bound: turns drawn from the cursor, far below 2^63

Strategies == {"ordered", "round_robin", "weighted"}

\* A request after the route's routing policy is merged into it.  `weights`
\* names some upstreams, possibly none, possibly one that is no candidate.
Request ==
    [cands : Seq(Upstreams), strategy : Strategies,
     weights : Weights,
     canary : Upstreams \cup {NoCanary}, fallback : Seq(Upstreams)]

ASSUME CanaryAssumption == NoCanary \notin Upstreams
ASSUME WeightsAssumption ==
    \A w \in Weights : DOMAIN w \subseteq Upstreams /\ \A u \in DOMAIN w : w[u] \in Int
ASSUME BoundsAssumption == MaxWeight \in Nat \ {0} /\ MaxDraws \in Nat
ASSUME RequestsAssumption ==
    /\ Requests \subseteq Request
    /\ \A q \in Requests : q.cands # <<>> /\ IsInjective(q.cands)

VARIABLES
    cursor,   \* gatewayProxyStrategyCursor
    first,    \* history: how often each plan's turn fell to each upstream
    last      \* the last request resolved and the upstreams it will try

selectionVars == <<cursor, first, last>>

\* What two requests must share to rotate over the same upstreams alike.
Plan(q) == [cands |-> q.cands, strategy |-> q.strategy, weights |-> q.weights]
Plans == {Plan(q) : q \in Requests}

-----------------------------------------------------------------------------
\* Weights are refused as a whole when one of them is unusable; an upstream
\* they do not name weighs 1.
WeightsValid(p) ==
    \A u \in DOMAIN p.weights :
        u \in ToSet(p.cands) /\ p.weights[u] > 0 /\ p.weights[u] <= MaxWeight

Weight(p, u) ==
    IF p.strategy = "weighted" /\ u \in DOMAIN p.weights THEN p.weights[u] ELSE 1

\* The weight of the first i candidates.
Seen(p, i) == FoldLeft(LAMBDA n, u : n + Weight(p, u), 0, SubSeq(p.cands, 1, i))
Total(p) == Seen(p, Len(p.cands))

\* The candidate whose share of the cycle holds the cursor.
Selected_OffByOne(p) ==
    CHOOSE i \in DOMAIN p.cands :
        /\ cursor % Total(p) <= Seen(p, i)
        /\ \A j \in 1 .. i - 1 : cursor % Total(p) > Seen(p, j)
Selected(p) ==
    CHOOSE i \in DOMAIN p.cands :
        /\ cursor % Total(p) < Seen(p, i)
        /\ \A j \in 1 .. i - 1 : cursor % Total(p) >= Seen(p, j)

Rotates(q) == q.canary = NoCanary /\ Len(q.cands) > 1 /\ q.strategy # "ordered"

\* Only a weighted turn looks at the weights.
Refused(q) == Rotates(q) /\ q.strategy = "weighted" /\ ~WeightsValid(q)

-----------------------------------------------------------------------------
SelectionInit ==
    /\ cursor = 0
    /\ first = [p \in Plans |-> [u \in ToSet(p.cands) |-> 0]]
    /\ last = <<>>

Resolved(q, order) ==
    last' = <<[req |-> q, tries |-> AppendUpstreams(order, q.fallback)]>>

\* The canary header matched: its upstream goes first, no turn is drawn.
CanaryFirst_DrawsTurn(q) ==
    /\ q.canary # NoCanary
    /\ Resolved(q, AppendUpstreams(<<q.canary>>, q.cands))
    /\ cursor' = cursor + 1
    /\ UNCHANGED first

CanaryFirst(q) ==
    /\ q.canary # NoCanary
    /\ Resolved(q, AppendUpstreams(<<q.canary>>, q.cands))
    /\ UNCHANGED <<cursor, first>>

\* One candidate, or the ordered strategy: as declared.
AsDeclared(q) ==
    /\ q.canary = NoCanary
    /\ ~Rotates(q)
    /\ Resolved(q, q.cands)
    /\ UNCHANGED <<cursor, first>>

\* A turn is drawn from the cursor; the candidates after the selected one
\* follow it cyclically.
TakeTurn(q) ==
    /\ Rotates(q) /\ ~Refused(q)
    /\ cursor < MaxDraws
    /\ LET i == Selected(Plan(q)) IN
           /\ Resolved(q, Rotated(q.cands, i))
           /\ first' = [first EXCEPT ![Plan(q)][q.cands[i]] = @ + 1]
    /\ cursor' = cursor + 1

\* Unusable weights: 400, and no turn is drawn.
Refuse(q) ==
    /\ Refused(q)
    /\ last' = <<>>
    /\ UNCHANGED <<cursor, first>>

Select(q) == CanaryFirst(q) \/ AsDeclared(q) \/ TakeTurn(q) \/ Refuse(q)

-----------------------------------------------------------------------------
SelectionTypeOK ==
    /\ cursor \in 0 .. MaxDraws
    /\ DOMAIN first = Plans
    /\ \A p \in Plans : first[p] \in [ToSet(p.cands) -> 0 .. MaxDraws]
    /\ \/ last = <<>>
       \/ /\ Len(last) = 1
          /\ last[1].req \in Requests
          /\ last[1].tries \in Seq(Upstreams)

\* Failing over visits every upstream that could answer, and none twice: the
\* list a request tries holds each candidate, each fallback and the matching
\* canary exactly once, the canary in front and the fallbacks that are no
\* candidates at the end.
EachUpstreamOnce ==
    last # <<>> =>
        LET q == last[1].req
            tries == last[1].tries
            own == ToSet(q.cands) \cup ({q.canary} \ {NoCanary})
        IN  /\ IsInjective(tries)
            /\ ToSet(tries) = own \cup ToSet(q.fallback)
            /\ ToSet(SubSeq(tries, 1, Cardinality(own))) = own
            /\ q.canary # NoCanary => tries[1] = q.canary

\* Load is split as the weights say: while no other plan has drawn turns from
\* the shared cursor, after every full cycle of a plan each of its upstreams
\* has been first in proportion to its weight, however canary requests and
\* refused ones came in between.
ShareExact ==
    \A p \in Plans :
        /\ \A o \in Plans \ {p} : \A u \in DOMAIN first[o] : first[o][u] = 0
        /\ cursor % Total(p) = 0
        /\ cursor > 0
        /\ p.strategy # "ordered" /\ Len(p.cands) > 1 /\ WeightsValid(p)
        /\ \E u \in DOMAIN first[p] : first[p][u] > 0
        => \A u \in DOMAIN first[p] :
               first[p][u] * Total(p) = cursor * Weight(p, u)

=============================================================================
