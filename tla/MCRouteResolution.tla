------------------------- MODULE MCRouteResolution -------------------------
EXTENDS RouteResolution, TLC

CONSTANTS a, b, c, api

None == [u \in {} |-> 1]
Tree(segs) == [segs |-> segs, tree |-> TRUE, rooted |-> TRUE]
Exact(segs) == [segs |-> segs, tree |-> FALSE, rooted |-> TRUE]
Star == [segs |-> <<>>, tree |-> TRUE, rooted |-> FALSE]

F(pattern, cands, limit, strategy, weights, canary) ==
    [pattern |-> pattern, cands |-> cands, limit |-> limit,
     strategy |-> strategy, weights |-> weights, canary |-> canary]
Canary(header, value, upstream) ==
    [header |-> header, value |-> value, upstream |-> upstream]

\* The demo route, whose upstream is a service name.
Demo == F(Tree(<<"v1">>), <<api>>, "governed", "ordered", None, NoPolicy)
\* Weighted over three, and a rotation with a canary under a narrower pattern.
Shared == F(Tree(<<"v1">>), <<a, b, c>>, "governed", "weighted", a :> 2, NoPolicy)
Narrow == F(Exact(<<"v1", "x">>), <<b, a>>, "unlimited", "round_robin", None,
            Canary("x-canary", Unset, c))
\* A pattern that covers everything, over one upstream.
CatchAll == F(Star, <<c>>, "unreadable", "ordered", None, NoPolicy)
\* Saved by no one: a rule without its upstream, weights of a stranger.
HalfCanary == F(Tree(<<"v1">>), <<a, b>>, "governed", "ordered", None,
                Canary("x-canary", "on", Unset))
Stranger == F(Exact(<<"v1", "x">>), <<a, b>>, "governed", "ordered", c :> 1, NoPolicy)

AllForms == {Demo, Shared, Narrow, CatchAll, HalfCanary, Stranger}

At(id, f) == [id |-> id, form |-> f, status |-> "Active"]

\* The demo data, or what an earlier process left in Postgres.
Starts ==
    [memory |-> {<<At("route_llm", Demo)>>},
     postgres |-> {<<At("route_llm", Shared)>>}]

P(own, strategy, weights, canary, headers, fallback) ==
    [path |-> <<"v1", "x">>, own |-> own, strategy |-> strategy, weights |-> weights,
     canary |-> canary, headers |-> headers, fallback |-> fallback]
On == "x-canary" :> "on"
NoHeaders == [h \in {} |-> "on"]

\* Routed: with nothing of its own, with the canary's header, with a strategy,
\* with a rule that completes or spoils the route's.  With upstreams of its
\* own: over two with weights, with weights out of range, with a canary.
Clients == {
    P(<<>>, Unset, None, NoPolicy, NoHeaders, <<a>>),
    P(<<>>, "weighted", None, NoPolicy, On, <<>>),
    P(<<>>, Unset, None, Canary(Unset, "off", a), On, <<c>>),
    P(<<>>, "unknown", None, NoPolicy, On, <<>>),
    P(<<a, b>>, "weighted", b :> 3, NoPolicy, NoHeaders, <<b, c>>),
    P(<<a, b>>, "weighted", a :> 5, NoPolicy, NoHeaders, <<>>),
    P(<<a, b>>, "round_robin", None, Canary("x-canary", "on", c), On, <<a>>)}

Tables == {None, a :> 2, c :> 1, b :> 3, a :> 5}

HeadersSent == {On, NoHeaders}

Selections ==
    {ToSelect(p, p.own) : p \in {q \in Clients : Usable(q, q.own)}} \cup
    {ToSelect(Merged(p, f), f.cands) :
        <<p, f>> \in {<<q, g>> \in {q \in Clients : q.own = <<>>} \X AllForms :
                          Usable(Merged(q, g), g.cands)}}

=============================================================================
