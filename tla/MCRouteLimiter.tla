--------------------------- MODULE MCRouteLimiter ---------------------------
(* Small instances of RouteLimiter for TLC.                                *)
EXTENDS RouteLimiter, TLC

CONSTANTS llm, skill, open, here, h1, h2, h3

\* llm: two calls per window of two ticks; skill: one per window of one tick;
\* open: "unlimited".
TwoRoutes == {llm, skill, open}
TwoRoutesLimit == llm :> 2 @@ skill :> 1 @@ open :> 0
TwoRoutesWindow == llm :> 2 @@ skill :> 1 @@ open :> 1

OneRoute == {llm}
OneRouteLimit == llm :> 2
OneRouteWindow == llm :> 1
OneRouteClock == llm :> here

Handlers == Permutations({h1, h2, h3})
=============================================================================
