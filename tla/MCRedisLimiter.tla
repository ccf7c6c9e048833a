--------------------------- MODULE MCRedisLimiter ---------------------------
(* A small instance of RedisLimiter for TLC: two replicas share the counter *)
(* of one governed route; the second also serves a route without a limit.  *)
(* Of the two handlers, one serves in the first replica, the other in      *)
(* either: both may be inside the first one's local limiter.  The second   *)
(* replica's clock may be a window ahead of Redis's and the first one's.   *)
EXTENDS RedisLimiter, TLC

CONSTANTS llm, llm_a, llm_b, open_b, h1, h2, near, far

ReplicaKeys == {llm_a, llm_b, open_b}
RouteLimit == llm_a :> 1 @@ llm_b :> 1 @@ open_b :> 0
RouteWindow == llm_a :> 1 @@ llm_b :> 1 @@ open_b :> 1
SharedCounter == llm_a :> llm @@ llm_b :> llm @@ open_b :> open_b
ReplicaClock == llm_a :> near @@ llm_b :> far @@ open_b :> far
OneWindow == llm :> 1 @@ open_b :> 1
HandlerKeys == [h \in Callers |-> IF h = h1 THEN {llm_a} ELSE ReplicaKeys]
CallsByBackend == "memory" :> 6 @@ "redis" :> 4
TimeByBackend == "memory" :> 2 @@ "redis" :> 1
=============================================================================
