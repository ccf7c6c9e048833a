-------------------------- MODULE MCUsageBillingPg --------------------------
(* Small instances of UsageBillingPg for TLC.                              *)
EXTENDS UsageBillingPg, TLC

CONSTANTS p1, p2, e1, e2, e3, a1, a2, c1, c2

Naming == e1 :> p1 @@ e2 :> p1 @@ e3 :> p2
Plans == a1 :> p1 @@ a2 :> p2
Shares == a1 :> 3
None == <<>>
=============================================================================
