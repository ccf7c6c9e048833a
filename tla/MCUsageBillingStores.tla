------------------------ MODULE MCUsageBillingStores ------------------------
(* A small instance of UsageBillingStores for TLC: two events of a project *)
(* whose name is spelled in two ways, and an invocation booked under it; a *)
(* demo alert of the project, and a plan of its name; a charge and a       *)
(* credit.                                                                 *)
EXTENDS UsageBillingStores, TLC

CONSTANTS p1, P1, e1, e2, e3, a1, a2, c1, c2

Folding == p1 :> p1 @@ P1 :> p1
Naming == e1 :> p1 @@ e2 :> p1 @@ e3 :> P1
Plans == a1 :> p1 @@ a2 :> p1
Demo == a1 :> [current |-> 3, status |-> "Warning"]
Shares == a1 :> 3 @@ a2 :> 1
Amounts == {-1, 2}
=============================================================================
