---------------------------- MODULE BudgetAlerts ----------------------------
(***************************************************************************)
(* What the two stores of the billing service have in common: the usage    *)
(* rows, the alerts of plans, and how an alert follows from the cost of    *)
(* its project (ReconcileBudgetAlertFromUsage in                           *)
(* internal/platform/store/store.go, called by both).                      *)
(*                                                                         *)
(* A cost is any amount a caller writes, a credit as well as a charge,     *)
(* counted in the smallest unit that is displayed.  The demo data brings   *)
(* alerts that no plan has made; the usage rows it brings are among those  *)
(* that the service did not book.                                          *)
(***************************************************************************)
EXTENDS Integers, FiniteSetsExt

CONSTANTS
    Clients,       \* callers of the service
    Events,        \* ids of usage rows
    Charged,       \* those of them booked beside the service: by the gateway's
                   \* invocation recorder, or with the demo data
    Costs,         \* costs a row can carry, in some unit
    Projects,      \* project names, as spelled
    EventProject,  \* the project a row names
    Alerts,        \* ids of plans, and of the alert each one creates; and of
                   \* the alerts of the demo data
    AlertProject,  \* an alert's project, for that of a plan the plan's name
    DemoAlerts,    \* the alerts of the demo data, as they are shown at first
    WarnAt,        \* the budget share at which an alert warns (70% of $300)
    NoRow          \* an id that is not booked

ASSUME CostsAssumption == Costs \subseteq Int /\ NoRow \notin Costs
ASSUME ChargedAssumption == Charged \subseteq Events
ASSUME ProjectsAssumption ==
    /\ \A e \in Events : EventProject[e] \in Projects
    /\ \A a \in Alerts : AlertProject[a] \in Projects
ASSUME WarnAtAssumption == WarnAt \in [Alerts -> Nat \ {0}]

-----------------------------------------------------------------------------
\* The event ids clients submit; the recorder's ids are never among them.
Submitted == Events \ Charged

Booked(u) == {e \in Events : u[e] # NoRow}

\* The current cost and the status together.
AlertStatus(a, total) == IF total >= WarnAt[a] THEN "Warning" ELSE "Normal"
Reconciled(a, total) == [current |-> total, status |-> AlertStatus(a, total)]

NoAlert == [current |-> 0, status |-> "none"]
NewAlert_Blank == [current |-> 0, status |-> ""]
NewAlert == [current |-> 0, status |-> "Ready"]

PlanStatuses == {"none", "Draft", "Active"}
Alert == [current : Int, status : {"none", "Ready", "Normal", "Warning", "Resolved"}]

\* What an alert shows before any event: nothing while its plan is to come.
Seeded == DOMAIN DemoAlerts
Beginning(a) == IF a \in Seeded THEN DemoAlerts[a] ELSE NoAlert

ASSUME DemoAlertsAssumption ==
    /\ Seeded \subseteq Alerts
    /\ \A a \in Seeded : DemoAlerts[a] \in Alert /\ DemoAlerts[a].status # "none"

\* An alert shows a total: with the status that belongs to it, or resolved.
Shows(alert, a, total) ==
    /\ alert.current = total
    /\ alert.status \in {AlertStatus(a, total), "Resolved"}
=============================================================================
