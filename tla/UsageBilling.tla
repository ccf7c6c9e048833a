---------------------------- MODULE UsageBilling ----------------------------
(***************************************************************************)
(* The billing service on the memory store: plans, usage events and budget *)
(* alerts (internal/platform/store/store.go behind the Memory repositories *)
(* of internal/billing).  Every operation holds the store's mutex from     *)
(* beginning to end, so each is one step.                                  *)
(***************************************************************************)
EXTENDS BudgetAlerts

CONSTANTS
    Fold   \* a name without regard to case and blanks

VARIABLES
    usage,    \* usageRecords: the cost booked per event id
    plans,    \* status of each plan; "none" before it is created
    alerts,   \* budgetAlerts, [current, status]; status "none" before
    reply,    \* the answer a client has received
    audits,   \* history: "record usage event" audit rows per id
    counted,  \* history: alerts whose project had an event since creation
    unseen    \* history: rows of invocations since their project's last event

vars == <<usage, plans, alerts, reply, audits, counted, unseen>>

Ledger == INSTANCE UsageLedger WITH ledger <- usage

-----------------------------------------------------------------------------
\* parseCurrency and formatCurrency over the records of a set of events.
CostOf(u, S) == MapThenSumSet(LAMBDA e : u[e], S)

SameProject(p, q) == Fold[p] = Fold[q]

TotalFor(u, a) ==
    CostOf(u, {e \in Booked(u) : SameProject(EventProject[e], AlertProject[a])})

Init ==
    /\ usage = [e \in Events |-> NoRow]
    /\ plans = [a \in Alerts |-> "none"]
    /\ alerts = [a \in Alerts |-> Beginning(a)]
    /\ reply = [c \in Clients |-> Ledger!NoReply]
    /\ audits = [e \in Events |-> 0]
    /\ counted = {}
    /\ unseen = {}

\* The alerts of an event's project, once the event is booked.
Concerned(e) ==
    {a \in Alerts : /\ alerts[a] # NoAlert
                    /\ SameProject(EventProject[e], AlertProject[a])}

Refreshed(u, e) ==
    [a \in Alerts |-> IF a \in Concerned(e) THEN Reconciled(a, TotalFor(u, a)) ELSE alerts[a]]

RecordNew(c, e, x) ==
    /\ reply[c] = Ledger!NoReply
    /\ e \notin Booked(usage)
    /\ LET u == [usage EXCEPT ![e] = x]
       IN  usage' = u /\ alerts' = Refreshed(u, e)
    /\ counted' = counted \cup Concerned(e)
    /\ unseen' = {d \in unseen : ~SameProject(EventProject[d], EventProject[e])}
    /\ audits' = [audits EXCEPT ![e] = @ + 1]
    /\ reply' = [reply EXCEPT ![c] = Ledger!Created(e, x)]
    /\ UNCHANGED plans

\* A second submission of the same id is answered with the row as it is.
RecordAgain(c, e, x) ==
    /\ reply[c] = Ledger!NoReply
    /\ e \in Booked(usage)
    /\ reply' = [reply EXCEPT ![c] = Ledger!Existing(e, usage[e])]
    /\ UNCHANGED <<usage, plans, alerts, audits, counted, unseen>>

\* RecordLLMInvocation and RecordSkillInvocation: the row of an invocation is
\* booked under the name of its alias or skill; no alert is looked at.
Charge(e, x) ==
    /\ e \notin Booked(usage)
    /\ usage' = [usage EXCEPT ![e] = x]
    /\ unseen' = unseen \cup {e}
    /\ UNCHANGED <<plans, alerts, reply, audits, counted>>

\* A plan comes with an alert of its own; names need not differ.
CreatePlan(a) ==
    /\ a \notin Seeded /\ plans[a] = "none"
    /\ plans' = [plans EXCEPT ![a] = "Draft"]
    /\ alerts' = [alerts EXCEPT ![a] = NewAlert]
    /\ UNCHANGED <<usage, reply, audits, counted, unseen>>

ActivatePlan(a) ==
    /\ plans[a] # "none"
    /\ plans' = [plans EXCEPT ![a] = "Active"]
    /\ UNCHANGED <<usage, alerts, reply, audits, counted, unseen>>

ResolveBudgetAlert(a) ==
    /\ alerts[a] # NoAlert
    /\ alerts' = [alerts EXCEPT ![a].status = "Resolved"]
    /\ UNCHANGED <<usage, plans, reply, audits, counted, unseen>>

Read(c) ==
    /\ reply[c] # Ledger!NoReply
    /\ reply' = [reply EXCEPT ![c] = Ledger!NoReply]
    /\ UNCHANGED <<usage, plans, alerts, audits, counted, unseen>>

Next ==
    \/ \E c \in Clients, e \in Submitted, x \in Costs :
           RecordNew(c, e, x) \/ RecordAgain(c, e, x)
    \/ \E e \in Charged, x \in Costs : Charge(e, x)
    \/ \E a \in Alerts : CreatePlan(a) \/ ActivatePlan(a) \/ ResolveBudgetAlert(a)
    \/ \E c \in Clients : Read(c)

Spec == Init /\ [][Next]_vars

-----------------------------------------------------------------------------
\* The rows of an alert's project that its last event has reconciled.
Reconciles(a) ==
    CostOf(usage, {e \in Booked(usage) \ unseen :
                      SameProject(EventProject[e], AlertProject[a])})

\* An alert whose project had an event since shows the project's whole cost
\* up to the last one, earlier rows and those of invocations included, and
\* warns exactly when that has reached the budget share, unless somebody
\* resolved it since.  Invocations after the last event are not in it.
AlertsCurrent ==
    \A a \in counted : Shows(alerts[a], a, Reconciles(a))
=============================================================================
