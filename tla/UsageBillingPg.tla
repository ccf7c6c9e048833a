--------------------------- MODULE UsageBillingPg ---------------------------
(***************************************************************************)
(* The billing service on Postgres (internal/billing/repository.go): the   *)
(* statements of concurrent READ COMMITTED transactions interleave.        *)
(*                                                                         *)
(* RecordUsageEvent inserts the event (waiting for another transaction     *)
(* that has inserted the same id), reads the project's usage, reads its    *)
(* alerts, updates them one by one in the order they came (each row stays  *)
(* locked until the end) and commits.  Any statement may fail, and so may  *)
(* the commit's answer.  A project may have several alerts, so two events  *)
(* of it can wait for each other; Postgres then ends one of them.          *)
(***************************************************************************)
EXTENDS BudgetAlerts, SequencesExt

CONSTANTS
    NoOne   \* holder of an unlocked row

ASSUME NoOneAssumption == NoOne \notin Clients
ASSUME AlertsAssumption == IsFiniteSet(Alerts)

VARIABLES
    rows,     \* usage_records, committed
    alerts,   \* budget_alerts, committed; status "none" before its plan
    plans,    \* billing_plans, committed: status
    holder,   \* the transaction that has updated an alert's row, if any
    tx,       \* each client's transaction and its local variables
    reply,    \* the answer a client has received
    audits,   \* history: "record usage event" audit rows per event id
    basis     \* history: what the last event that refreshed an alert had to
              \* count, its own row and those of the project it found booked

vars == <<rows, alerts, plans, holder, tx, reply, audits, basis>>

Ledger == INSTANCE UsageLedger WITH ledger <- rows

-----------------------------------------------------------------------------
NoTx == [pc |-> "none"]

\* The cost of a project over the rows S, and over all that are booked.
CostIn(u, S, p) == MapThenSumSet(LAMBDA e : u[e], {e \in S : EventProject[e] = p})
CostOf(u, p) == CostIn(u, Booked(u), p)

\* An event's row inserted and not yet committed: the unique index makes
\* others that insert the same id wait.
Inserting == {"inserted", "summed", "updating"}
Inserted(c, e) == tx[c].pc \in Inserting /\ tx[c].event = e

Init ==
    /\ rows = [e \in Events |-> NoRow]
    /\ alerts = [a \in Alerts |-> Beginning(a)]
    /\ plans = [a \in Alerts |-> "none"]
    /\ holder = [a \in Alerts |-> NoOne]
    /\ tx = [c \in Clients |-> NoTx]
    /\ reply = [c \in Clients |-> Ledger!NoReply]
    /\ audits = [e \in Events |-> 0]
    /\ basis = [a \in Alerts |-> {}]

\* A statement of client c's transaction that others do not see yet.
Statement(c, t) ==
    /\ tx' = [tx EXCEPT ![c] = t]
    /\ UNCHANGED <<rows, alerts, plans, holder, reply, audits, basis>>

-----------------------------------------------------------------------------
\* insert into usage_records ... on conflict (id) do nothing returning ...
Unclaimed_Ignored(e) == TRUE
Unclaimed(e) == \A d \in Clients : ~Inserted(d, e)

Insert(c, e, x) ==
    /\ tx[c] = NoTx /\ reply[c] = Ledger!NoReply
    /\ Unclaimed(e)
    /\ Statement(c, IF rows[e] = NoRow
                    THEN [pc |-> "inserted", event |-> e, cost |-> x,
                          found |-> {d \in Booked(rows) : EventProject[d] = EventProject[e]}]
                    ELSE [pc |-> "conflict", event |-> e])

\* No row came back: the existing one is read.
ReadExisting(c) ==
    /\ tx[c].pc = "conflict"
    /\ Statement(c, [pc |-> "existing", event |-> tx[c].event, cost |-> rows[tx[c].event]])

\* The usage a transaction sees: what is committed and its own insert.
Seen_Committed(c) == rows
Seen(c) == [rows EXCEPT ![tx[c].event] = tx[c].cost]

\* reconcileBudgetAlerts, its first query.
SumUsage(c) ==
    /\ tx[c].pc = "inserted"
    /\ LET t == tx[c]
       IN  Statement(c, [pc |-> "summed", event |-> t.event, cost |-> t.cost,
                         found |-> t.found,
                         total |-> CostOf(Seen(c), EventProject[t.event])])

\* Its second query, which asks for no order.
ReadAlerts(c) ==
    /\ tx[c].pc = "summed"
    /\ LET t == tx[c]
       IN  \E todo \in SetToSeqs({a \in Alerts : /\ alerts[a] # NoAlert
                                                 /\ AlertProject[a] = EventProject[t.event]}) :
               Statement(c, [pc |-> "updating", event |-> t.event, cost |-> t.cost,
                             found |-> t.found, total |-> t.total, todo |-> todo])

\* update budget_alerts ... where id: waits for the row.
UpdateAlert(c) ==
    /\ tx[c].pc = "updating" /\ tx[c].todo # <<>>
    /\ holder[Head(tx[c].todo)] = NoOne
    /\ holder' = [holder EXCEPT ![Head(tx[c].todo)] = c]
    /\ tx' = [tx EXCEPT ![c].todo = Tail(@)]
    /\ UNCHANGED <<rows, alerts, plans, reply, audits, basis>>

Release_Nothing(c) == holder
Release(c) == [a \in Alerts |-> IF holder[a] = c THEN NoOne ELSE holder[a]]

\* What a commit makes visible: the row, its audit event and the alerts.
Publish(c) ==
    LET t == tx[c]
    IN  /\ rows' = [rows EXCEPT ![t.event] = t.cost]
        /\ audits' = [audits EXCEPT ![t.event] = @ + 1]
        /\ alerts' = [a \in Alerts |-> IF holder[a] = c THEN Reconciled(a, t.total) ELSE alerts[a]]
        /\ basis' = [a \in Alerts |-> IF holder[a] = c THEN t.found \cup {t.event} ELSE basis[a]]
        /\ holder' = Release(c)
        /\ tx' = [tx EXCEPT ![c] = NoTx]
        /\ UNCHANGED plans

CommitNew(c) ==
    /\ tx[c].pc = "updating" /\ tx[c].todo = <<>>
    /\ Publish(c)
    /\ reply' = [reply EXCEPT ![c] = Ledger!Created(tx[c].event, tx[c].cost)]

\* The commit is done but its answer does not arrive.
CommitUnsure(c) ==
    /\ tx[c].pc = "updating" /\ tx[c].todo = <<>>
    /\ Publish(c)
    /\ reply' = [reply EXCEPT ![c] = Ledger!Error]

CommitExisting_Audits(c) ==
    /\ tx[c].pc = "existing"
    /\ tx' = [tx EXCEPT ![c] = NoTx]
    /\ reply' = [reply EXCEPT ![c] = Ledger!Existing(tx[c].event, tx[c].cost)]
    /\ audits' = [audits EXCEPT ![tx[c].event] = @ + 1]
    /\ UNCHANGED <<rows, alerts, plans, holder, basis>>
CommitExisting(c) ==
    /\ tx[c].pc = "existing"
    /\ tx' = [tx EXCEPT ![c] = NoTx]
    /\ reply' = [reply EXCEPT ![c] = Ledger!Existing(tx[c].event, tx[c].cost)]
    /\ UNCHANGED <<rows, alerts, plans, holder, audits, basis>>

\* A statement or the commit fails, the client goes away, Postgres breaks a
\* deadlock: the transaction is rolled back and the handler answers 500.
Abort(c) ==
    /\ tx[c] # NoTx
    /\ tx' = [tx EXCEPT ![c] = NoTx]
    /\ holder' = Release(c)
    /\ reply' = [reply EXCEPT ![c] = Ledger!Error]
    /\ UNCHANGED <<rows, alerts, plans, audits, basis>>

Read(c) ==
    /\ reply[c] # Ledger!NoReply
    /\ reply' = [reply EXCEPT ![c] = Ledger!NoReply]
    /\ UNCHANGED <<rows, alerts, plans, holder, tx, audits, basis>>

-----------------------------------------------------------------------------
\* ResolveBudgetAlert: one update, then its audit event, then the commit.
\* (Its answer is not followed.)
ResolveAlert(c, a) ==
    /\ tx[c] = NoTx /\ reply[c] = Ledger!NoReply
    /\ alerts[a] # NoAlert
    /\ holder[a] = NoOne
    /\ holder' = [holder EXCEPT ![a] = c]
    /\ tx' = [tx EXCEPT ![c] = [pc |-> "resolving", alert |-> a]]
    /\ UNCHANGED <<rows, alerts, plans, reply, audits, basis>>

CommitResolve(c) ==
    /\ tx[c].pc = "resolving"
    /\ alerts' = [alerts EXCEPT ![tx[c].alert].status = "Resolved"]
    /\ holder' = Release(c)
    /\ tx' = [tx EXCEPT ![c] = NoTx]
    /\ UNCHANGED <<rows, plans, reply, audits, basis>>

\* RecordLLMInvocation and RecordSkillInvocation: the commit of a transaction
\* that books an invocation under its alias or skill and reads nothing.
Charge(e, x) ==
    /\ rows[e] = NoRow
    /\ rows' = [rows EXCEPT ![e] = x]
    /\ UNCHANGED <<alerts, plans, holder, tx, reply, audits, basis>>

\* CreatePlan and ActivatePlan: one transaction each that no other one reads
\* half of.  A second plan of the same name is refused by the unique index; an
\* alert of the demo data may have that name already.
CreatePlan(a) ==
    /\ a \notin Seeded
    /\ \A b \in Alerts : AlertProject[b] = AlertProject[a] => plans[b] = "none"
    /\ plans' = [plans EXCEPT ![a] = "Draft"]
    /\ alerts' = [alerts EXCEPT ![a] = NewAlert]
    /\ UNCHANGED <<rows, holder, tx, reply, audits, basis>>

ActivatePlan(a) ==
    /\ plans[a] # "none"
    /\ plans' = [plans EXCEPT ![a] = "Active"]
    /\ UNCHANGED <<rows, alerts, holder, tx, reply, audits, basis>>

Next ==
    \/ \E c \in Clients, e \in Submitted, x \in Costs : Insert(c, e, x)
    \/ \E e \in Charged, x \in Costs : Charge(e, x)
    \/ \E c \in Clients, a \in Alerts : ResolveAlert(c, a)
    \/ \E c \in Clients :
           \/ ReadExisting(c) \/ SumUsage(c) \/ ReadAlerts(c) \/ UpdateAlert(c)
           \/ CommitNew(c) \/ CommitUnsure(c) \/ CommitExisting(c) \/ CommitResolve(c)
           \/ Abort(c) \/ Read(c)
    \/ \E a \in Alerts : CreatePlan(a) \/ ActivatePlan(a)

Spec == Init /\ [][Next]_vars

\* A transaction goes on to its end: Postgres answers a statement that waits
\* for no lock.  The wait for a row is fair, as Postgres queues the
\* transactions that want it.
Progress(c) ==
    \/ ReadExisting(c) \/ SumUsage(c) \/ ReadAlerts(c) \/ UpdateAlert(c)
    \/ CommitNew(c) \/ CommitExisting(c) \/ CommitResolve(c)

\* Transactions each of which waits for a row that another of them holds.
WaitsFor(c, d) ==
    /\ tx[c].pc = "updating" /\ tx[c].todo # <<>>
    /\ holder[Head(tx[c].todo)] = d

Deadlocked(c) ==
    \E S \in SUBSET Clients :
        /\ c \in S
        /\ \A d \in S : (\E b \in S : WaitsFor(d, b)) /\ (\E b \in S : WaitsFor(b, d))

\* Who has waited for deadlock_timeout looks for such a ring, and is aborted
\* when there is one.
BreakDeadlock(c) == Deadlocked(c) /\ Abort(c)

FairSpec ==
    /\ Spec
    /\ \A c \in Clients : SF_vars(Progress(c)) /\ WF_vars(BreakDeadlock(c))

-----------------------------------------------------------------------------
TypeOK ==
    /\ rows \in [Events -> Costs \cup {NoRow}]
    /\ plans \in [Alerts -> PlanStatuses]
    /\ alerts \in [Alerts -> Alert]
    /\ holder \in [Alerts -> Clients \cup {NoOne}]
    /\ audits \in [Events -> Nat]
    /\ basis \in [Alerts -> SUBSET Events]

\* Concurrent, failing and repeated submissions keep the promise of the
\* service: an event is booked once, with the payload of the submission that
\* was told 201, and nobody is told of a row that is not the committed one.
LedgerKept == Ledger!Spec

\* The audit trail has one "record usage event" per booked event, however
\* often it was submitted and its transactions failed, and none for the rows
\* of invocations.
AuditPerRow ==
    \A e \in Events :
        audits[e] = IF e \in Charged \/ rows[e] = NoRow THEN 0 ELSE 1

\* Why they hold: an uncommitted row is the only one of its id, its id is not
\* booked, a row that was found booked stays as it was found, and a client
\* with a transaction has no answer yet.
TxOK(c) ==
    /\ tx[c] # NoTx => reply[c] = Ledger!NoReply
    /\ tx[c].pc \in Inserting =>
          tx[c].event \in Submitted /\ tx[c].cost \in Costs /\ rows[tx[c].event] = NoRow
    /\ tx[c].pc \in {"conflict", "existing"} =>
          tx[c].event \in Submitted /\ rows[tx[c].event] # NoRow
    /\ tx[c].pc = "existing" => tx[c].cost = rows[tx[c].event]

OneInsert ==
    \A c, d \in Clients, e \in Events : Inserted(c, e) /\ Inserted(d, e) => c = d

IInv ==
    /\ rows \in [Events -> Costs \cup {NoRow}]
    /\ audits \in [Events -> Nat]
    /\ tx = [c \in Clients |-> tx[c]]
    /\ reply = [c \in Clients |-> reply[c]]
    /\ \A c \in Clients : TxOK(c)
    /\ OneInsert
    /\ AuditPerRow

\* An alert shows nothing but booked rows, each once: the cost of a set of
\* booked events of its project, among them the event that refreshed it last
\* and all that were booked when that one began.  What concurrent events add
\* may be missing, and what failed transactions tried to add is never in it.
\* Its status is that of the cost it shows until somebody resolves it: a stale
\* alert is stale as a whole.  An alert no event has refreshed is as it began.
AlertFromRows ==
    \A a \in Alerts :
        IF basis[a] # {}
        THEN \E S \in SUBSET Booked(rows) :
                 basis[a] \subseteq S /\ Shows(alerts[a], a, CostIn(rows, S, AlertProject[a]))
        ELSE \E first \in {Beginning(a), NewAlert} :
                 alerts[a] \in {first, [first EXCEPT !.status = "Resolved"]}

\* The documented effect of an event: the alert is refreshed to the
\* project's accumulated cost.  Two transactions that sum the usage before
\* either has committed each miss the other's row.
AlertsCurrent ==
    (\A c \in Clients : tx[c] = NoTx) =>
        \A a \in Alerts : basis[a] # {} => alerts[a].current = CostOf(rows, AlertProject[a])

\* A transaction that has begun ends, though it may wait for rows that others
\* hold, and two events of a project with several alerts may even wait for
\* each other's: each alert is free again in the end.
Settles == \A c \in Clients : (tx[c] # NoTx) ~> (tx[c] = NoTx)
=============================================================================
