------------------------- MODULE UsageBillingProofs -------------------------
(***************************************************************************)
(* Proofs about usage events, for any number of clients and events: on     *)
(* Postgres they are booked once, audited once, and implement UsageLedger; *)
(* and so they do whichever store the service is started on, the memory    *)
(* store's half joined with the results for Postgres.  Then the alerts and *)
(* the types of everything: what an alert shows is what its store could    *)
(* see of its project's cost.  That cost is a sum over a set, a fold of    *)
(* the library; the part on sums shows the facts about it that are needed. *)
(***************************************************************************)
EXTENDS UsageBillingStores, FiniteSetTheorems, WellFoundedInduction, TLAPS

-----------------------------------------------------------------------------
(* Postgres.                                                               *)

\* Transactions in any state of their insert are told apart by their pc.
LEMMA Phases ==
    ASSUME NEW c \in Clients
    PROVE  /\ tx[c] = NoTx => tx[c].pc \notin Inserting \cup {"conflict", "existing"}
           /\ tx[c].pc \in Inserting \cup {"conflict", "existing"} => tx[c] # NoTx
  BY DEF NoTx, Inserting

LEMMA InitIInv == Init => IInv
  <1> SUFFICES ASSUME Init PROVE IInv
    OBVIOUS
  <1>1. rows \in [Events -> Costs \cup {NoRow}] /\ audits \in [Events -> Nat]
    BY DEF Init
  <1>2. \A c \in Clients : TxOK(c)
    BY DEF Init, TxOK, NoTx, Inserting
  <1>3. OneInsert
    BY DEF Init, OneInsert, Inserted, NoTx, Inserting
  <1>4. AuditPerRow
    BY DEF Init, AuditPerRow
  <1>5. tx = [c \in Clients |-> tx[c]] /\ reply = [c \in Clients |-> reply[c]]
    BY DEF Init
  <1>6. QED
    BY <1>1, <1>2, <1>3, <1>4, <1>5 DEF IInv

-----------------------------------------------------------------------------
LEMMA SubmittedEvents == Submitted \subseteq Events /\ Submitted \cap Charged = {}
  BY DEF Submitted

\* A step of one transaction on its own locals: the committed tables, the
\* answers and the other transactions stay.  Such a step keeps the invariant
\* when the transaction itself is still in order and inserts nothing that
\* another one has.
LEMMA LocalStep ==
    ASSUME IInv, NEW c \in Clients, NEW t,
           tx' = [tx EXCEPT ![c] = t], UNCHANGED <<rows, reply, audits>>,
           TxOK(c)',
           \A e \in Events : t.pc \in Inserting /\ t.event = e =>
               Inserted(c, e) \/ Unclaimed(e)
    PROVE  IInv'
  <1> USE DEF IInv
  <1>1. tx'[c] = t /\ \A d \in Clients : d # c => tx'[d] = tx[d]
    OBVIOUS
  <1>2. \A d \in Clients : TxOK(d)'
    BY <1>1 DEF TxOK
  <1>3. \A e \in Events, d \in Clients : d # c => (Inserted(d, e)' <=> Inserted(d, e))
    BY <1>1 DEF Inserted
  <1>4. \A e \in Events : Inserted(c, e)' => Inserted(c, e) \/ Unclaimed(e)
    BY <1>1 DEF Inserted
  <1>5. OneInsert'
    BY <1>3, <1>4 DEF OneInsert, Unclaimed
  <1>6. AuditPerRow'
    BY DEF AuditPerRow
  <1>7. tx' = [d \in Clients |-> tx'[d]]
    OBVIOUS
  <1>8. QED
    BY <1>2, <1>5, <1>6, <1>7

\* A transaction that ends without booking anything.
LEMMA EndStep ==
    ASSUME IInv, NEW c \in Clients, NEW r,
           tx' = [tx EXCEPT ![c] = NoTx], UNCHANGED <<rows, audits>>,
           reply' = [reply EXCEPT ![c] = r]
    PROVE  IInv'
  <1> USE DEF IInv
  <1>1. /\ tx'[c] = NoTx /\ \A d \in Clients : d # c => tx'[d] = tx[d]
        /\ \A d \in Clients : d # c => reply'[d] = reply[d]
    OBVIOUS
  <1>2. \A d \in Clients : TxOK(d)'
    BY <1>1 DEF TxOK, NoTx, Inserting
  <1>3. \A e \in Events, d \in Clients : Inserted(d, e)' => Inserted(d, e)
    BY <1>1 DEF Inserted, NoTx, Inserting
  <1>4. OneInsert'
    BY <1>3 DEF OneInsert
  <1>5. AuditPerRow'
    BY DEF AuditPerRow
  <1>6. tx' = [d \in Clients |-> tx'[d]] /\ reply' = [d \in Clients |-> reply'[d]]
    OBVIOUS
  <1>7. QED
    BY <1>2, <1>4, <1>5, <1>6

\* A commit that books its event.
LEMMA PublishStep ==
    ASSUME IInv, NEW c \in Clients, NEW r,
           tx[c].pc = "updating", Publish(c), reply' = [reply EXCEPT ![c] = r]
    PROVE  /\ tx[c].event \in Submitted
           /\ tx[c].cost \in Costs
           /\ rows[tx[c].event] = NoRow
           /\ reply[c] = Ledger!NoReply
           /\ IInv'
  <1> USE DEF IInv
  <1> DEFINE e == tx[c].event
             x == tx[c].cost
  <1>1. /\ e \in Submitted /\ e \in Events /\ e \notin Charged
        /\ x \in Costs /\ rows[e] = NoRow /\ reply[c] = Ledger!NoReply
    BY SubmittedEvents DEF TxOK, Inserting, NoTx
  <1>2. x # NoRow
    BY <1>1, CostsAssumption
  <1>3. /\ rows' = [rows EXCEPT ![e] = x]
        /\ audits' = [audits EXCEPT ![e] = @ + 1]
        /\ tx' = [tx EXCEPT ![c] = NoTx]
    BY DEF Publish
  <1>4. /\ tx'[c] = NoTx /\ \A d \in Clients : d # c => tx'[d] = tx[d]
        /\ \A d \in Clients : d # c => reply'[d] = reply[d]
    BY <1>3
  <1>5. /\ rows' \in [Events -> Costs \cup {NoRow}]
        /\ audits' \in [Events -> Nat]
    BY <1>1, <1>3
  <1>6. Inserted(c, e)
    BY DEF Inserted, Inserting
  <1>7. ASSUME NEW d \in Clients PROVE TxOK(d)'
    <2>1. CASE d = c
      BY <1>4, <2>1 DEF TxOK, NoTx, Inserting
    <2>2. CASE d # c
      <3>1. tx'[d] = tx[d] /\ reply'[d] = reply[d] /\ TxOK(d)
        BY <1>4, <2>2
      <3>2. tx[d].pc \in Inserting => tx[d].event \in Submitted /\ tx[d].event # e
        BY <1>1, <1>6, <2>2, <3>1, SubmittedEvents DEF OneInsert, Inserted, TxOK
      <3>3. tx[d].pc \in {"conflict", "existing"} => tx[d].event \in Submitted /\ tx[d].event # e
        BY <1>1, <3>1 DEF TxOK
      <3>4. \A f \in Events : f # e => rows'[f] = rows[f]
        BY <1>3
      <3>5. QED
        BY <3>1, <3>2, <3>3, <3>4, SubmittedEvents DEF TxOK
    <2>3. QED
      BY <2>1, <2>2
  <1>8. OneInsert'
    <2>1. \A f \in Events, d \in Clients : Inserted(d, f)' => Inserted(d, f)
      BY <1>4 DEF Inserted, NoTx, Inserting
    <2>2. QED
      BY <2>1 DEF OneInsert
  <1>9. AuditPerRow'
    BY <1>1, <1>2, <1>3 DEF AuditPerRow
  <1>10. tx' = [d \in Clients |-> tx'[d]] /\ reply' = [d \in Clients |-> reply'[d]]
    BY <1>3
  <1>11. QED
    BY <1>1, <1>5, <1>7, <1>8, <1>9, <1>10

\* The insert, waiting for nobody and finding its id free or booked.
LEMMA InsertStep ==
    ASSUME IInv, NEW c \in Clients, NEW e \in Submitted, NEW x \in Costs, Insert(c, e, x)
    PROVE  IInv'
  <1> USE DEF IInv
  <1> DEFINE t == IF rows[e] = NoRow
                  THEN [pc |-> "inserted", event |-> e, cost |-> x,
                        found |-> {d \in Booked(rows) : EventProject[d] = EventProject[e]}]
                  ELSE [pc |-> "conflict", event |-> e]
  <1>1. /\ tx' = [tx EXCEPT ![c] = t] /\ UNCHANGED <<rows, reply, audits>>
        /\ reply[c] = Ledger!NoReply /\ Unclaimed(e)
    BY DEF Insert, Statement
  <1>2. tx'[c] = t
    BY <1>1
  <1>3. TxOK(c)'
    <2>1. CASE rows[e] = NoRow
      BY <1>1, <1>2, <2>1 DEF TxOK, Inserting
    <2>2. CASE rows[e] # NoRow
      BY <1>1, <1>2, <2>2 DEF TxOK, Inserting
    <2>3. QED
      BY <2>1, <2>2
  <1>4. t.event = e
    OBVIOUS
  <1> HIDE DEF t
  <1>5. QED
    BY <1>1, <1>3, <1>4, LocalStep

\* The statements after it.
LEMMA StatementStep ==
    ASSUME IInv, NEW c \in Clients,
           ReadExisting(c) \/ SumUsage(c) \/ ReadAlerts(c) \/ UpdateAlert(c)
    PROVE  IInv'
  <1> USE DEF IInv
  <1>1. CASE ReadExisting(c)
    <2> DEFINE t == [pc |-> "existing", event |-> tx[c].event, cost |-> rows[tx[c].event]]
    <2>1. tx' = [tx EXCEPT ![c] = t] /\ UNCHANGED <<rows, reply, audits>> /\ tx[c].pc = "conflict"
      BY <1>1 DEF ReadExisting, Statement
    <2>2. tx'[c] = t
      BY <2>1
    <2>3. TxOK(c)'
      BY <2>1, <2>2 DEF TxOK, Inserting, NoTx
    <2>4. t.pc \notin Inserting
      BY DEF Inserting
    <2> HIDE DEF t
    <2>5. QED
      BY <2>1, <2>3, <2>4, LocalStep
  <1>2. ASSUME NEW t, tx' = [tx EXCEPT ![c] = t], UNCHANGED <<rows, reply, audits>>,
               tx[c].pc \in Inserting, t.pc \in Inserting,
               t.event = tx[c].event, t.cost = tx[c].cost
        PROVE  IInv'
    <2>1. tx'[c] = t
      BY <1>2
    <2>2. TxOK(c)'
      BY <1>2, <2>1, Phases DEF TxOK, Inserting
    <2>3. \A e \in Events : t.event = e => Inserted(c, e)
      BY <1>2 DEF Inserted
    <2>4. QED
      BY <1>2, <2>2, <2>3, LocalStep
  <1>3. CASE SumUsage(c)
    <2> DEFINE t == [pc |-> "summed", event |-> tx[c].event, cost |-> tx[c].cost,
                     found |-> tx[c].found,
                     total |-> CostOf(Seen(c), EventProject[tx[c].event])]
    <2>1. tx' = [tx EXCEPT ![c] = t] /\ UNCHANGED <<rows, reply, audits>> /\ tx[c].pc = "inserted"
      BY <1>3 DEF SumUsage, Statement
    <2>2. t.pc \in Inserting /\ t.event = tx[c].event /\ t.cost = tx[c].cost
      BY DEF Inserting
    <2> HIDE DEF t
    <2>3. QED
      BY <1>2, <2>1, <2>2 DEF Inserting
  <1>4. CASE ReadAlerts(c)
    <2>0. PICK todo :
              Statement(c, [pc |-> "updating", event |-> tx[c].event, cost |-> tx[c].cost,
                            found |-> tx[c].found, total |-> tx[c].total, todo |-> todo])
      BY <1>4 DEF ReadAlerts
    <2> DEFINE t == [pc |-> "updating", event |-> tx[c].event, cost |-> tx[c].cost,
                     found |-> tx[c].found, total |-> tx[c].total, todo |-> todo]
    <2>1. tx' = [tx EXCEPT ![c] = t] /\ UNCHANGED <<rows, reply, audits>> /\ tx[c].pc = "summed"
      BY <1>4, <2>0 DEF ReadAlerts, Statement
    <2>2. t.pc \in Inserting /\ t.event = tx[c].event /\ t.cost = tx[c].cost
      BY DEF Inserting
    <2> HIDE DEF t
    <2>3. QED
      BY <1>2, <2>1, <2>2 DEF Inserting
  <1>5. CASE UpdateAlert(c)
    <2> DEFINE t == [tx[c] EXCEPT !.todo = Tail(@)]
    <2>1. tx' = [tx EXCEPT ![c] = t] /\ UNCHANGED <<rows, reply, audits>> /\ tx[c].pc = "updating"
      BY <1>5 DEF UpdateAlert
    <2>2. t.pc = tx[c].pc /\ t.event = tx[c].event /\ t.cost = tx[c].cost
      OBVIOUS
    <2> HIDE DEF t
    <2>3. QED
      BY <1>2, <2>1, <2>2 DEF Inserting
  <1>6. QED
    BY <1>1, <1>3, <1>4, <1>5

\* The row of an invocation: no transaction inserts that id.
LEMMA ChargeStep ==
    ASSUME IInv, NEW e \in Charged, NEW x \in Costs, Charge(e, x)
    PROVE  IInv'
  <1> USE DEF IInv
  <1>1. e \in Events
    BY ChargedAssumption
  <1>2. /\ rows' \in [Events -> Costs \cup {NoRow}]
        /\ \A f \in Submitted : f \in Events /\ rows'[f] = rows[f]
        /\ \A f \in Events \ Charged : rows'[f] = rows[f]
        /\ UNCHANGED <<tx, reply, audits>>
    BY <1>1, SubmittedEvents DEF Charge
  <1>3. \A d \in Clients : TxOK(d)'
    BY <1>2 DEF TxOK
  <1>4. OneInsert'
    BY <1>2 DEF OneInsert, Inserted
  <1>5. AuditPerRow'
    BY <1>2 DEF AuditPerRow
  <1>6. QED
    BY <1>2, <1>3, <1>4, <1>5

LEMMA NextIInv == IInv /\ [Next]_vars => IInv'
  <1> SUFFICES ASSUME IInv, [Next]_vars PROVE IInv'
    OBVIOUS
  <1>1. ASSUME NEW c \in Clients, NEW e \in Submitted, NEW x \in Costs, Insert(c, e, x)
        PROVE  IInv'
    BY <1>1, InsertStep
  <1>2. ASSUME NEW c \in Clients, UpdateAlert(c)
        PROVE  IInv'
    BY <1>2, StatementStep
  <1>3. ASSUME NEW c \in Clients, NEW a \in Alerts, ResolveAlert(c, a)
        PROVE  IInv'
    <2> DEFINE t == [pc |-> "resolving", alert |-> a]
    <2>1. /\ tx' = [tx EXCEPT ![c] = t] /\ UNCHANGED <<rows, reply, audits>>
          /\ reply[c] = Ledger!NoReply
      BY <1>3 DEF ResolveAlert
    <2>2. tx'[c] = t
      BY <2>1 DEF IInv
    <2>3. TxOK(c)' /\ t.pc \notin Inserting
      BY <2>1, <2>2 DEF TxOK, Inserting
    <2> HIDE DEF t
    <2>4. QED
      BY <2>1, <2>3, LocalStep
  <1>4. ASSUME NEW c \in Clients, ReadExisting(c) \/ SumUsage(c) \/ ReadAlerts(c)
        PROVE  IInv'
    BY <1>4, StatementStep
  <1>5. ASSUME NEW c \in Clients, CommitNew(c) \/ CommitUnsure(c)
        PROVE  IInv'
    BY <1>5, PublishStep DEF CommitNew, CommitUnsure
  <1>6. ASSUME NEW c \in Clients, CommitExisting(c) \/ Abort(c)
        PROVE  IInv'
    BY <1>6, EndStep DEF CommitExisting, Abort
  <1>7. ASSUME NEW c \in Clients, CommitResolve(c)
        PROVE  IInv'
    <2>1. reply' = [reply EXCEPT ![c] = reply[c]]
      BY <1>7 DEF CommitResolve, IInv
    <2>2. QED
      BY <1>7, <2>1, EndStep DEF CommitResolve
  <1>8. ASSUME NEW c \in Clients, Read(c)
        PROVE  IInv'
    <2>1. /\ reply'[c] = Ledger!NoReply
          /\ \A d \in Clients : d # c => reply'[d] = reply[d]
          /\ UNCHANGED <<rows, tx, audits>>
          /\ reply' = [d \in Clients |-> reply'[d]]
      BY <1>8 DEF Read, IInv
    <2>2. \A d \in Clients : TxOK(d)'
      BY <2>1 DEF TxOK, IInv
    <2>3. OneInsert' /\ AuditPerRow'
      BY <2>1 DEF OneInsert, Inserted, AuditPerRow, IInv
    <2>4. QED
      BY <2>1, <2>2, <2>3 DEF IInv
  <1>9. ASSUME UNCHANGED <<rows, tx, reply, audits>>
        PROVE  IInv'
    BY <1>9 DEF IInv, TxOK, OneInsert, Inserted, AuditPerRow
  <1>10. ASSUME NEW a \in Alerts, CreatePlan(a) \/ ActivatePlan(a)
         PROVE  IInv'
    BY <1>9, <1>10 DEF CreatePlan, ActivatePlan
  <1>11. CASE UNCHANGED vars
    BY <1>9, <1>11 DEF vars
  <1>12. ASSUME NEW e \in Charged, NEW x \in Costs, Charge(e, x)
         PROVE  IInv'
    BY <1>12, ChargeStep
  <1>13. QED
    BY <1>1, <1>2, <1>3, <1>4, <1>5, <1>6, <1>7, <1>8, <1>10, <1>11, <1>12 DEF Next

-----------------------------------------------------------------------------
\* Transactions insert an id one at a time, and only while it is not booked.
THEOREM Inductive == Spec => []IInv
  BY InitIInv, NextIInv, PTL DEF Spec

\* Every booked event has exactly one audit row, at all times.
THEOREM AuditedOnce == Spec => []AuditPerRow
  <1>1. IInv => AuditPerRow
    BY DEF IInv
  <1>2. QED
    BY <1>1, Inductive, PTL

\* Each step of the transactions is a step of the ledger or changes nothing
\* in it.
LEMMA LedgerStep == IInv /\ [Next]_vars => [Ledger!Next]_(Ledger!vars)
  <1> SUFFICES ASSUME IInv, [Next]_vars PROVE [Ledger!Next]_(Ledger!vars)
    OBVIOUS
  <1>1. ASSUME UNCHANGED <<rows, reply>>
        PROVE  [Ledger!Next]_(Ledger!vars)
    BY <1>1 DEF Ledger!vars
  <1>2. ASSUME NEW c \in Clients, CommitNew(c)
        PROVE  Ledger!Next
    <2>1. /\ tx[c].event \in Submitted /\ tx[c].cost \in Costs
          /\ rows[tx[c].event] = NoRow /\ reply[c] = Ledger!NoReply
      BY <1>2, PublishStep DEF CommitNew
    <2>2. Ledger!Book(c, tx[c].event, tx[c].cost)
      BY <1>2, <2>1 DEF CommitNew, Publish, Ledger!Book
    <2>3. QED
      BY <2>1, <2>2 DEF Ledger!Next, Submitted
  <1>3. ASSUME NEW c \in Clients, CommitUnsure(c)
        PROVE  Ledger!Next
    <2>1. /\ tx[c].event \in Submitted /\ tx[c].cost \in Costs
          /\ rows[tx[c].event] = NoRow /\ reply[c] = Ledger!NoReply
      BY <1>3, PublishStep DEF CommitUnsure
    <2>2. Ledger!Fail(c)
      BY <1>3, <2>1 DEF CommitUnsure, Publish, Ledger!Fail, Submitted
    <2>3. QED
      BY <2>2 DEF Ledger!Next
  <1>4. ASSUME NEW c \in Clients, CommitExisting(c)
        PROVE  Ledger!Next
    <2>1. /\ tx[c].event \in Submitted /\ tx[c].cost = rows[tx[c].event]
          /\ rows[tx[c].event] # NoRow /\ reply[c] = Ledger!NoReply
      BY <1>4 DEF CommitExisting, IInv, TxOK, NoTx
    <2>2. Ledger!Repeat(c, tx[c].event)
      BY <1>4, <2>1 DEF CommitExisting, Ledger!Repeat
    <2>3. QED
      BY <2>1, <2>2 DEF Ledger!Next, Submitted
  <1>5. ASSUME NEW c \in Clients, Abort(c)
        PROVE  Ledger!Next
    <2>1. reply[c] = Ledger!NoReply
      BY <1>5 DEF Abort, IInv, TxOK
    <2>2. Ledger!Fail(c)
      BY <1>5, <2>1 DEF Abort, Ledger!Fail
    <2>3. QED
      BY <2>2 DEF Ledger!Next
  <1>6. ASSUME NEW c \in Clients, Read(c)
        PROVE  Ledger!Next
    <2>1. Ledger!Read(c)
      BY <1>6 DEF Read, Ledger!Read
    <2>2. QED
      BY <2>1 DEF Ledger!Next
  <1>7. ASSUME NEW c \in Clients,
               \/ \E e \in Submitted, x \in Costs : Insert(c, e, x)
               \/ ReadExisting(c) \/ SumUsage(c) \/ ReadAlerts(c) \/ UpdateAlert(c)
               \/ CommitResolve(c)
        PROVE  UNCHANGED <<rows, reply>>
    BY <1>7 DEF Insert, ReadExisting, SumUsage, ReadAlerts, UpdateAlert, CommitResolve, Statement
  <1>8. ASSUME NEW a \in Alerts,
               \/ CreatePlan(a) \/ ActivatePlan(a)
               \/ \E c \in Clients : ResolveAlert(c, a)
        PROVE  UNCHANGED <<rows, reply>>
    BY <1>8 DEF CreatePlan, ActivatePlan, ResolveAlert
  <1>9. CASE UNCHANGED vars
    BY <1>1, <1>9 DEF vars
  <1>10. ASSUME NEW e \in Charged, NEW x \in Costs, Charge(e, x)
         PROVE  Ledger!Next
    <2>1. Ledger!Charge(e, x)
      BY <1>10 DEF Charge, Ledger!Charge
    <2>2. QED
      BY <2>1 DEF Ledger!Next
  <1>11. QED
    BY <1>1, <1>2, <1>3, <1>4, <1>5, <1>6, <1>7, <1>8, <1>9, <1>10 DEF Next

\* Usage events on Postgres implement the ledger: booked once, the first
\* payload stays, one 201, truthful 200s, and 500s that say nothing.
THEOREM Implements == Spec => LedgerKept
  <1>1. Init => Ledger!Init
    BY DEF Init, Ledger!Init
  <1>2. QED
    BY <1>1, LedgerStep, Inductive, PTL DEF Spec, LedgerKept, Ledger!Spec

-----------------------------------------------------------------------------
(* Either store.                                                           *)

\* What the mutex of the memory store keeps.
MemoryIInv ==
    /\ rows \in [Events -> Costs \cup {NoRow}]
    /\ audits \in [Events -> Nat]
    /\ reply = [c \in Clients |-> reply[c]]
    /\ AuditPerRow

StoresIInv ==
    /\ store \in {"memory", "postgres"}
    /\ store = "memory" => MemoryIInv
    /\ store = "postgres" => IInv

LEMMA MemoryStepEffect ==
    ASSUME MemoryIInv, MemoryStep
    PROVE  /\ MemoryIInv'
           /\ Ledger!Next \/ UNCHANGED <<rows, reply>>
  <1> USE DEF MemoryIInv
  <1>1. ASSUME NEW c \in Clients, NEW e \in Submitted, NEW x \in Costs,
               Memory!RecordNew(c, e, x)
        PROVE  MemoryIInv' /\ Ledger!Next
    <2>1. /\ e \in Events /\ e \notin Charged /\ x # NoRow
          /\ rows[e] = NoRow
      BY <1>1, SubmittedEvents, CostsAssumption DEF Memory!RecordNew, Memory!Booked
    <2>2. /\ rows' = [rows EXCEPT ![e] = x]
          /\ audits' = [audits EXCEPT ![e] = @ + 1]
          /\ reply[c] = Ledger!NoReply
          /\ reply' = [reply EXCEPT ![c] = Ledger!Created(e, x)]
      BY <1>1 DEF Memory!RecordNew, Memory!Ledger!NoReply, Memory!Ledger!Created,
                  Ledger!NoReply, Ledger!Created
    <2>3. MemoryIInv'
      BY <2>1, <2>2 DEF AuditPerRow
    <2>4. Ledger!Book(c, e, x)
      BY <2>1, <2>2 DEF Ledger!Book
    <2>5. QED
      BY <2>3, <2>4 DEF Ledger!Next, Submitted
  <1>2. ASSUME NEW c \in Clients, NEW e \in Submitted, NEW x \in Costs,
               Memory!RecordAgain(c, e, x)
        PROVE  MemoryIInv' /\ Ledger!Next
    <2>1. /\ rows[e] # NoRow /\ UNCHANGED <<rows, audits>>
          /\ reply[c] = Ledger!NoReply
          /\ reply' = [reply EXCEPT ![c] = Ledger!Existing(e, rows[e])]
      BY <1>2 DEF Memory!RecordAgain, Memory!Booked, Memory!Ledger!NoReply,
                  Memory!Ledger!Existing, Ledger!NoReply, Ledger!Existing
    <2>2. MemoryIInv'
      BY <2>1 DEF AuditPerRow
    <2>3. Ledger!Repeat(c, e)
      BY <2>1 DEF Ledger!Repeat
    <2>4. QED
      BY <2>2, <2>3 DEF Ledger!Next, Submitted
  <1>3. ASSUME NEW e \in Charged, NEW x \in Costs, Memory!Charge(e, x)
        PROVE  MemoryIInv' /\ Ledger!Next
    <2>1. e \in Events /\ rows[e] = NoRow
      BY <1>3, ChargedAssumption DEF Memory!Charge, Memory!Booked
    <2>2. rows' = [rows EXCEPT ![e] = x] /\ UNCHANGED <<reply, audits>>
      BY <1>3 DEF Memory!Charge
    <2>3. MemoryIInv'
      BY <2>1, <2>2 DEF AuditPerRow
    <2>4. Ledger!Charge(e, x)
      BY <2>1, <2>2 DEF Ledger!Charge
    <2>5. QED
      BY <2>3, <2>4 DEF Ledger!Next
  <1>4. ASSUME NEW c \in Clients, Memory!Read(c)
        PROVE  MemoryIInv' /\ Ledger!Next
    <2>1. /\ UNCHANGED <<rows, audits>> /\ reply[c] # Ledger!NoReply
          /\ reply' = [reply EXCEPT ![c] = Ledger!NoReply]
      BY <1>4 DEF Memory!Read, Memory!Ledger!NoReply, Ledger!NoReply
    <2>2. MemoryIInv'
      BY <2>1 DEF AuditPerRow
    <2>3. Ledger!Read(c)
      BY <2>1 DEF Ledger!Read
    <2>4. QED
      BY <2>2, <2>3 DEF Ledger!Next
  <1>5. ASSUME UNCHANGED <<rows, reply, audits>>
        PROVE  MemoryIInv'
    BY <1>5 DEF AuditPerRow
  <1>6. ASSUME NEW a \in Alerts,
               Memory!CreatePlan(a) \/ Memory!ActivatePlan(a) \/ Memory!ResolveBudgetAlert(a)
        PROVE  MemoryIInv' /\ UNCHANGED <<rows, reply>>
    BY <1>5, <1>6 DEF Memory!CreatePlan, Memory!ActivatePlan, Memory!ResolveBudgetAlert
  <1>7. Memory!Next
    BY DEF MemoryStep
  <1>8. QED
    BY <1>1, <1>2, <1>3, <1>4, <1>6, <1>7 DEF Memory!Next, Memory!Submitted, Submitted

LEMMA StoresStep ==
    StoresIInv /\ [StoresNext]_storeVars => StoresIInv' /\ [Ledger!Next]_(Ledger!vars)
  <1> SUFFICES ASSUME StoresIInv, [StoresNext]_storeVars
               PROVE  StoresIInv' /\ [Ledger!Next]_(Ledger!vars)
    OBVIOUS
  <1>1. CASE store = "memory" /\ MemoryStep /\ store' = store
    <2>1. MemoryIInv' /\ (Ledger!Next \/ UNCHANGED <<rows, reply>>)
      BY <1>1, MemoryStepEffect DEF StoresIInv
    <2>2. QED
      BY <1>1, <2>1 DEF StoresIInv, Ledger!vars
  <1>2. CASE store = "postgres" /\ PostgresStep /\ store' = store
    <2>1. IInv /\ Next
      BY <1>2 DEF StoresIInv, PostgresStep
    <2>2. IInv' /\ [Ledger!Next]_(Ledger!vars)
      BY <2>1, NextIInv, LedgerStep
    <2>3. QED
      BY <1>2, <2>2 DEF StoresIInv
  <1>3. CASE UNCHANGED storeVars
    <2>1. UNCHANGED vars /\ store' = store
      BY <1>3 DEF storeVars
    <2>2. IInv => IInv'
      BY <2>1, NextIInv
    <2>3. MemoryIInv => MemoryIInv'
      BY <2>1 DEF MemoryIInv, AuditPerRow, vars
    <2>4. UNCHANGED Ledger!vars
      BY <2>1 DEF Ledger!vars, vars
    <2>5. QED
      BY <2>1, <2>2, <2>3, <2>4 DEF StoresIInv
  <1>4. QED
    BY <1>1, <1>2, <1>3 DEF StoresNext

LEMMA StoresInitIInv == StoresInit => StoresIInv /\ Ledger!Init
  <1> SUFFICES ASSUME StoresInit PROVE StoresIInv /\ Ledger!Init
    OBVIOUS
  <1>1. Init /\ store \in {"memory", "postgres"}
    BY DEF StoresInit
  <1>2. IInv
    BY <1>1, InitIInv
  <1>3. MemoryIInv
    BY <1>2 DEF IInv, MemoryIInv
  <1>4. Ledger!Init
    BY <1>1 DEF Init, Ledger!Init
  <1>5. QED
    BY <1>1, <1>2, <1>3, <1>4 DEF StoresIInv

\* Whichever store the service runs on, every submitted event that is booked
\* has exactly one audit row.
THEOREM StoresAudited == StoresSpec => []AuditPerRow
  <1>1. StoresIInv => AuditPerRow
    BY DEF StoresIInv, MemoryIInv, IInv
  <1>2. QED
    BY <1>1, StoresInitIInv, StoresStep, PTL DEF StoresSpec

\* Whichever store the service runs on, it implements the ledger its callers
\* are promised.
THEOREM StoresImplement == StoresSpec => LedgerKept
  BY StoresInitIInv, StoresStep, PTL DEF StoresSpec, LedgerKept, Ledger!Spec

-----------------------------------------------------------------------------
(* Sums.                                                                   *)

\* The library folds over a set by a function on its subsets, which takes out
\* one element after another.
Pick(s) == CHOOSE x \in s : TRUE
IsSum(g, w, S) ==
    g = [s \in SUBSET S |-> IF s = {} THEN 0 ELSE w[Pick(s)] + g[s \ {Pick(s)}]]
Sum(w, S) == (CHOOSE g : IsSum(g, w, S))[S]

LEMMA FoldIsSum ==
    ASSUME NEW w, NEW S
    PROVE  MapThenSumSet(LAMBDA e : w[e], S) = Sum(w, S)
  BY DEF MapThenSumSet, MapThenFoldSet, Sum, IsSum, Pick

LEMMA Picked == \A s : s # {} => Pick(s) \in s
  BY DEF Pick

\* Induction over the subsets of a finite set: of those that are bad there is
\* a least one.
LEMMA LeastBad ==
    ASSUME NEW S, IsFiniteSet(S), NEW Bad, Bad \subseteq SUBSET S, Bad # {}
    PROVE  \E s \in Bad : \A r \in SUBSET s : r # s => r \notin Bad
  <1>1. IsWellFoundedOn(StrictSubsetOrdering(S), SUBSET S)
    BY FS_StrictSubsetOrderingWellFounded, FS_FiniteSubsetsOfFinite
  <1>2. PICK s \in Bad : \A r \in Bad : ~ (<<r, s>> \in StrictSubsetOrdering(S))
    BY <1>1, WFMin
  <1>3. ASSUME NEW r \in SUBSET s, r # s, r \in Bad PROVE FALSE
    BY <1>2, <1>3 DEF StrictSubsetOrdering
  <1>4. QED
    BY <1>3

LEMMA SumsAgree ==
    ASSUME NEW g, NEW h, NEW w, NEW S, NEW R, IsSum(g, w, S), IsSum(h, w, R),
           NEW s, s \subseteq S, s \subseteq R, IsFiniteSet(s)
    PROVE  g[s] = h[s]
  <1> DEFINE Bad == {r \in SUBSET s : g[r] # h[r]}
  <1> SUFFICES ASSUME Bad # {} PROVE FALSE
    OBVIOUS
  <1>0. Bad \subseteq SUBSET s
    OBVIOUS
  <1> HIDE DEF Bad
  <1>1. PICK r \in Bad : \A q \in SUBSET r : q # r => q \notin Bad
    BY <1>0, LeastBad
  <1> USE DEF Bad
  <1>2. r \in SUBSET S /\ r \in SUBSET R
    OBVIOUS
  <1>3. g[r] = IF r = {} THEN 0 ELSE w[Pick(r)] + g[r \ {Pick(r)}]
    BY <1>2 DEF IsSum
  <1>4. h[r] = IF r = {} THEN 0 ELSE w[Pick(r)] + h[r \ {Pick(r)}]
    BY <1>2 DEF IsSum
  <1>5. r # {} => g[r \ {Pick(r)}] = h[r \ {Pick(r)}]
    BY <1>1, Picked
  <1>6. g[r] = h[r]
    BY <1>3, <1>4, <1>5
  <1>7. QED
    BY <1>6

LEMMA SumsAt ==
    ASSUME NEW g, NEW w, NEW S, IsSum(g, w, S), NEW s \in SUBSET S
    PROVE  g[s] = IF s = {} THEN 0 ELSE w[Pick(s)] + g[s \ {Pick(s)}]
  BY DEF IsSum

LEMMA SumsAreIt ==
    ASSUME NEW g, NEW w, NEW S, IsSum(g, w, S), NEW s \in SUBSET S, IsFiniteSet(s)
    PROVE  g[s] = Sum(w, s)
  <1> DEFINE h == [r \in SUBSET s |-> g[r]]
  <1>1. ASSUME NEW r \in SUBSET s
        PROVE  h[r] = IF r = {} THEN 0 ELSE w[Pick(r)] + h[r \ {Pick(r)}]
    <2>1. g[r] = IF r = {} THEN 0 ELSE w[Pick(r)] + g[r \ {Pick(r)}]
      BY SumsAt
    <2>2. h[r] = g[r] /\ h[r \ {Pick(r)}] = g[r \ {Pick(r)}]
      OBVIOUS
    <2>3. QED
      BY <2>1, <2>2
  <1>2. h = [r \in SUBSET s |-> h[r]]
    OBVIOUS
  <1> HIDE DEF h
  <1>3. IsSum(h, w, s)
    BY <1>1, <1>2 DEF IsSum
  <1>4. IsSum(CHOOSE f : IsSum(f, w, s), w, s)
    BY <1>3
  <1>5. QED
    BY <1>4, SumsAgree DEF Sum

LEMMA SumsExist ==
    ASSUME NEW w, NEW S, IsFiniteSet(S)
    PROVE  \E g : IsSum(g, w, S)
  <1> DEFINE Bad == {r \in SUBSET S : ~ \E g : IsSum(g, w, r)}
  <1> SUFFICES ASSUME Bad # {} PROVE FALSE
    OBVIOUS
  <1>0. Bad \subseteq SUBSET S
    OBVIOUS
  <1> HIDE DEF Bad
  <1>1. PICK r \in Bad : \A q \in SUBSET r : q # r => q \notin Bad
    BY <1>0, LeastBad
  <1> USE DEF Bad
  <1>2. \A q \in SUBSET r : q # r => \E g : IsSum(g, w, q)
    BY <1>1
  <1>3. ASSUME NEW q \in SUBSET r, q # r
        PROVE  Sum(w, q) = IF q = {} THEN 0 ELSE w[Pick(q)] + Sum(w, q \ {Pick(q)})
    <2>1. PICK g : IsSum(g, w, q)
      BY <1>2, <1>3
    <2>2. IsFiniteSet(q) /\ IsFiniteSet(q \ {Pick(q)})
      BY FS_Subset
    <2>3. g[q] = Sum(w, q) /\ g[q \ {Pick(q)}] = Sum(w, q \ {Pick(q)})
      BY <2>1, <2>2, SumsAreIt
    <2>4. g[q] = IF q = {} THEN 0 ELSE w[Pick(q)] + g[q \ {Pick(q)}]
      BY <2>1, SumsAt
    <2>5. QED
      BY <2>3, <2>4
  <1> DEFINE g == [q \in SUBSET r |-> IF q = {} THEN 0 ELSE w[Pick(q)] + Sum(w, q \ {Pick(q)})]
  <1>4. ASSUME NEW q \in SUBSET r
        PROVE  g[q] = IF q = {} THEN 0 ELSE w[Pick(q)] + g[q \ {Pick(q)}]
    <2>1. CASE q = {}
      BY <2>1
    <2>2. CASE q # {}
      <3> DEFINE p == q \ {Pick(q)}
      <3>1. p \in SUBSET r /\ p # r
        BY <2>2, Picked
      <3>2. g[p] = IF p = {} THEN 0 ELSE w[Pick(p)] + Sum(w, p \ {Pick(p)})
        BY <3>1
      <3>3. g[p] = Sum(w, p)
        BY <1>3, <3>1, <3>2
      <3>4. g[q] = w[Pick(q)] + Sum(w, p)
        BY <2>2
      <3>5. QED
        BY <2>2, <3>3, <3>4
    <2>3. QED
      BY <2>1, <2>2
  <1>5. g = [q \in SUBSET r |-> g[q]]
    OBVIOUS
  <1> HIDE DEF g
  <1>6. IsSum(g, w, r)
    BY <1>4, <1>5 DEF IsSum
  <1>7. QED
    BY <1>6

LEMMA SumStep ==
    ASSUME NEW w, NEW S, IsFiniteSet(S)
    PROVE  Sum(w, S) = IF S = {} THEN 0 ELSE w[Pick(S)] + Sum(w, S \ {Pick(S)})
  <1>1. PICK g : IsSum(g, w, S)
    BY SumsExist
  <1>2. IsFiniteSet(S \ {Pick(S)})
    BY FS_Subset
  <1>3. g[S] = Sum(w, S) /\ g[S \ {Pick(S)}] = Sum(w, S \ {Pick(S)})
    BY <1>1, <1>2, SumsAreIt
  <1>4. g[S] = IF S = {} THEN 0 ELSE w[Pick(S)] + g[S \ {Pick(S)}]
    BY <1>1, SumsAt
  <1>5. QED
    BY <1>3, <1>4

LEMMA SumInt ==
    ASSUME NEW w, NEW S, IsFiniteSet(S), \A x \in S : w[x] \in Int
    PROVE  Sum(w, S) \in Int
  <1> DEFINE Bad == {r \in SUBSET S : Sum(w, r) \notin Int}
  <1> SUFFICES ASSUME Bad # {} PROVE FALSE
    OBVIOUS
  <1>0. Bad \subseteq SUBSET S
    OBVIOUS
  <1> HIDE DEF Bad
  <1>1. PICK r \in Bad : \A q \in SUBSET r : q # r => q \notin Bad
    BY <1>0, LeastBad
  <1> USE DEF Bad
  <1>2. IsFiniteSet(r)
    BY FS_Subset
  <1>3. Sum(w, r) = IF r = {} THEN 0 ELSE w[Pick(r)] + Sum(w, r \ {Pick(r)})
    BY <1>2, SumStep
  <1>4. r # {} => w[Pick(r)] \in Int /\ Sum(w, r \ {Pick(r)}) \in Int
    BY <1>1, Picked
  <1>5. QED
    BY <1>3, <1>4

LEMMA SumSame ==
    ASSUME NEW w, NEW v, NEW S, IsFiniteSet(S), \A x \in S : w[x] = v[x]
    PROVE  Sum(w, S) = Sum(v, S)
  <1> DEFINE Bad == {r \in SUBSET S : Sum(w, r) # Sum(v, r)}
  <1> SUFFICES ASSUME Bad # {} PROVE FALSE
    OBVIOUS
  <1>0. Bad \subseteq SUBSET S
    OBVIOUS
  <1> HIDE DEF Bad
  <1>1. PICK r \in Bad : \A q \in SUBSET r : q # r => q \notin Bad
    BY <1>0, LeastBad
  <1> USE DEF Bad
  <1>2. IsFiniteSet(r)
    BY FS_Subset
  <1>3. Sum(w, r) = IF r = {} THEN 0 ELSE w[Pick(r)] + Sum(w, r \ {Pick(r)})
    BY <1>2, SumStep
  <1>4. Sum(v, r) = IF r = {} THEN 0 ELSE v[Pick(r)] + Sum(v, r \ {Pick(r)})
    BY <1>2, SumStep
  <1>5. r # {} => w[Pick(r)] = v[Pick(r)] /\ Sum(w, r \ {Pick(r)}) = Sum(v, r \ {Pick(r)})
    BY <1>1, Picked
  <1>6. QED
    BY <1>3, <1>4, <1>5

-----------------------------------------------------------------------------
(* The alerts on Postgres.                                                 *)

\* The events of a project, and the usage rows a state can hold.
Of(S, p) == {e \in S : EventProject[e] = p}
IsUsage(u) == u \in [Events -> Costs \cup {NoRow}] /\ IsFiniteSet(Booked(u))

\* A total that counts booked rows of a project, and all that it must.
Counts(u, total, least, p) ==
    \E S \in SUBSET Booked(u) : least \subseteq S /\ total = CostIn(u, S, p)

\* An alert of the demo data, or one whose plan has been made.
Present(a) == a \in Seeded \/ plans[a] # "none"
PresentOf(a, p) == a \in Alerts /\ AlertProject[a] = p /\ Present(a)

\* What a transaction has summed counts its row and what it found booked, and
\* it updates the alerts of its project or the one it resolves.
TotalsSeen(c) ==
    LET t == tx[c]
        p == EventProject[t.event]
    IN  /\ t.pc \in Inserting => t.found \subseteq Booked(rows)
        /\ t.pc \in {"summed", "updating"} =>
              Counts(Seen(c), t.total, t.found \cup {t.event}, p)
        /\ t.pc = "updating" =>
              /\ "todo" \in DOMAIN t /\ t.todo \in Seq(Alerts)
              /\ \A i \in 1..Len(t.todo) : PresentOf(t.todo[i], p)
        /\ t.pc = "resolving" => t.alert \in Alerts /\ Present(t.alert)

\* A locked row is held by such a transaction.
HeldByOwner(a) ==
    holder[a] # NoOne =>
        LET t == tx[holder[a]]
        IN  /\ Present(a)
            /\ \/ t.pc = "updating" /\ AlertProject[a] = EventProject[t.event]
               \/ t.pc = "resolving"

\* What an alert shows, see AlertFromRows.
FromRows(a) ==
    IF basis[a] # {}
    THEN \E S \in SUBSET Booked(rows) :
             basis[a] \subseteq S /\ Shows(alerts[a], a, CostIn(rows, S, AlertProject[a]))
    ELSE \E first \in {Beginning(a), NewAlert} :
             alerts[a] \in {first, [first EXCEPT !.status = "Resolved"]}

PgAlerts ==
    /\ TypeOK
    /\ IsFiniteSet(Booked(rows))
    /\ \A c \in Clients : TotalsSeen(c)
    /\ \A a \in Alerts : HeldByOwner(a)
    /\ \A a \in Alerts : ~Present(a) => alerts[a] = NoAlert /\ basis[a] = {}
    /\ \A a \in Alerts : FromRows(a)

LEMMA PgAlertsFromRows == PgAlerts => AlertFromRows
  BY DEF PgAlerts, AlertFromRows, FromRows

\* The cost of a project is a sum.
LEMMA CostIsSum ==
    ASSUME NEW u, NEW S, NEW p
    PROVE  CostIn(u, S, p) = Sum(u, Of(S, p))
  BY DEF CostIn, Of, MapThenSumSet, MapThenFoldSet, Sum, IsSum, Pick

LEMMA BookedCosts ==
    ASSUME NEW u, IsUsage(u)
    PROVE  \A e \in Booked(u) : e \in Events /\ u[e] \in Costs /\ u[e] \in Int
  BY CostsAssumption DEF IsUsage, Booked

LEMMA CostInt ==
    ASSUME NEW u, IsUsage(u), NEW S \in SUBSET Booked(u), NEW p
    PROVE  CostIn(u, S, p) \in Int
  <1>1. IsFiniteSet(Of(S, p))
    BY FS_Subset DEF IsUsage, Of
  <1>2. \A e \in Of(S, p) : u[e] \in Int
    BY BookedCosts DEF Of
  <1>3. QED
    BY <1>1, <1>2, SumInt, CostIsSum

\* Rows that stay cost what they did.
LEMMA CostStays ==
    ASSUME NEW u, NEW v, IsUsage(u), \A e \in Booked(u) : v[e] = u[e],
           NEW S \in SUBSET Booked(u), NEW p
    PROVE  S \subseteq Booked(v) /\ CostIn(v, S, p) = CostIn(u, S, p)
  <1>1. S \subseteq Booked(v)
    BY DEF Booked
  <1>2. IsFiniteSet(Of(S, p)) /\ \A e \in Of(S, p) : v[e] = u[e]
    BY FS_Subset DEF IsUsage, Of
  <1>3. Sum(v, Of(S, p)) = Sum(u, Of(S, p))
    BY <1>2, SumSame
  <1>4. QED
    BY <1>1, <1>3, CostIsSum

LEMMA CountsStays ==
    ASSUME NEW u, NEW v, IsUsage(u), \A e \in Booked(u) : v[e] = u[e],
           NEW total, NEW least, NEW p, Counts(u, total, least, p)
    PROVE  Counts(v, total, least, p)
  <1>1. PICK S \in SUBSET Booked(u) : least \subseteq S /\ total = CostIn(u, S, p)
    BY DEF Counts
  <1>2. S \subseteq Booked(v) /\ CostIn(v, S, p) = CostIn(u, S, p)
    BY CostStays
  <1>3. QED
    BY <1>1, <1>2 DEF Counts

\* A row more.
LEMMA BookOne ==
    ASSUME NEW u, IsUsage(u), NEW e \in Events, NEW x \in Costs
    PROVE  IsUsage([u EXCEPT ![e] = x])
  <1>1. IsFiniteSet(Booked(u) \cup {e})
    BY FS_AddElement DEF IsUsage
  <1>2. Booked([u EXCEPT ![e] = x]) \subseteq Booked(u) \cup {e}
    BY DEF IsUsage, Booked
  <1>3. QED
    BY <1>1, <1>2, FS_Subset DEF IsUsage

\* What a transaction that inserts sees.
LEMMA SeenRows ==
    ASSUME IInv, IsUsage(rows), NEW c \in Clients, tx[c].pc \in Inserting
    PROVE  /\ tx[c].event \in Events /\ tx[c].cost \in Costs
           /\ IsUsage(Seen(c))
           /\ Booked(Seen(c)) = Booked(rows) \cup {tx[c].event}
  <1>1. /\ tx[c].event \in Events /\ tx[c].cost \in Costs /\ tx[c].cost # NoRow
    BY SubmittedEvents, CostsAssumption DEF IInv, TxOK
  <1>2. IsUsage(Seen(c))
    BY <1>1, BookOne DEF Seen
  <1>3. Booked(Seen(c)) = Booked(rows) \cup {tx[c].event}
    BY <1>1 DEF Seen, Booked, IsUsage
  <1>4. QED
    BY <1>1, <1>2, <1>3

\* The transactions of the others when the committed rows and the plans grow.
LEMMA OthersSee ==
    ASSUME IInv, IsUsage(rows), IsUsage(rows'),
           \A e \in Booked(rows) : rows'[e] = rows[e],
           \A a \in Alerts : Present(a) => Present(a)',
           NEW c \in Clients, tx'[c] = tx[c], TotalsSeen(c)
    PROVE  TotalsSeen(c)'
  <1> DEFINE t == tx[c]
             p == EventProject[t.event]
             least == t.found \cup {t.event}
  <1>1. t' = t /\ p' = p /\ least' = least
    OBVIOUS
  <1>2. ASSUME t.pc \in {"summed", "updating"}
        PROVE  Counts(Seen(c), t.total, least, p)'
    <2>1. IsUsage(Seen(c)) /\ t.event \in Events
      BY <1>2, SeenRows DEF Inserting
    <2>2. Counts(Seen(c), t.total, least, p)
      BY <1>2 DEF TotalsSeen
    <2>3. \A e \in Booked(Seen(c)) : (Seen(c)')[e] = Seen(c)[e]
      <3>1. t.pc \in Inserting
        BY <1>2 DEF Inserting
      <3>2. Booked(Seen(c)) = Booked(rows) \cup {t.event}
        BY <3>1, SeenRows
      <3>3. Seen(c) = [rows EXCEPT ![t.event] = t.cost] /\ Seen(c)' = [rows' EXCEPT ![t.event] = t.cost]
        BY DEF Seen
      <3> SUFFICES ASSUME NEW e \in Booked(Seen(c)) PROVE (Seen(c)')[e] = Seen(c)[e]
        OBVIOUS
      <3>4. CASE e \in Booked(rows)
        <4>1. rows'[e] = rows[e] /\ e \in DOMAIN rows /\ rows[e] # NoRow
          BY <3>4 DEF Booked, IsUsage
        <4>2. e \in DOMAIN rows'
          BY <4>1 DEF IsUsage
        <4>3. QED
          BY <3>3, <4>1, <4>2
      <3>5. CASE e = t.event
        BY <2>1, <3>3, <3>5 DEF IsUsage
      <3>6. QED
        BY <3>2, <3>4, <3>5
    <2> HIDE DEF p, least
    <2>4. Counts(Seen(c)', t.total, least, p)
      BY <2>1, <2>2, <2>3, CountsStays
    <2>5. QED
      BY <1>1, <2>4
  <1>3. t.pc \in Inserting => t.found \subseteq Booked(rows)'
    BY DEF TotalsSeen, Booked
  <1>4. t.pc = "updating" =>
            /\ "todo" \in DOMAIN t /\ t.todo \in Seq(Alerts)
            /\ \A i \in 1..Len(t.todo) : PresentOf(t.todo[i], p)'
    BY DEF TotalsSeen, PresentOf
  <1>5. t.pc = "resolving" => t.alert \in Alerts /\ Present(t.alert)'
    BY DEF TotalsSeen
  <1>6. QED
    BY <1>2, <1>3, <1>4, <1>5 DEF TotalsSeen

PgInv == IInv /\ PgAlerts

\* A step that commits nothing: a transaction goes on with what it holds, and
\* the others keep what they hold.
LEMMA LocalAlerts ==
    ASSUME PgInv, NEW c \in Clients,
           \A d \in Clients : d # c => tx'[d] = tx[d],
           UNCHANGED <<rows, alerts, plans, audits, basis>>,
           holder' \in [Alerts -> Clients \cup {NoOne}],
           \A a \in Alerts : holder'[a] \notin {c, NoOne} => holder'[a] = holder[a],
           \A a \in Alerts : holder'[a] = c => HeldByOwner(a)',
           TotalsSeen(c)'
    PROVE  PgAlerts'
  <1> USE DEF PgInv, PgAlerts
  <1>1. IsUsage(rows) /\ IsUsage(rows')
    BY DEF IInv, IsUsage
  <1>2. ASSUME NEW d \in Clients PROVE TotalsSeen(d)'
    <2>1. CASE d = c
      BY <2>1
    <2>2. CASE d # c
      <3>1. tx'[d] = tx[d] /\ TotalsSeen(d) /\ IInv /\ \A e \in Booked(rows) : rows'[e] = rows[e]
        BY <2>2
      <3>2. \A a \in Alerts : Present(a) => Present(a)'
        BY DEF Present
      <3>3. QED
        BY <1>1, <3>1, <3>2, OthersSee
    <2>3. QED
      BY <2>1, <2>2
  <1>3. ASSUME NEW a \in Alerts PROVE HeldByOwner(a)'
    <2>1. CASE holder'[a] \in {c, NoOne}
      BY <2>1 DEF HeldByOwner
    <2>2. CASE holder'[a] \notin {c, NoOne}
      <3>1. holder'[a] = holder[a] /\ holder[a] \in Clients /\ tx'[holder[a]] = tx[holder[a]]
        BY <2>2
      <3>2. QED
        BY <3>1 DEF HeldByOwner, Present
    <2>3. QED
      BY <2>1, <2>2
  <1>4. TypeOK'
    BY DEF TypeOK
  <1>5. \A a \in Alerts : FromRows(a)'
    BY DEF FromRows, Booked
  <1>6. IsFiniteSet(Booked(rows))'
    BY DEF Booked
  <1>7. (\A a \in Alerts : ~Present(a) => alerts[a] = NoAlert /\ basis[a] = {})'
    BY DEF Present
  <1>8. QED
    BY <1>2, <1>3, <1>4, <1>5, <1>6, <1>7

\* Who is not updating or resolving holds no row.
LEMMA HoldsNone ==
    ASSUME PgAlerts, NEW c \in Clients, tx[c].pc \notin {"updating", "resolving"}
    PROVE  \A a \in Alerts : holder[a] # c
  BY NoOneAssumption DEF PgAlerts, HeldByOwner

\* A statement before the first update.
LEMMA QueryAlerts ==
    ASSUME PgInv, NEW c \in Clients, NEW t, tx' = [tx EXCEPT ![c] = t],
           UNCHANGED <<rows, alerts, plans, holder, audits, basis>>,
           tx[c].pc \notin {"updating", "resolving"},
           TotalsSeen(c)'
    PROVE  PgAlerts'
  <1>1. /\ \A d \in Clients : d # c => tx'[d] = tx[d]
        /\ holder' = holder /\ holder \in [Alerts -> Clients \cup {NoOne}]
    BY DEF PgInv, IInv, PgAlerts, TypeOK
  <1>2. \A a \in Alerts : holder[a] # c
    BY HoldsNone DEF PgInv
  <1>3. QED
    BY <1>1, <1>2, LocalAlerts

\* A transaction that ends in vain lets go of its rows.
LEMMA EndAlerts ==
    ASSUME PgInv, NEW c \in Clients, tx' = [tx EXCEPT ![c] = NoTx],
           UNCHANGED <<rows, alerts, plans, audits, basis>>,
           holder' = Release(c) \/ (tx[c].pc = "existing" /\ holder' = holder)
    PROVE  PgAlerts'
  <1>1. /\ tx'[c] = NoTx
        /\ \A d \in Clients : d # c => tx'[d] = tx[d]
        /\ holder \in [Alerts -> Clients \cup {NoOne}]
    BY DEF PgInv, IInv, PgAlerts, TypeOK
  <1>2. TotalsSeen(c)'
    BY <1>1 DEF TotalsSeen, NoTx, Inserting
  <1>3. /\ holder' \in [Alerts -> Clients \cup {NoOne}]
        /\ \A a \in Alerts : holder'[a] # c /\ holder'[a] \in {holder[a], NoOne}
    <2>1. CASE holder' = Release(c)
      BY <1>1, <2>1, NoOneAssumption DEF Release
    <2>2. CASE tx[c].pc = "existing" /\ holder' = holder
      BY <1>1, <2>2, HoldsNone DEF PgInv
    <2>3. QED
      BY <2>1, <2>2
  <1>4. QED
    BY <1>1, <1>2, <1>3, LocalAlerts

\* A transaction that goes on with the total and the rows it has.
LEMMA GoesOn ==
    ASSUME PgInv, NEW c \in Clients, UNCHANGED <<rows, plans>>,
           tx[c].pc \in {"summed", "updating"}, tx'[c].pc = "updating",
           tx'[c].event = tx[c].event, tx'[c].cost = tx[c].cost,
           tx'[c].found = tx[c].found, tx'[c].total = tx[c].total,
           "todo" \in DOMAIN tx'[c], tx'[c].todo \in Seq(Alerts),
           \A i \in 1..Len(tx'[c].todo) : PresentOf(tx'[c].todo[i], EventProject[tx[c].event])
    PROVE  TotalsSeen(c)'
  <1> DEFINE t == tx[c]
             p == EventProject[t.event]
             least == t.found \cup {t.event}
  <1>1. t.found \subseteq Booked(rows) /\ Counts(Seen(c), t.total, least, p)
    BY DEF PgInv, PgAlerts, TotalsSeen, Inserting
  <1>2. Seen(c)' = Seen(c)
    BY DEF Seen
  <1>3. Counts(Seen(c), tx[c].total, tx[c].found \cup {tx[c].event}, EventProject[tx[c].event])'
    BY <1>1, <1>2, Zenon
  <1>4. (\A i \in 1..Len(tx[c].todo) : PresentOf(tx[c].todo[i], EventProject[tx[c].event]))'
    BY DEF PresentOf, Present
  <1>5. Booked(rows)' = Booked(rows)
    BY DEF Booked
  <1>6. QED
    BY <1>1, <1>3, <1>4, <1>5 DEF TotalsSeen

\* The queries of a transaction: what they read is what it sees.
LEMMA StatementAlerts ==
    ASSUME PgInv, NEW c \in Clients,
           \/ \E e \in Submitted, x \in Costs : Insert(c, e, x)
           \/ ReadExisting(c) \/ SumUsage(c) \/ ReadAlerts(c)
    PROVE  PgAlerts'
  <1>1. ASSUME NEW t, Statement(c, t), tx[c].pc \notin {"updating", "resolving"},
               t.pc = "inserted" => t.found \subseteq Booked(rows),
               t.pc \notin {"summed", "updating", "resolving"}
        PROVE  PgAlerts'
    <2>1. tx' = [tx EXCEPT ![c] = t] /\ UNCHANGED <<rows, alerts, plans, holder, audits, basis>>
      BY <1>1 DEF Statement
    <2>2. tx'[c] = t
      BY <2>1 DEF PgInv, IInv
    <2>3. Booked(rows)' = Booked(rows)
      BY <2>1 DEF Booked
    <2>4. TotalsSeen(c)'
      BY <1>1, <2>2, <2>3 DEF TotalsSeen, Inserting
    <2>5. QED
      BY <1>1, <2>1, <2>4, QueryAlerts
  <1>2. ASSUME NEW e \in Submitted, NEW x \in Costs, Insert(c, e, x)
        PROVE  PgAlerts'
    <2> DEFINE D == {d \in Booked(rows) : EventProject[d] = EventProject[e]}
               t == IF rows[e] = NoRow
                    THEN [pc |-> "inserted", event |-> e, cost |-> x, found |-> D]
                    ELSE [pc |-> "conflict", event |-> e]
    <2>1. tx[c].pc \notin {"updating", "resolving"}
      BY <1>2 DEF Insert, NoTx
    <2>2. Statement(c, t)
      BY <1>2 DEF Insert
    <2>3. t.pc \in {"inserted", "conflict"} /\ (t.pc = "inserted" => t.found \subseteq Booked(rows))
      <3>1. D \subseteq Booked(rows)
        OBVIOUS
      <3> HIDE DEF D
      <3>2. QED
        BY <3>1
    <2> HIDE DEF t
    <2>4. QED
      BY <1>1, <2>1, <2>2, <2>3
  <1>3. CASE ReadExisting(c)
    <2>1. tx[c].pc \notin {"updating", "resolving"}
      BY <1>3 DEF ReadExisting
    <2>2. PICK t : Statement(c, t) /\ t.pc = "existing"
      BY <1>3 DEF ReadExisting
    <2>3. QED
      BY <1>1, <2>1, <2>2
  <1>4. CASE SumUsage(c)
    <2> DEFINE p == EventProject[tx[c].event]
               t == [pc |-> "summed", event |-> tx[c].event, cost |-> tx[c].cost,
                     found |-> tx[c].found, total |-> CostOf(Seen(c), p)]
               least == tx[c].found \cup {tx[c].event}
    <2>1. /\ tx' = [tx EXCEPT ![c] = t]
          /\ UNCHANGED <<rows, alerts, plans, holder, audits, basis>>
          /\ tx[c].pc = "inserted"
      BY <1>4 DEF SumUsage, Statement
    <2>2. tx'[c] = t
      BY <2>1 DEF PgInv, IInv
    <2>3. /\ tx[c].pc \in Inserting /\ tx[c].found \subseteq Booked(rows)
          /\ IInv /\ IsUsage(rows)
      BY <2>1 DEF Inserting, PgInv, PgAlerts, TotalsSeen, IInv, IsUsage
    <2>4. Booked(Seen(c)) = Booked(rows) \cup {tx[c].event}
      BY <2>3, SeenRows
    <2>5. Counts(Seen(c), CostOf(Seen(c), p), least, p)
      BY <2>3, <2>4 DEF Counts, CostOf
    <2>6. /\ tx'[c].pc = "summed" /\ tx'[c].total = CostOf(Seen(c), p)
          /\ tx'[c].found = tx[c].found /\ tx'[c].event = tx[c].event
          /\ tx'[c].cost = tx[c].cost
      BY <2>2
    <2>7. Seen(c)' = Seen(c) /\ Booked(rows)' = Booked(rows)
      BY <2>1, <2>6 DEF Seen, Booked
    <2> HIDE DEF t
    <2>8. Counts(Seen(c), tx[c].total, tx[c].found \cup {tx[c].event}, EventProject[tx[c].event])'
      BY <2>5, <2>6, <2>7, Zenon
    <2>9. TotalsSeen(c)'
      BY <2>3, <2>6, <2>7, <2>8 DEF TotalsSeen
    <2>10. QED
      BY <2>1, <2>9, QueryAlerts
  <1>5. CASE ReadAlerts(c)
    <2> DEFINE p == EventProject[tx[c].event]
               A == {a \in Alerts : alerts[a] # NoAlert /\ AlertProject[a] = p}
    <2>0. PICK todo \in SetToSeqs(A) :
              Statement(c, [pc |-> "updating", event |-> tx[c].event, cost |-> tx[c].cost,
                            found |-> tx[c].found, total |-> tx[c].total, todo |-> todo])
      BY <1>5 DEF ReadAlerts
    <2> DEFINE t == [pc |-> "updating", event |-> tx[c].event, cost |-> tx[c].cost,
                     found |-> tx[c].found, total |-> tx[c].total, todo |-> todo]
    <2>1. /\ tx' = [tx EXCEPT ![c] = t]
          /\ UNCHANGED <<rows, alerts, plans, holder, audits, basis>>
          /\ tx[c].pc = "summed"
      BY <1>5, <2>0 DEF ReadAlerts, Statement
    <2>2. tx'[c] = t
      BY <2>1 DEF PgInv, IInv
    <2>3. todo \in Seq(A)
      <3>1. IsFiniteSet(A)
        BY AlertsAssumption, FS_Subset
      <3>2. Cardinality(A) \in Nat
        BY <3>1, FS_CardinalityType
      <3>3. todo \in [1..Cardinality(A) -> A]
        BY <2>0 DEF SetToSeqs
      <3> HIDE DEF A
      <3>4. QED
        BY <3>2, <3>3
    <2>4. todo \in Seq(Alerts) /\ \A i \in 1..Len(todo) : todo[i] \in A
      BY <2>3
    <2>5. \A a \in A : PresentOf(a, p)
      BY DEF PresentOf, PgInv, PgAlerts
    <2>6. /\ tx'[c].pc = "updating" /\ tx'[c].total = tx[c].total
          /\ tx'[c].found = tx[c].found /\ tx'[c].cost = tx[c].cost
          /\ tx'[c].event = tx[c].event
          /\ "todo" \in DOMAIN tx'[c] /\ tx'[c].todo = todo
      BY <2>2
    <2> HIDE DEF t, A
    <2>7. TotalsSeen(c)'
      BY <2>1, <2>4, <2>5, <2>6, GoesOn
    <2>8. QED
      BY <2>1, <2>7, QueryAlerts
  <1>6. QED
    BY <1>2, <1>3, <1>4, <1>5

\* A row that nobody holds is locked by a transaction that may.
LEMMA LockRow ==
    ASSUME PgInv, NEW c \in Clients, NEW a \in Alerts, holder[a] = NoOne,
           holder' = [holder EXCEPT ![a] = c],
           UNCHANGED <<rows, alerts, plans, audits, basis>>,
           NEW t, tx' = [tx EXCEPT ![c] = t], TotalsSeen(c)',
           \A b \in Alerts : holder[b] = c \/ b = a => HeldByOwner(b)'
    PROVE  PgAlerts'
  <1>1. holder \in [Alerts -> Clients \cup {NoOne}]
    BY DEF PgInv, PgAlerts, TypeOK
  <1>2. /\ holder' \in [Alerts -> Clients \cup {NoOne}]
        /\ \A b \in Alerts : holder'[b] \notin {c, NoOne} => holder'[b] = holder[b]
        /\ \A b \in Alerts : holder'[b] = c => holder[b] = c \/ b = a
    BY <1>1
  <1>3. \A d \in Clients : d # c => tx'[d] = tx[d]
    BY DEF PgInv, IInv
  <1>4. QED
    BY <1>2, <1>3, LocalAlerts

\* It is the transaction that updates or resolves it.
LEMMA UpdateAlerts ==
    ASSUME PgInv, NEW c \in Clients, UpdateAlert(c)
    PROVE  PgAlerts'
  <1> DEFINE p == EventProject[tx[c].event]
             todo == tx[c].todo
             a == Head(todo)
             t == [tx[c] EXCEPT !.todo = Tail(@)]
  <1>1. /\ tx[c].pc = "updating" /\ todo # <<>>
        /\ holder[a] = NoOne /\ holder' = [holder EXCEPT ![a] = c]
        /\ tx' = [tx EXCEPT ![c] = t]
        /\ UNCHANGED <<rows, alerts, plans, audits, basis>>
    BY DEF UpdateAlert
  <1>2. /\ "todo" \in DOMAIN tx[c] /\ todo \in Seq(Alerts)
        /\ \A i \in 1..Len(todo) : PresentOf(todo[i], p)
    BY <1>1 DEF PgInv, PgAlerts, TotalsSeen
  <1>3. a \in Alerts /\ PresentOf(a, p)
    <2> HIDE DEF todo, p
    <2>1. a = todo[1] /\ 1 \in 1..Len(todo)
      BY <1>1, <1>2
    <2>2. QED
      BY <1>2, <2>1
  <1>4. Tail(todo) \in Seq(Alerts) /\ \A i \in 1..Len(Tail(todo)) : PresentOf(Tail(todo)[i], p)
    <2> HIDE DEF todo, p
    <2>1. /\ Tail(todo) \in Seq(Alerts)
          /\ \A i \in 1..Len(Tail(todo)) : Tail(todo)[i] = todo[i + 1] /\ i + 1 \in 1..Len(todo)
      BY <1>1, <1>2
    <2>2. QED
      BY <1>2, <2>1
  <1>5. tx'[c] = t
    BY <1>1 DEF PgInv, IInv
  <1>6. /\ tx'[c].pc = "updating" /\ tx'[c].event = tx[c].event
        /\ tx'[c].cost = tx[c].cost /\ tx'[c].total = tx[c].total
        /\ tx'[c].found = tx[c].found
        /\ "todo" \in DOMAIN tx'[c] /\ tx'[c].todo = Tail(todo)
    <2>1. t.pc = "updating" /\ t.event = tx[c].event /\ t.cost = tx[c].cost /\ t.total = tx[c].total
          /\ t.found = tx[c].found
      BY <1>1
    <2>2. "todo" \in DOMAIN t /\ t.todo = Tail(todo)
      BY <1>2
    <2>3. QED
      BY <1>5, <2>1, <2>2
  <1> HIDE DEF t, todo, a
  <1>7. TotalsSeen(c)'
    BY <1>1, <1>4, <1>6, GoesOn
  <1>8. \A b \in Alerts : holder[b] = c \/ b = a => PresentOf(b, p)
    BY <1>1, <1>3, NoOneAssumption DEF PgInv, PgAlerts, HeldByOwner, PresentOf
  <1>9. holder \in [Alerts -> Clients \cup {NoOne}]
    BY DEF PgInv, PgAlerts, TypeOK
  <1>10. \A b \in Alerts : holder[b] = c \/ b = a => HeldByOwner(b)'
    BY <1>1, <1>6, <1>8, <1>9 DEF HeldByOwner, PresentOf, Present
  <1>11. QED
    BY <1>1, <1>3, <1>7, <1>10, LockRow

LEMMA ResolveAlerts ==
    ASSUME PgInv, NEW c \in Clients, NEW a \in Alerts, ResolveAlert(c, a)
    PROVE  PgAlerts'
  <1> DEFINE t == [pc |-> "resolving", alert |-> a]
  <1>1. /\ tx[c] = NoTx /\ alerts[a] # NoAlert /\ holder[a] = NoOne
        /\ holder' = [holder EXCEPT ![a] = c] /\ tx' = [tx EXCEPT ![c] = t]
        /\ UNCHANGED <<rows, alerts, plans, audits, basis>>
    BY DEF ResolveAlert
  <1>2. tx'[c] = t
    BY <1>1 DEF PgInv, IInv
  <1>3. Present(a)' /\ Present(a)
    BY <1>1 DEF PgInv, PgAlerts, Present
  <1>4. TotalsSeen(c)'
    BY <1>2, <1>3 DEF TotalsSeen, Inserting
  <1>5. \A b \in Alerts : holder[b] # c
    BY <1>1, HoldsNone DEF PgInv, NoTx
  <1>6. holder \in [Alerts -> Clients \cup {NoOne}]
    BY DEF PgInv, PgAlerts, TypeOK
  <1>7. holder'[a] = c
    BY <1>1, <1>6
  <1>8. HeldByOwner(a)'
    BY <1>2, <1>3, <1>7 DEF HeldByOwner
  <1> HIDE DEF t
  <1>9. QED
    BY <1>1, <1>4, <1>5, <1>8, LockRow

\* An alert that is left alone shows what it did when rows are added.
LEMMA ShownStays ==
    ASSUME IsUsage(rows), \A e \in Booked(rows) : rows'[e] = rows[e],
           NEW a \in Alerts, FromRows(a), alerts'[a] = alerts[a], basis'[a] = basis[a]
    PROVE  FromRows(a)'
  <1>1. CASE basis[a] # {}
    <2>1. PICK S \in SUBSET Booked(rows) :
              basis[a] \subseteq S /\ Shows(alerts[a], a, CostIn(rows, S, AlertProject[a]))
      BY <1>1 DEF FromRows
    <2>2. S \subseteq Booked(rows') /\ CostIn(rows', S, AlertProject[a]) = CostIn(rows, S, AlertProject[a])
      BY CostStays
    <2>3. Shows(alerts'[a], a, CostIn(rows', S, AlertProject[a]))
      BY <2>1, <2>2
    <2>4. QED
      BY <1>1, <2>1, <2>2, <2>3 DEF FromRows
  <1>2. CASE basis[a] = {}
    BY <1>2 DEF FromRows
  <1>3. QED
    BY <1>1, <1>2

\* What becomes visible when the committed rows grow by one or stay, the
\* transaction that commits gives up its rows, and each alert that is there
\* either stays or is shown in a way that the rows bear.
LEMMA CommitAlerts ==
    ASSUME PgInv, IInv', NEW c \in Clients, tx'[c] = NoTx,
           \A d \in Clients : d # c => tx'[d] = tx[d],
           IsUsage(rows'), \A e \in Booked(rows) : rows'[e] = rows[e],
           holder' = Release(c), plans' = plans,
           alerts' \in [Alerts -> Alert], basis' \in [Alerts -> SUBSET Events],
           \A a \in Alerts :
               \/ alerts'[a] = alerts[a] /\ basis'[a] = basis[a]
               \/ Present(a) /\ FromRows(a)'
    PROVE  PgAlerts'
  <1> USE DEF PgInv
  <1>1. /\ IsUsage(rows) /\ holder \in [Alerts -> Clients \cup {NoOne}]
        /\ \A a \in Alerts : Present(a)' <=> Present(a)
    BY DEF IInv, IsUsage, PgAlerts, TypeOK, Present
  <1>2. ASSUME NEW d \in Clients PROVE TotalsSeen(d)'
    <2>1. CASE d = c
      BY <2>1 DEF TotalsSeen, NoTx, Inserting
    <2>2. CASE d # c
      <3>1. tx'[d] = tx[d] /\ TotalsSeen(d)
        BY <2>2 DEF PgAlerts
      <3>2. QED
        BY <1>1, <3>1, OthersSee
    <2>3. QED
      BY <2>1, <2>2
  <1>3. ASSUME NEW a \in Alerts
        PROVE  HeldByOwner(a)' /\ holder'[a] \in Clients \cup {NoOne}
    <2>1. CASE holder[a] \in {c, NoOne}
      <3>1. holder'[a] = NoOne
        BY <2>1 DEF Release
      <3>2. QED
        BY <3>1 DEF HeldByOwner
    <2>2. CASE holder[a] \notin {c, NoOne}
      <3>1. holder'[a] = holder[a] /\ holder[a] \in Clients /\ tx'[holder[a]] = tx[holder[a]]
        BY <1>1, <2>2 DEF Release
      <3>2. HeldByOwner(a)
        BY DEF PgAlerts
      <3>3. QED
        BY <1>1, <3>1, <3>2 DEF HeldByOwner
    <2>3. QED
      BY <2>1, <2>2
  <1>4. TypeOK'
    <2>1. holder' \in [Alerts -> Clients \cup {NoOne}]
      BY <1>3 DEF Release
    <2>2. QED
      BY <2>1 DEF TypeOK, PgAlerts, IInv
  <1>5. \A a \in Alerts : FromRows(a)'
    BY <1>1, ShownStays DEF PgAlerts
  <1>6. (\A a \in Alerts : ~Present(a) => alerts[a] = NoAlert /\ basis[a] = {})'
    BY <1>1 DEF PgAlerts
  <1>7. IsFiniteSet(Booked(rows))'
    BY DEF IsUsage
  <1>8. QED
    BY <1>2, <1>3, <1>4, <1>5, <1>6, <1>7 DEF PgAlerts

LEMMA ReconciledAlert ==
    ASSUME NEW a \in Alerts, NEW n \in Int
    PROVE  Reconciled(a, n) \in Alert /\ Shows(Reconciled(a, n), a, n)
  BY DEF Reconciled, AlertStatus, Alert, Shows

\* The commit of a transaction that has updated its alerts.
LEMMA PublishAlerts ==
    ASSUME PgInv, NEW c \in Clients, NEW r,
           tx[c].pc = "updating", Publish(c), reply' = [reply EXCEPT ![c] = r]
    PROVE  PgAlerts'
  <1> DEFINE t == tx[c]
             p == EventProject[t.event]
             least == t.found \cup {t.event}
  <1>1. /\ t.event \in Submitted /\ t.event \in Events /\ t.cost \in Costs
        /\ rows[t.event] = NoRow /\ IInv'
    BY PublishStep, SubmittedEvents DEF PgInv
  <1>2. /\ rows' = [rows EXCEPT ![t.event] = t.cost]
        /\ holder' = Release(c) /\ plans' = plans
        /\ tx' = [tx EXCEPT ![c] = NoTx]
        /\ alerts' = [a \in Alerts |-> IF holder[a] = c THEN Reconciled(a, t.total) ELSE alerts[a]]
        /\ basis' = [a \in Alerts |-> IF holder[a] = c THEN least ELSE basis[a]]
    BY DEF Publish
  <1>3. tx'[c] = NoTx /\ \A d \in Clients : d # c => tx'[d] = tx[d]
    BY <1>2 DEF PgInv, IInv
  <1>4. IsUsage(rows) /\ IsUsage(rows')
    BY <1>1, <1>2, BookOne DEF PgInv, PgAlerts, IInv, IsUsage
  <1>5. \A e \in Booked(rows) : rows'[e] = rows[e]
    BY <1>1, <1>2, <1>4 DEF Booked, IsUsage
  <1>6. t.found \subseteq Booked(rows) /\ Counts(Seen(c), t.total, least, p)
    BY DEF PgInv, PgAlerts, TotalsSeen, Inserting
  <1>7. Seen(c) = rows'
    BY <1>2 DEF Seen
  <1>8. PICK S \in SUBSET Booked(rows') : least \subseteq S /\ t.total = CostIn(rows', S, p)
    BY <1>6, <1>7 DEF Counts
  <1>9. t.total \in Int
    <2> HIDE DEF p, least
    <2>1. QED
      BY <1>4, <1>8, CostInt
  <1>10. alerts \in [Alerts -> Alert] /\ basis \in [Alerts -> SUBSET Events] /\ least \subseteq Events
    BY <1>1, <1>6 DEF PgInv, PgAlerts, TypeOK, Booked
  <1> HIDE DEF t, p, least
  <1>11. alerts' \in [Alerts -> Alert] /\ basis' \in [Alerts -> SUBSET Events]
    BY <1>2, <1>9, <1>10, ReconciledAlert
  <1>12. ASSUME NEW a \in Alerts
         PROVE  \/ alerts'[a] = alerts[a] /\ basis'[a] = basis[a]
                \/ Present(a) /\ FromRows(a)'
    <2>1. CASE holder[a] # c
      BY <1>2, <2>1
    <2>2. CASE holder[a] = c
      <3>1. AlertProject[a] = p /\ Present(a)
        BY <2>2, NoOneAssumption DEF PgInv, PgAlerts, HeldByOwner, p, t
      <3>2. alerts'[a] = Reconciled(a, t.total) /\ basis'[a] = least
        BY <1>2, <2>2
      <3>3. Shows(alerts'[a], a, CostIn(rows', S, AlertProject[a]))
        BY <1>8, <1>9, <3>1, <3>2, ReconciledAlert
      <3>4. basis'[a] # {} /\ basis'[a] \subseteq S
        BY <1>8, <3>2 DEF least
      <3>5. FromRows(a)'
        BY <3>3, <3>4 DEF FromRows
      <3>6. QED
        BY <3>1, <3>5
    <2>3. QED
      BY <2>1, <2>2
  <1>13. QED
    BY <1>1, <1>2, <1>3, <1>4, <1>5, <1>11, <1>12, CommitAlerts

\* A commit that resolves its alert shows it at the same cost.
LEMMA ResolvedAlerts ==
    ASSUME PgInv, IInv', NEW c \in Clients, CommitResolve(c)
    PROVE  PgAlerts'
  <1> PICK r \in Alerts : r = tx[c].alert /\ Present(r)
    BY DEF CommitResolve, PgInv, PgAlerts, TotalsSeen
  <1>1. /\ r \in Alerts
        /\ alerts' = [alerts EXCEPT ![r].status = "Resolved"]
        /\ holder' = Release(c) /\ tx' = [tx EXCEPT ![c] = NoTx]
        /\ UNCHANGED <<rows, plans, basis>>
    BY DEF CommitResolve
  <1>2. tx'[c] = NoTx /\ \A d \in Clients : d # c => tx'[d] = tx[d]
    BY <1>1 DEF PgInv, IInv
  <1>3. /\ IsUsage(rows') /\ \A e \in Booked(rows) : rows'[e] = rows[e]
        /\ basis' \in [Alerts -> SUBSET Events] /\ alerts \in [Alerts -> Alert]
    BY <1>1 DEF PgInv, PgAlerts, TypeOK, IsUsage
  <1>4. /\ alerts'[r] = [alerts[r] EXCEPT !.status = "Resolved"]
        /\ alerts'[r].current = alerts[r].current /\ alerts'[r].status = "Resolved"
        /\ alerts'[r] \in Alert
        /\ \A a \in Alerts : a # r => alerts'[a] = alerts[a]
    <2>1. alerts'[r] = [alerts[r] EXCEPT !.status = "Resolved"] /\ alerts[r] \in Alert
      BY <1>1, <1>3
    <2>2. QED
      BY <1>1, <1>3, <2>1 DEF Alert
  <1>5. alerts' \in [Alerts -> Alert]
    BY <1>1, <1>3, <1>4
  <1>6. FromRows(r)'
    <2>1. FromRows(r)
      BY DEF PgInv, PgAlerts
    <2>2. CASE basis[r] # {}
      <3>1. PICK S \in SUBSET Booked(rows) :
                basis[r] \subseteq S /\ Shows(alerts[r], r, CostIn(rows, S, AlertProject[r]))
        BY <2>1, <2>2 DEF FromRows
      <3>2. Shows(alerts'[r], r, CostIn(rows, S, AlertProject[r]))
        BY <1>4, <3>1 DEF Shows
      <3>3. QED
        BY <1>1, <2>2, <3>1, <3>2 DEF FromRows
    <2>3. CASE basis[r] = {}
      <3>1. PICK first \in {Beginning(r), NewAlert} :
                alerts[r] \in {first, [first EXCEPT !.status = "Resolved"]}
        BY <2>1, <2>3 DEF FromRows
      <3>2. first \in Alert
        BY DemoAlertsAssumption DEF Beginning, NewAlert, NoAlert, Alert
      <3>3. [[first EXCEPT !.status = "Resolved"] EXCEPT !.status = "Resolved"]
              = [first EXCEPT !.status = "Resolved"]
        BY <3>2 DEF Alert
      <3>4. alerts'[r] = [first EXCEPT !.status = "Resolved"]
        BY <1>4, <3>1, <3>3
      <3>5. QED
        BY <1>1, <2>3, <3>1, <3>4 DEF FromRows, Beginning
    <2>4. QED
      BY <2>2, <2>3
  <1>7. \A a \in Alerts :
            \/ alerts'[a] = alerts[a] /\ basis'[a] = basis[a]
            \/ Present(a) /\ FromRows(a)'
    BY <1>1, <1>4, <1>6
  <1>8. QED
    BY <1>1, <1>2, <1>3, <1>5, <1>7, CommitAlerts

\* Steps that no transaction of the service takes part in.
LEMMA TableAlerts ==
    ASSUME PgInv, IInv', tx' = tx, holder' = holder, basis' = basis,
           IsUsage(rows'), \A e \in Booked(rows) : rows'[e] = rows[e],
           plans' \in [Alerts -> PlanStatuses], alerts' \in [Alerts -> Alert],
           \A a \in Alerts : Present(a) => Present(a)',
           \A a \in Alerts :
               \/ alerts'[a] = alerts[a]
               \/ ~Present(a) /\ Present(a)' /\ alerts'[a] = NewAlert
    PROVE  PgAlerts'
  <1> USE DEF PgInv
  <1>1. IsUsage(rows)
    BY DEF IInv, IsUsage, PgAlerts, TypeOK
  <1>2. ASSUME NEW d \in Clients PROVE TotalsSeen(d)'
    <2>1. tx'[d] = tx[d] /\ TotalsSeen(d)
      BY DEF PgAlerts
    <2>2. QED
      BY <1>1, <2>1, OthersSee
  <1>3. \A a \in Alerts : HeldByOwner(a)'
    BY DEF PgAlerts, HeldByOwner
  <1>4. TypeOK'
    BY DEF TypeOK, PgAlerts, IInv
  <1>5. ASSUME NEW a \in Alerts PROVE FromRows(a)'
    <2>1. CASE alerts'[a] = alerts[a]
      <3>1. FromRows(a) /\ basis'[a] = basis[a]
        BY DEF PgAlerts
      <3>2. QED
        BY <1>1, <2>1, <3>1, ShownStays
    <2>2. CASE alerts'[a] = NewAlert /\ ~Present(a)
      BY <2>2 DEF PgAlerts, FromRows
    <2>3. QED
      BY <2>1, <2>2
  <1>6. (\A a \in Alerts : ~Present(a) => alerts[a] = NoAlert /\ basis[a] = {})'
    BY DEF PgAlerts
  <1>7. IsFiniteSet(Booked(rows))'
    BY DEF IsUsage
  <1>8. QED
    BY <1>2, <1>3, <1>4, <1>5, <1>6, <1>7 DEF PgAlerts

LEMMA PgStep == PgInv /\ [Next]_vars => PgInv'
  <1> SUFFICES ASSUME PgInv, [Next]_vars PROVE PgInv'
    OBVIOUS
  <1>1. IInv' /\ IInv
    BY NextIInv DEF PgInv
  <1>2. /\ IsUsage(rows) /\ alerts \in [Alerts -> Alert] /\ plans \in [Alerts -> PlanStatuses]
    BY <1>1 DEF IInv, IsUsage, PgInv, PgAlerts, TypeOK
  <1>3. ASSUME NEW c \in Clients,
               \/ \E e \in Submitted, x \in Costs : Insert(c, e, x)
               \/ ReadExisting(c) \/ SumUsage(c) \/ ReadAlerts(c)
        PROVE  PgAlerts'
    BY <1>3, StatementAlerts
  <1>4. ASSUME NEW c \in Clients, UpdateAlert(c) \/ \E a \in Alerts : ResolveAlert(c, a)
        PROVE  PgAlerts'
    BY <1>4, UpdateAlerts, ResolveAlerts
  <1>5. ASSUME NEW c \in Clients, CommitNew(c) \/ CommitUnsure(c)
        PROVE  PgAlerts'
    BY <1>5, PublishAlerts DEF CommitNew, CommitUnsure
  <1>6. ASSUME NEW c \in Clients, CommitExisting(c) \/ Abort(c)
        PROVE  PgAlerts'
    BY <1>6, EndAlerts DEF CommitExisting, Abort
  <1>7. ASSUME NEW c \in Clients, CommitResolve(c)
        PROVE  PgAlerts'
    BY <1>1, <1>7, ResolvedAlerts
  <1>8. ASSUME NEW e \in Charged, NEW x \in Costs, Charge(e, x)
        PROVE  PgAlerts'
    <2>1. /\ rows[e] = NoRow /\ rows' = [rows EXCEPT ![e] = x] /\ e \in Events
          /\ UNCHANGED <<alerts, plans, holder, tx, basis>>
      BY <1>8, ChargedAssumption DEF Charge
    <2>2. IsUsage(rows')
      BY <1>2, <2>1, BookOne
    <2>3. \A f \in Booked(rows) : rows'[f] = rows[f]
      BY <1>2, <2>1 DEF Booked, IsUsage
    <2>4. \A a \in Alerts : Present(a) => Present(a)'
      BY <2>1 DEF Present
    <2>5. QED
      BY <1>1, <1>2, <2>1, <2>2, <2>3, <2>4, TableAlerts
  <1>9. ASSUME UNCHANGED <<rows, holder, tx, basis>>,
               plans' \in [Alerts -> PlanStatuses], alerts' \in [Alerts -> Alert],
               \A a \in Alerts : Present(a) => Present(a)',
               \A a \in Alerts :
                   \/ alerts'[a] = alerts[a]
                   \/ ~Present(a) /\ Present(a)' /\ alerts'[a] = NewAlert
        PROVE  PgAlerts'
    <2>1. IsUsage(rows') /\ \A f \in Booked(rows) : rows'[f] = rows[f]
      BY <1>2, <1>9
    <2>2. QED
      BY <1>1, <1>9, <2>1, TableAlerts
  <1>10. ASSUME NEW a \in Alerts, CreatePlan(a) \/ ActivatePlan(a)
         PROVE  PgAlerts'
    <2>1. NewAlert \in Alert
      BY DEF NewAlert, Alert
    <2>2. /\ UNCHANGED <<rows, holder, tx, basis>>
          /\ plans' \in [Alerts -> PlanStatuses] /\ alerts' \in [Alerts -> Alert]
      BY <1>2, <1>10, <2>1 DEF CreatePlan, ActivatePlan, PlanStatuses
    <2>3. \A b \in Alerts : Present(b) => Present(b)'
      BY <1>2, <1>10 DEF CreatePlan, ActivatePlan, Present
    <2>4. \A b \in Alerts :
              \/ alerts'[b] = alerts[b]
              \/ ~Present(b) /\ Present(b)' /\ alerts'[b] = NewAlert
      BY <1>2, <1>10 DEF CreatePlan, ActivatePlan, Present
    <2>5. QED
      BY <1>9, <2>2, <2>3, <2>4
  <1>11. ASSUME NEW c \in Clients, Read(c)
         PROVE  PgAlerts'
    BY <1>2, <1>9, <1>11 DEF Read, Present
  <1>12. ASSUME UNCHANGED vars
         PROVE  PgAlerts'
    BY <1>2, <1>9, <1>12 DEF vars, Present
  <1>13. QED
    BY <1>1, <1>3, <1>4, <1>5, <1>6, <1>7, <1>8, <1>10, <1>11, <1>12 DEF Next, PgInv

-----------------------------------------------------------------------------
(* The alerts on the memory store.                                         *)

\* The rows that an alert's last event has reconciled, those of invocations
\* since left out, and what the alert shows of them.
Known(u, n, a) == {e \in Booked(u) \ n : Fold[EventProject[e]] = Fold[AlertProject[a]]}
ShowsKnown(a) ==
    Shows(alerts[a], a, Sum(rows, Known(rows, unseen, a)))

\* Alerts on the memory store: those that an event has reconciled exist and
\* show what is known; one that is not of the demo data exists once its plan
\* does.
MemAlerts ==
    /\ TypeOK
    /\ IsFiniteSet(Booked(rows))
    /\ unseen \subseteq Booked(rows)
    /\ \A a \in Alerts : plans[a] = "none" /\ a \notin Seeded => alerts[a] = NoAlert
    /\ counted \subseteq Alerts
    /\ \A a \in counted : alerts[a] # NoAlert /\ ShowsKnown(a)

LEMMA MemoryCosts ==
    ASSUME NEW u, NEW a
    PROVE  /\ Memory!TotalFor(u, a) = Sum(u, Known(u, {}, a))
           /\ Memory!Reconciles(a) = Sum(rows, Known(rows, unseen, a))
  <1>1. \A S : Memory!CostOf(u, S) = Sum(u, S)
    BY DEF Memory!CostOf, Memory!MapThenSumSet, Memory!MapThenFoldSet, Sum, IsSum, Pick
  <1>2. \A S : Memory!CostOf(rows, S) = Sum(rows, S)
    BY DEF Memory!CostOf, Memory!MapThenSumSet, Memory!MapThenFoldSet, Sum, IsSum, Pick
  <1>3. Known(u, {}, a) = {e \in Memory!Booked(u) :
                              Memory!SameProject(EventProject[e], AlertProject[a])}
    BY DEF Known, Booked, Memory!Booked, Memory!SameProject
  <1>4. Known(rows, unseen, a) = {e \in Memory!Booked(rows) \ unseen :
                              Memory!SameProject(EventProject[e], AlertProject[a])}
    BY DEF Known, Booked, Memory!Booked, Memory!SameProject
  <1>5. QED
    BY <1>1, <1>2, <1>3, <1>4 DEF Memory!TotalFor, Memory!Reconciles

LEMMA MemAlertsCurrent == MemAlerts => Memory!AlertsCurrent
  BY MemoryCosts DEF MemAlerts, ShowsKnown, Memory!AlertsCurrent, Memory!Shows, Shows,
                     Memory!AlertStatus, AlertStatus

LEMMA KnownInt ==
    ASSUME NEW u, IsUsage(u), NEW n, NEW a
    PROVE  IsFiniteSet(Known(u, n, a)) /\ Sum(u, Known(u, n, a)) \in Int
  <1>1. IsFiniteSet(Known(u, n, a))
    BY FS_Subset DEF IsUsage, Known
  <1>2. \A e \in Known(u, n, a) : u[e] \in Int
    BY BookedCosts DEF Known
  <1>3. QED
    BY <1>1, <1>2, SumInt

\* The same rows known at the same costs.
LEMMA KnownSame ==
    ASSUME NEW u, NEW v, IsUsage(u), NEW n, NEW k, NEW a,
           Known(u, n, a) = Known(v, k, a), \A e \in Booked(u) : v[e] = u[e]
    PROVE  Sum(u, Known(u, n, a)) = Sum(v, Known(v, k, a))
  <1>1. IsFiniteSet(Known(u, n, a))
    BY KnownInt
  <1>2. \A e \in Known(u, n, a) : u[e] = v[e]
    BY DEF Known
  <1>3. QED
    BY <1>1, <1>2, SumSame

\* A new event reconciles the alerts of its project and no other.
LEMMA RecordAlerts ==
    ASSUME MemoryIInv, MemAlerts, MemoryIInv', holder' = holder, basis' = basis,
           NEW c \in Clients, NEW e \in Submitted, NEW x \in Costs, Memory!RecordNew(c, e, x)
    PROVE  MemAlerts'
  <1> DEFINE u == [rows EXCEPT ![e] = x]
             C == {a \in Alerts : /\ alerts[a] # NoAlert
                                  /\ Fold[EventProject[e]] = Fold[AlertProject[a]]}
             n == {d \in unseen : Fold[EventProject[d]] # Fold[EventProject[e]]}
  <1>1. e \in Events /\ rows[e] = NoRow
    BY SubmittedEvents DEF Memory!RecordNew, Memory!Booked
  <1>2. C = Memory!Concerned(e)
    BY DEF Memory!Concerned, Memory!SameProject, Memory!NoAlert, NoAlert
  <1>3. /\ rows' = u /\ counted' = counted \cup C /\ plans' = plans
        /\ unseen' = n
    BY <1>2 DEF Memory!RecordNew, Memory!SameProject
  <1>4. alerts' = [a \in Alerts |-> IF a \in C THEN Reconciled(a, Sum(u, Known(u, {}, a)))
                                              ELSE alerts[a]]
    <2>1. alerts' = Memory!Refreshed(u, e)
      BY DEF Memory!RecordNew
    <2>2. \A a : Memory!TotalFor(u, a) = Sum(u, Known(u, {}, a))
      BY MemoryCosts
    <2> HIDE DEF u, C
    <2>3. QED
      BY <1>2, <2>1, <2>2 DEF Memory!Refreshed, Memory!Reconciled, Memory!AlertStatus,
                              Reconciled, AlertStatus
  <1>5. IsUsage(rows) /\ IsUsage(u) /\ \A d \in Booked(rows) : u[d] = rows[d]
    <2>1. IsUsage(rows)
      BY DEF MemAlerts, MemoryIInv, IsUsage
    <2>2. IsUsage(u)
      BY <1>1, <2>1, BookOne
    <2>3. QED
      BY <1>1, <2>1, <2>2 DEF IsUsage, Booked
  <1>6. Booked(u) = Booked(rows) \cup {e}
    BY <1>1, <1>5, CostsAssumption DEF IsUsage, Booked
  <1>7. ASSUME NEW a \in C
        PROVE  /\ Known(u, {}, a) = Known(u, n, a)
               /\ alerts'[a] = Reconciled(a, Sum(u, Known(u, n, a)))
               /\ Sum(u, Known(u, n, a)) \in Int
    <2>1. Known(u, {}, a) = Known(u, n, a)
      BY DEF Known
    <2> HIDE DEF u, n
    <2>2. QED
      BY <1>4, <1>5, <2>1, KnownInt
  <1>8. ASSUME NEW a \in Alerts, a \in counted, a \notin C
        PROVE  Sum(u, Known(u, n, a)) = Sum(rows, Known(rows, unseen, a))
    <2>1. Fold[EventProject[e]] # Fold[AlertProject[a]]
      BY <1>8 DEF MemAlerts
    <2>2. Known(u, n, a) = Known(rows, unseen, a)
      <3> HIDE DEF u
      <3>1. QED
        BY <1>6, <2>1 DEF Known
    <2> HIDE DEF u, n
    <2>3. QED
      BY <1>5, <2>2, KnownSame
  <1> HIDE DEF u, n
  <1>9. \A a \in C : Reconciled(a, Sum(u, Known(u, n, a))) \in Alert
    BY <1>7, ReconciledAlert
  <1>10. TypeOK'
    BY <1>3, <1>4, <1>7, <1>9 DEF TypeOK, MemAlerts, MemoryIInv
  <1>11. \A a \in Alerts : plans'[a] = "none" /\ a \notin Seeded => alerts'[a] = NoAlert
    BY <1>3, <1>4 DEF MemAlerts
  <1>12. ASSUME NEW a \in counted' PROVE alerts'[a] # NoAlert /\ ShowsKnown(a)'
    <2>1. CASE a \in C
      <3>1. Shows(alerts'[a], a, Sum(rows', Known(rows', unseen', a)))
        BY <1>3, <1>7, <2>1, ReconciledAlert
      <3>2. alerts'[a] # NoAlert
        <4>1. alerts'[a].status \in {"Warning", "Normal", "Resolved"}
          BY <3>1 DEF AlertStatus, Shows
        <4>2. QED
          BY <4>1 DEF NoAlert
      <3>3. QED
        BY <3>1, <3>2 DEF ShowsKnown
    <2>2. CASE a \notin C
      <3>1. a \in counted /\ a \in Alerts
        BY <1>3, <2>2 DEF MemAlerts
      <3>2. alerts'[a] = alerts[a]
        BY <1>4, <2>2, <3>1
      <3>3. Sum(rows', Known(rows', unseen', a)) = Sum(rows, Known(rows, unseen, a))
        BY <1>3, <1>8, <2>2, <3>1
      <3>4. alerts[a] # NoAlert /\ ShowsKnown(a)
        BY <3>1 DEF MemAlerts
      <3>5. QED
        BY <3>2, <3>3, <3>4 DEF ShowsKnown
    <2>3. QED
      BY <2>1, <2>2
  <1>13. IsFiniteSet(Booked(rows))'
    BY <1>3, <1>5 DEF IsUsage
  <1>14. unseen' \subseteq Booked(rows')
    BY <1>3, <1>6 DEF MemAlerts, n
  <1>15. counted' \subseteq Alerts
    BY <1>3 DEF MemAlerts
  <1>16. QED
    BY <1>10, <1>11, <1>12, <1>13, <1>14, <1>15 DEF MemAlerts

\* Steps that reconcile nothing: the rows that are known stay.
LEMMA KnownAlerts ==
    ASSUME MemoryIInv, MemAlerts, MemoryIInv', holder' = holder, basis' = basis,
           counted' = counted,
           IsUsage(rows'), unseen' \subseteq Booked(rows'),
           \A e \in Booked(rows) : rows'[e] = rows[e],
           \A a \in Alerts : Known(rows', unseen', a) = Known(rows, unseen, a),
           plans' \in [Alerts -> PlanStatuses], alerts' \in [Alerts -> Alert],
           \A a \in Alerts : plans'[a] = "none" /\ a \notin Seeded =>
                               plans[a] = "none" /\ alerts'[a] = alerts[a],
           \A a \in counted : /\ alerts'[a].current = alerts[a].current
                              /\ alerts'[a].status \in {alerts[a].status, "Resolved"}
    PROVE  MemAlerts'
  <1>1. IsUsage(rows)
    BY DEF MemAlerts, MemoryIInv, IsUsage
  <1>2. ASSUME NEW a \in counted' PROVE alerts'[a] # NoAlert /\ ShowsKnown(a)'
    <2>1. /\ a \in counted /\ a \in Alerts /\ alerts[a] # NoAlert /\ ShowsKnown(a)
          /\ alerts'[a] \in Alert
      BY DEF MemAlerts
    <2>2. Sum(rows', Known(rows', unseen', a)) = Sum(rows, Known(rows, unseen, a))
      BY <1>1, <2>1, KnownSame
    <2>3. ShowsKnown(a)'
      BY <2>1, <2>2 DEF ShowsKnown, Shows
    <2>4. alerts[a].status \in {"Warning", "Normal", "Resolved"}
      BY <2>1 DEF ShowsKnown, Shows, AlertStatus
    <2>5. alerts'[a].status # "none"
      BY <2>1, <2>4
    <2>6. QED
      BY <2>3, <2>5 DEF NoAlert
  <1>3. TypeOK'
    BY DEF TypeOK, MemAlerts, MemoryIInv
  <1>4. \A a \in Alerts : plans'[a] = "none" /\ a \notin Seeded => alerts'[a] = NoAlert
    BY DEF MemAlerts
  <1>5. IsFiniteSet(Booked(rows))'
    BY DEF IsUsage
  <1>6. QED
    BY <1>2, <1>3, <1>4, <1>5 DEF MemAlerts

LEMMA MemoryKeeps ==
    ASSUME MemoryIInv, MemAlerts, MemoryStep
    PROVE  MemAlerts'
  <1>1. MemoryIInv' /\ holder' = holder /\ basis' = basis /\ Memory!Next
    BY MemoryStepEffect DEF MemoryStep
  <1>2. /\ IsUsage(rows) /\ unseen \subseteq Booked(rows) /\ counted \subseteq Alerts
        /\ plans \in [Alerts -> PlanStatuses] /\ alerts \in [Alerts -> Alert]
    BY DEF MemAlerts, MemoryIInv, IsUsage, TypeOK
  <1>3. ASSUME UNCHANGED <<rows, unseen, counted>>,
               plans' \in [Alerts -> PlanStatuses], alerts' \in [Alerts -> Alert],
               \A a \in Alerts : plans'[a] = "none" /\ a \notin Seeded =>
                                   plans[a] = "none" /\ alerts'[a] = alerts[a],
               \A a \in counted : /\ alerts'[a].current = alerts[a].current
                                  /\ alerts'[a].status \in {alerts[a].status, "Resolved"}
        PROVE  MemAlerts'
    <2>1. /\ IsUsage(rows') /\ unseen' \subseteq Booked(rows')
          /\ \A e \in Booked(rows) : rows'[e] = rows[e]
          /\ \A a \in Alerts : Known(rows', unseen', a) = Known(rows, unseen, a)
          /\ counted' = counted
      BY <1>2, <1>3
    <2>2. QED
      BY <1>1, <1>3, <2>1, KnownAlerts
  <1>4. ASSUME NEW e \in Charged, NEW x \in Costs, Memory!Charge(e, x)
        PROVE  MemAlerts'
    <2>1. /\ e \in Events /\ rows[e] = NoRow /\ rows' = [rows EXCEPT ![e] = x]
          /\ unseen' = unseen \cup {e} /\ UNCHANGED <<plans, alerts, counted>>
      BY <1>4, ChargedAssumption DEF Memory!Charge, Memory!Booked
    <2>2. IsUsage(rows')
      BY <1>2, <2>1, BookOne
    <2>3. /\ \A d \in Booked(rows) : rows'[d] = rows[d]
          /\ Booked(rows') = Booked(rows) \cup {e} /\ e \notin Booked(rows)
      BY <1>2, <2>1, CostsAssumption DEF Booked, IsUsage
    <2>4. \A a \in Alerts : Known(rows', unseen', a) = Known(rows, unseen, a)
      BY <2>1, <2>3 DEF Known
    <2>5. QED
      BY <1>1, <1>2, <2>1, <2>2, <2>3, <2>4, KnownAlerts
  <1>5. ASSUME NEW a \in Alerts, Memory!CreatePlan(a)
        PROVE  MemAlerts'
    <2>1. /\ plans[a] = "none" /\ a \notin Seeded /\ plans' = [plans EXCEPT ![a] = "Draft"]
          /\ alerts' = [alerts EXCEPT ![a] = NewAlert]
          /\ UNCHANGED <<rows, unseen, counted>>
      BY <1>5 DEF Memory!CreatePlan, Memory!NewAlert, NewAlert, Memory!Seeded, Seeded
    <2>2. a \notin counted
      BY <2>1 DEF MemAlerts
    <2>3. NewAlert \in Alert
      BY DEF NewAlert, Alert
    <2>4. plans' \in [Alerts -> PlanStatuses] /\ alerts' \in [Alerts -> Alert]
      BY <1>2, <2>1, <2>3 DEF PlanStatuses
    <2>5. \A b \in Alerts : plans'[b] = "none" /\ b \notin Seeded =>
              plans[b] = "none" /\ alerts'[b] = alerts[b]
      BY <1>2, <2>1
    <2>6. \A b \in counted : alerts'[b] = alerts[b]
      BY <1>2, <2>1, <2>2
    <2>7. QED
      BY <1>3, <2>1, <2>4, <2>5, <2>6
  <1>6. ASSUME NEW a \in Alerts, Memory!ActivatePlan(a)
        PROVE  MemAlerts'
    <2>1. /\ plans' = [plans EXCEPT ![a] = "Active"]
          /\ UNCHANGED <<rows, unseen, counted, alerts>>
      BY <1>6 DEF Memory!ActivatePlan
    <2>2. QED
      BY <1>2, <1>3, <2>1 DEF PlanStatuses
  <1>7. ASSUME NEW a \in Alerts, Memory!ResolveBudgetAlert(a)
        PROVE  MemAlerts'
    <2>1. /\ alerts[a] # NoAlert /\ alerts' = [alerts EXCEPT ![a].status = "Resolved"]
          /\ UNCHANGED <<rows, unseen, counted, plans>>
      BY <1>7 DEF Memory!ResolveBudgetAlert, Memory!NoAlert, NoAlert
    <2>2. /\ alerts'[a].current = alerts[a].current /\ alerts'[a].status = "Resolved"
          /\ alerts'[a] \in Alert
          /\ \A b \in Alerts : b # a => alerts'[b] = alerts[b]
      <3>1. alerts'[a] = [alerts[a] EXCEPT !.status = "Resolved"] /\ alerts[a] \in Alert
        BY <1>2, <2>1
      <3>2. QED
        BY <1>2, <2>1, <3>1 DEF Alert
    <2>3. alerts' \in [Alerts -> Alert]
      BY <1>2, <2>1, <2>2
    <2>4. \A b \in Alerts : plans'[b] = "none" /\ b \notin Seeded =>
              plans[b] = "none" /\ alerts'[b] = alerts[b]
      BY <2>1, <2>2 DEF MemAlerts
    <2>5. \A b \in counted : /\ alerts'[b].current = alerts[b].current
                             /\ alerts'[b].status \in {alerts[b].status, "Resolved"}
      BY <1>2, <2>2
    <2>6. QED
      BY <1>2, <1>3, <2>1, <2>3, <2>4, <2>5
  <1>8. ASSUME UNCHANGED <<rows, unseen, counted, plans, alerts>>
        PROVE  MemAlerts'
    BY <1>2, <1>3, <1>8
  <1>9. ASSUME NEW c \in Clients, NEW e \in Submitted, NEW x \in Costs,
               Memory!RecordAgain(c, e, x) \/ Memory!Read(c)
        PROVE  MemAlerts'
    BY <1>8, <1>9 DEF Memory!RecordAgain, Memory!Read
  <1>10. ASSUME NEW c \in Clients, Memory!Read(c)
         PROVE  MemAlerts'
    BY <1>8, <1>10 DEF Memory!Read
  <1>11. ASSUME NEW c \in Clients, NEW e \in Submitted, NEW x \in Costs, Memory!RecordNew(c, e, x)
         PROVE  MemAlerts'
    BY <1>1, <1>11, RecordAlerts
  <1>12. QED
    BY <1>1, <1>4, <1>5, <1>6, <1>7, <1>9, <1>10, <1>11
       DEF Memory!Next, Memory!Submitted, Submitted

-----------------------------------------------------------------------------
(* The alerts of either store.                                             *)

AlertsInv ==
    /\ StoresIInv
    /\ store = "memory" => MemAlerts
    /\ store = "postgres" => PgAlerts

LEMMA AlertsInit == StoresInit => AlertsInv
  <1> SUFFICES ASSUME StoresInit PROVE AlertsInv
    OBVIOUS
  <1>1. StoresIInv /\ Init /\ unseen = {} /\ counted = {}
    BY StoresInitIInv DEF StoresInit
  <1>2. /\ \A a \in Alerts : alerts[a] = Beginning(a) /\ Beginning(a) \in Alert
        /\ \A a \in Alerts \ Seeded : alerts[a] = NoAlert
    BY <1>1, DemoAlertsAssumption DEF Init, Beginning, NoAlert, Alert
  <1>3. TypeOK
    BY <1>1, <1>2 DEF Init, TypeOK, PlanStatuses
  <1>4. Booked(rows) = {} /\ IsFiniteSet(Booked(rows))
    BY <1>1, FS_EmptySet DEF Init, Booked
  <1>5. MemAlerts
    BY <1>1, <1>2, <1>3, <1>4 DEF MemAlerts
  <1>6. \A c \in Clients : TotalsSeen(c)
    BY <1>1 DEF Init, TotalsSeen, NoTx, Inserting
  <1>7. \A a \in Alerts : HeldByOwner(a)
    BY <1>1 DEF Init, HeldByOwner
  <1>8. \A a \in Alerts : basis[a] = {}
    BY <1>1 DEF Init
  <1>9. PgAlerts
    BY <1>2, <1>3, <1>4, <1>6, <1>7, <1>8 DEF PgAlerts, FromRows, Present
  <1>10. QED
    BY <1>1, <1>5, <1>9 DEF AlertsInv

LEMMA AlertsStep == AlertsInv /\ [StoresNext]_storeVars => AlertsInv'
  <1> SUFFICES ASSUME AlertsInv, [StoresNext]_storeVars PROVE AlertsInv'
    OBVIOUS
  <1>1. StoresIInv'
    BY StoresStep DEF AlertsInv
  <1>2. CASE store = "memory" /\ MemoryStep /\ store' = store
    <2>1. MemAlerts'
      BY <1>2, MemoryKeeps DEF AlertsInv, StoresIInv
    <2>2. QED
      BY <1>1, <1>2, <2>1 DEF AlertsInv
  <1>3. CASE store = "postgres" /\ PostgresStep /\ store' = store
    <2>1. PgInv /\ [Next]_vars
      BY <1>3 DEF AlertsInv, StoresIInv, PgInv, PostgresStep
    <2>2. PgInv'
      BY <2>1, PgStep
    <2>3. QED
      BY <1>1, <1>3, <2>2 DEF AlertsInv, PgInv
  <1>4. CASE UNCHANGED storeVars
    <2>1. UNCHANGED vars /\ store' = store /\ unseen' = unseen /\ counted' = counted
      BY <1>4 DEF storeVars
    <2>2. ASSUME store = "postgres" PROVE PgAlerts'
      <3>1. PgInv
        BY <2>2 DEF AlertsInv, StoresIInv, PgInv
      <3>2. QED
        BY <2>1, <3>1, PgStep DEF PgInv
    <2>3. ASSUME store = "memory" PROVE MemAlerts'
      <3>1. MemAlerts /\ UNCHANGED <<rows, alerts, plans, holder, audits, basis, counted, unseen>>
        BY <2>1, <2>3 DEF AlertsInv, vars
      <3>2. QED
        BY <3>1 DEF MemAlerts, TypeOK, ShowsKnown, Known, Booked
    <2>4. QED
      BY <1>1, <2>1, <2>2, <2>3 DEF AlertsInv
  <1>5. QED
    BY <1>2, <1>3, <1>4 DEF StoresNext

\* The invariant of the alerts.
THEOREM AlertsInductive == StoresSpec => []AlertsInv
  BY AlertsInit, AlertsStep, PTL DEF StoresSpec

\* The types of the billing service, whichever store it runs on.
THEOREM StoresTypeCorrect == StoresSpec => []TypeOK
  <1>1. AlertsInv => TypeOK
    BY DEF AlertsInv, StoresIInv, MemAlerts, PgAlerts
  <1>2. QED
    BY <1>1, AlertsInductive, PTL

\* An alert shows the cost of its project up to its last event in memory, and
\* on Postgres that of booked rows of it, the last event's and all that were
\* booked when that one began among them, whatever amounts the rows carry.
THEOREM StoresAlertsFollow == StoresSpec => []AlertsFollow
  <1>1. AlertsInv => AlertsFollow
    BY MemAlertsCurrent, PgAlertsFromRows DEF AlertsInv, AlertsFollow
  <1>2. QED
    BY <1>1, AlertsInductive, PTL
=============================================================================
