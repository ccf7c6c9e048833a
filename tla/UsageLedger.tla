---------------------------- MODULE UsageLedger ----------------------------
(***************************************************************************)
(* What POST /api/billing/usage-events promises its callers, whatever      *)
(* store is behind it: an event is booked once under its eventId, the      *)
(* first submission's payload stays, one caller is told 201 for it and     *)
(* everybody else 200 with the row as booked; a 500 says nothing.  The     *)
(* gateway books its invocations in the same rows, under ids of its own.   *)
(*                                                                         *)
(* UsageBilling (memory store) and UsageBillingPg (Postgres) implement it. *)
(***************************************************************************)
CONSTANTS
    Events,    \* ids of usage rows
    Charged,   \* those of them that invocations are booked under
    Costs,     \* payloads, of which only the cost matters
    Clients,   \* callers with a request at the service
    NoRow      \* an event id that is not booked, no cost

VARIABLES
    ledger,    \* usage_records: the cost booked per event id
    reply      \* the answer each client has received and not yet read

vars == <<ledger, reply>>

NoReply == [code |-> 0]
Error == [code |-> 500]
Created(e, x) == [code |-> 201, event |-> e, cost |-> x]
Existing(e, x) == [code |-> 200, event |-> e, cost |-> x]

Init ==
    /\ ledger = [e \in Events |-> NoRow]
    /\ reply = [c \in Clients |-> NoReply]

\* The gateway's recorder books an invocation beside the service.
Charge(e, x) ==
    /\ ledger[e] = NoRow
    /\ ledger' = [ledger EXCEPT ![e] = x]
    /\ UNCHANGED reply

Book(c, e, x) ==
    /\ reply[c] = NoReply
    /\ ledger[e] = NoRow
    /\ ledger' = [ledger EXCEPT ![e] = x]
    /\ reply' = [reply EXCEPT ![c] = Created(e, x)]

Repeat(c, e) ==
    /\ reply[c] = NoReply
    /\ ledger[e] # NoRow
    /\ reply' = [reply EXCEPT ![c] = Existing(e, ledger[e])]
    /\ UNCHANGED ledger

\* The transaction failed, or it did not and the answer of its commit is lost.
Fail(c) ==
    /\ reply[c] = NoReply
    /\ reply' = [reply EXCEPT ![c] = Error]
    /\ \/ UNCHANGED ledger
       \/ \E e \in Events \ Charged, x \in Costs :
              ledger[e] = NoRow /\ ledger' = [ledger EXCEPT ![e] = x]

Read(c) ==
    /\ reply[c] # NoReply
    /\ reply' = [reply EXCEPT ![c] = NoReply]
    /\ UNCHANGED ledger

Next ==
    \/ \E c \in Clients :
           \/ \E e \in Events \ Charged : Repeat(c, e) \/ \E x \in Costs : Book(c, e, x)
           \/ Fail(c)
           \/ Read(c)
    \/ \E e \in Charged, x \in Costs : Charge(e, x)

Spec == Init /\ [][Next]_vars
=============================================================================
