------------------------- MODULE UsageBillingStores -------------------------
(***************************************************************************)
(* The billing service as it is started: on the memory store without a     *)
(* database URL, on Postgres with one (service.go, store.NewSeedStore and  *)
(* the repositories of internal/billing).  The choice is made once; the    *)
(* same rows, plans, alerts and answers are then kept by UsageBilling or   *)
(* by UsageBillingPg.                                                      *)
(***************************************************************************)
EXTENDS UsageBillingPg

CONSTANTS
    Fold   \* a name without regard to case and blanks

ASSUME FoldAssumption == \A p \in Projects : Fold[p] \in Projects

VARIABLES
    store,   \* "memory" or "postgres"
    counted, unseen   \* histories of the memory store, see UsageBilling

Memory == INSTANCE UsageBilling WITH usage <- rows

storeVars == <<vars, store, counted, unseen>>

StoresInit ==
    /\ Init
    /\ counted = {} /\ unseen = {}
    /\ store \in {"memory", "postgres"}

MemoryStep == Memory!Next /\ UNCHANGED <<holder, tx, basis>>
PostgresStep == Next /\ UNCHANGED <<counted, unseen>>

StoresNext ==
    /\ store' = store
    /\ \/ store = "memory" /\ MemoryStep
       \/ store = "postgres" /\ PostgresStep

StoresSpec == StoresInit /\ [][StoresNext]_storeVars

\* Only Postgres has transactions that must go on.
OnPostgres(A) == store = "postgres" /\ A /\ UNCHANGED <<store, counted, unseen>>

FairStoresSpec ==
    /\ StoresSpec
    /\ \A c \in Clients :
           /\ SF_storeVars(OnPostgres(Progress(c)))
           /\ WF_storeVars(OnPostgres(BreakDeadlock(c)))

-----------------------------------------------------------------------------
\* What a budget alert shows, by store: on the memory store the project's
\* cost up to its last event, on Postgres the cost of booked rows, of which
\* those of concurrent events may be missing; its status is that of the cost
\* it shows until somebody resolves it.
AlertsFollow ==
    /\ store = "memory" => Memory!AlertsCurrent
    /\ store = "postgres" => AlertFromRows
=============================================================================
