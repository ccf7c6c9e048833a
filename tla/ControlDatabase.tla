-------------------------- MODULE ControlDatabase --------------------------
(***************************************************************************)
(* The database under control-api and ops-api: migrate-db brings its       *)
(* schema up, the services then work on it (docker-compose.image.yml       *)
(* starts them when migrate-db has completed), and ops-api assembles the   *)
(* console's snapshot from it (LoadSnapshot in                             *)
(* internal/platform/snapshot/snapshot.go): one query for each table, in a *)
(* fixed order and in no transaction, while the other callers go on. The   *)
(* memory store needs no migration and copies all tables under its lock    *)
(* (Snapshot in internal/platform/store/store.go).                         *)
(***************************************************************************)
EXTENDS AccessSubjects, SchemaMigration

CONSTANT MaxCalls   \* bound: calls that change the tables

ASSUME CallsBound == MaxCalls \in Nat

VARIABLES
    up,            \* the services run
    snapshot,      \* the tables copied so far
    calls         \* how many of them were made

vars == <<accessVars, migrationVars, up, snapshot, calls>>

\* The queries that read tables modelled here, in the order they are issued.
Tables == <<"users", "applications", "apiKeys", "todos">>
NoSnapshot == [at |-> 0, users |-> <<>>, apps |-> <<>>, keys |-> <<>>, todos |-> <<>>]

ControlInit ==
    /\ AccessInit
    /\ MigrationInit
    /\ up = (store = "memory")
    /\ snapshot = NoSnapshot
    /\ calls = 0

-----------------------------------------------------------------------------
Migrate ==
    /\ ~up
    /\ MigrationNext
    /\ UNCHANGED <<accessVars, up, snapshot, calls>>

\* The services of the Postgres store start once a command has completed.
\* Bound: no command overlaps them. One that did would find every file
\* recorded and change nothing, and the ones that have ended leave nothing
\* behind in their processes.
StartServices ==
    /\ ~up
    /\ \E m \in Migrators : pc[m] = "done"
    /\ Running = {}
    /\ up' = TRUE
    /\ pc' = [m \in Migrators |-> "idle"]
    /\ file' = [m \in Migrators |-> 1]
    /\ failures' = 0
    /\ UNCHANGED <<accessVars, ensured, recorded, effects, snapshot, calls>>

\* A finished snapshot goes out at once: nothing that follows changes it.
Call ==
    /\ up /\ snapshot.at < Len(Tables)
    /\ calls < MaxCalls
    /\ AccessCall
    /\ calls' = calls + 1
    /\ UNCHANGED <<migrationVars, up, snapshot>>

Rest ==
    /\ up /\ snapshot.at < Len(Tables)
    /\ AccessRest
    /\ UNCHANGED <<migrationVars, up, snapshot, calls>>

\* One list of LoadSnapshot.
Copy_KeysFirst(s) ==
    CASE s.at = 1 -> [s EXCEPT !.users = users]
      [] s.at = 2 -> [s EXCEPT !.keys = keys]
      [] s.at = 3 -> [s EXCEPT !.apps = apps]
      [] s.at = 4 -> [s EXCEPT !.todos = todos]

Copy(s) ==
    CASE s.at = 1 -> [s EXCEPT !.users = users]
      [] s.at = 2 -> [s EXCEPT !.apps = apps]
      [] s.at = 3 -> [s EXCEPT !.keys = keys]
      [] s.at = 4 -> [s EXCEPT !.todos = todos]

QueryNext ==
    /\ store = "postgres" /\ up
    /\ snapshot.at < Len(Tables)
    /\ snapshot' = Copy([snapshot EXCEPT !.at = @ + 1])
    /\ UNCHANGED <<accessVars, migrationVars, up, calls>>

TakeSnapshot ==
    /\ store = "memory"
    /\ snapshot = NoSnapshot
    /\ snapshot' = [at |-> Len(Tables), users |-> users, apps |-> apps, keys |-> keys,
                    todos |-> todos]
    /\ UNCHANGED <<accessVars, migrationVars, up, calls>>

\* The snapshot is returned; or a query fails and the whole of it is dropped.
EndSnapshot ==
    /\ snapshot.at > 0
    /\ snapshot' = NoSnapshot
    /\ UNCHANGED <<accessVars, migrationVars, up, calls>>

ControlNext ==
    \/ Migrate
    \/ StartServices
    \/ Call
    \/ Rest
    \/ QueryNext
    \/ TakeSnapshot
    \/ EndSnapshot

ControlSpec == ControlInit /\ [][ControlNext]_vars

\* Only the commands are promised to go on.
FairControlSpec ==
    ControlSpec /\ \A m \in Migrators : WF_vars(MigrationStep(m) /\ Migrate)

-----------------------------------------------------------------------------
ControlTypeOK ==
    /\ AccessTypeOK
    /\ MigrationTypeOK
    /\ up \in BOOLEAN
    /\ snapshot.at \in 0 .. Len(Tables)
    /\ calls \in 0 .. MaxCalls

\* Though its tables are of different moments, a finished snapshot contains
\* what a page follows through it: the key each application shows; keys out
\* of provisioning for an application shown Active, and its onboarding done;
\* the onboarding done of a user shown Active. Excepted are, as above,
\* applications and users the memory store let share a name.
SnapshotClosed ==
    LET s == snapshot
        OneApp(i) == \A o \in DOMAIN s.apps \ {i} : s.apps[o].name # s.apps[i].name
        OneUser(u) == \A o \in DOMAIN s.users \ {u} : s.users[o].email # s.users[u].email
        Done(title) ==
            \A t \in DOMAIN s.todos : s.todos[t].title = title => s.todos[t].status = "Resolved"
        NoKey(r) == r.seed /\ r.name \notin SeededKeys /\ r.key.rotated = <<>>
    IN  s.at = Len(Tables) =>
            /\ \A i \in DOMAIN s.apps : OneApp(i) =>
                  /\ NoKey(s.apps[i]) \/ \E j \in DOMAIN s.keys :
                        s.keys[j].name = s.apps[i].key /\ s.keys[j].project = s.apps[i].name
                  /\ s.apps[i].status = "Active" =>
                        /\ \A j \in DOMAIN s.keys :
                              s.keys[j].project = s.apps[i].name => s.keys[j].status # "Provisioning"
                        /\ Done(AppTodo(s.apps[i].name))
            /\ \A u \in DOMAIN s.users :
                  OneUser(u) /\ s.users[u].status = "Active" => Done(UserTodo(s.users[u].email))
=============================================================================
