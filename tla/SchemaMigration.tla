-------------------------- MODULE SchemaMigration --------------------------
(***************************************************************************)
(* The migrate-db command (cmd/migrate-db, RunMigrations and               *)
(* applyMigration in internal/platform/db/migrate.go): the files of the    *)
(* migrations directory in the order of their names, each applied in a     *)
(* transaction of its own that also records it in schema_migrations.       *)
(* Whether a file is recorded is asked before that transaction begins, so  *)
(* two commands running at once may both begin to apply a file; the        *)
(* primary key of schema_migrations lets one of them commit.               *)
(***************************************************************************)
EXTENDS Naturals, FiniteSets

CONSTANTS
    Migrators,     \* runs of the command that may overlap
    Files,         \* the number of migration files, which are 1 .. Files
    MaxFailures    \* bound: how often the database or a command breaks

ASSUME FilesAssumption == Files \in Nat \ {0}
ASSUME FailuresBound == MaxFailures \in Nat

VARIABLES
    ensured,       \* the table schema_migrations exists
    recorded,      \* its rows
    effects,       \* how often the statements of a file were committed
    pc,            \* where each command is
    file,          \* the file it has come to
    failures

migrationVars == <<ensured, recorded, effects, pc, file, failures>>

FileSet == 1 .. Files
Stages == {"idle", "ensure", "check", "apply", "done", "lost", "broken"}

MigrationInit ==
    /\ ensured = FALSE
    /\ recorded = {}
    /\ effects = [f \in FileSet |-> 0]
    /\ pc = [m \in Migrators |-> "idle"]
    /\ file = [m \in Migrators |-> 1]
    /\ failures = 0

-----------------------------------------------------------------------------
\* The command is run, or run again after it failed.
StartMigration(m) ==
    /\ pc[m] \in {"idle", "lost", "broken"}
    /\ pc[m] # "idle" => failures < MaxFailures
    /\ failures' = IF pc[m] = "idle" THEN failures ELSE failures + 1
    /\ pc' = [pc EXCEPT ![m] = IF ensured THEN "check" ELSE "ensure"]
    /\ file' = [file EXCEPT ![m] = 1]
    /\ UNCHANGED <<ensured, recorded, effects>>

\* create table if not exists. Another command may be creating it too: the
\* server lets the second one find it or fails it.
EnsureTable(m) ==
    /\ pc[m] = "ensure"
    /\ ensured' = TRUE
    /\ \/ pc' = [pc EXCEPT ![m] = "check"]
       \/ ensured /\ pc' = [pc EXCEPT ![m] = "lost"]
    /\ UNCHANGED <<recorded, effects, file, failures>>

\* The command goes on to its next file, or has come to the end of them.
GoOn_PastTheEnd(m) ==
    /\ pc' = [pc EXCEPT ![m] = IF file[m] > Files THEN "done" ELSE "check"]
    /\ file' = [file EXCEPT ![m] = @ + 1]

GoOn(m) ==
    /\ pc' = [pc EXCEPT ![m] = IF file[m] = Files THEN "done" ELSE "check"]
    /\ file' = [file EXCEPT ![m] = IF @ = Files THEN @ ELSE @ + 1]

CheckRecorded_Fails(m) ==
    /\ pc[m] = "check"
    /\ pc' = [pc EXCEPT ![m] = IF file[m] \in recorded THEN "lost" ELSE "apply"]
    /\ UNCHANGED <<ensured, recorded, effects, file, failures>>

CheckRecorded(m) ==
    /\ pc[m] = "check"
    /\ IF file[m] \in recorded
       THEN GoOn(m)
       ELSE pc' = [pc EXCEPT ![m] = "apply"] /\ UNCHANGED file
    /\ UNCHANGED <<ensured, recorded, effects, failures>>

\* The file's statements and its row commit together.
ApplyFile_Repeats(m) ==
    /\ pc[m] = "apply"
    /\ recorded' = recorded \cup {file[m]}
    /\ effects' = [effects EXCEPT ![file[m]] = @ + 1]
    /\ GoOn(m)
    /\ UNCHANGED <<ensured, failures>>

ApplyFile(m) ==
    /\ pc[m] = "apply"
    /\ file[m] \notin recorded
    /\ recorded' = recorded \cup {file[m]}
    /\ effects' = [effects EXCEPT ![file[m]] = @ + 1]
    /\ GoOn(m)
    /\ UNCHANGED <<ensured, failures>>

\* Another command recorded the file meanwhile: the insert, or a statement of
\* the file before it, meets what that command committed. The transaction
\* rolls back and the command exits.
LoseFile(m) ==
    /\ pc[m] = "apply"
    /\ file[m] \in recorded
    /\ pc' = [pc EXCEPT ![m] = "lost"]
    /\ UNCHANGED <<ensured, recorded, effects, file, failures>>

\* The database fails a statement, the 30 s of the command are over, or its
\* process dies; what it had not committed is rolled back.
BreakOff(m) ==
    /\ pc[m] \in {"ensure", "check", "apply"}
    /\ failures < MaxFailures
    /\ failures' = failures + 1
    /\ pc' = [pc EXCEPT ![m] = "broken"]
    /\ UNCHANGED <<ensured, recorded, effects, file>>

MigrationStep(m) ==
    \/ EnsureTable(m)
    \/ CheckRecorded(m)
    \/ ApplyFile(m)
    \/ LoseFile(m)

MigrationNext ==
    \E m \in Migrators :
        \/ StartMigration(m)
        \/ MigrationStep(m)
        \/ BreakOff(m)

\* A command that is running goes on: nothing in it waits for ever, because
\* it ends by itself after 30 s (context.WithTimeout in cmd/migrate-db).
MigrationFairness == \A m \in Migrators : WF_migrationVars(MigrationStep(m))

MigrationSpec ==
    MigrationInit /\ [][MigrationNext]_migrationVars /\ MigrationFairness

-----------------------------------------------------------------------------
Migrated == recorded = FileSet
Running == {m \in Migrators : pc[m] \in {"ensure", "check", "apply"}}

MigrationTypeOK ==
    /\ ensured \in BOOLEAN
    /\ recorded \subseteq FileSet
    /\ effects \in [FileSet -> Nat]
    /\ pc \in [Migrators -> Stages]
    /\ file \in [Migrators -> FileSet]
    /\ failures \in 0 .. MaxFailures

\* Whatever commands overlap, break off and are run again, the database is
\* where the files up to some point, in their order, were each committed
\* exactly once, and a command that reports success left none out.
SchemaExact ==
    /\ \E n \in 0 .. Files : recorded = 1 .. n
    /\ \A f \in FileSet : effects[f] = IF f \in recorded THEN 1 ELSE 0
    /\ \A m \in Migrators : pc[m] = "done" => Migrated

\* Commands that only lose files to one another get the database migrated
\* all the same, because the winner of a file goes on to the next; only a
\* break can leave it half migrated.
MigrationsFinish ==
    (Running # {}) ~> (Migrated \/ \E m \in Migrators : pc[m] = "broken")

-----------------------------------------------------------------------------
\* A command has come to its file past files that are all recorded: with the
\* other two, this makes SchemaExact inductive.
InOrder ==
    \A m \in Migrators : pc[m] \in {"ensure", "check", "apply"} => 1 .. (file[m] - 1) \subseteq recorded

SchemaInv == MigrationTypeOK /\ SchemaExact /\ InOrder
=============================================================================
