---------------------------- MODULE ControlProofs ----------------------------
(***************************************************************************)
(* Proofs about what control-api keeps, in its database and in the memory  *)
(* of its processes.  The files a database has were each committed once    *)
(* and in their order; a rotation leaves one Active key, the one its       *)
(* application shows; that key is a row of its project; and a snapshot     *)
(* contains what a page follows through it.  Logouts are remembered and    *)
(* OAuth states serve once, for any number of processes, requests, tokens, *)
(* states and restarts.                                                    *)
(***************************************************************************)
EXTENDS ControlDatabase, Sessions, FiniteSetTheorems, FunctionTheorems,
        SequenceTheorems, TLAPS

-----------------------------------------------------------------------------
(* The commands.                                                           *)

LEMMA MigrationInitEstablishes ==
    ASSUME MigrationInit
    PROVE  SchemaInv
  <1>1. MigrationTypeOK
    <2>1. 1 \in FileSet /\ 0 \in 0 .. MaxFailures
      BY FilesAssumption, FailuresBound DEF FileSet
    <2> QED
      BY <2>1 DEF MigrationInit, MigrationTypeOK, Stages
  <1>2. recorded = 1 .. 0 /\ 0 \in 0 .. Files
    BY FilesAssumption DEF MigrationInit
  <1>3. SchemaExact
    BY <1>2 DEF MigrationInit, SchemaExact
  <1> QED
    BY <1>1, <1>3 DEF SchemaInv, InOrder, MigrationInit

\* The next file, or the end, after file[m] is recorded.
LEMMA GoOnKeeps ==
    ASSUME MigrationTypeOK, NEW m \in Migrators, GoOn(m), NEW n \in 0 .. Files, recorded' = 1 .. n,
           file[m] <= n
    PROVE  /\ pc' \in [Migrators -> Stages] /\ file' \in [Migrators -> FileSet]
           /\ \A o \in Migrators \ {m} : pc'[o] = pc[o] /\ file'[o] = file[o]
           /\ pc'[m] = "done" => n = Files
           /\ pc'[m] \in {"done", "check"}
           /\ 1 .. (file'[m] - 1) \subseteq recorded'
  <1>1. file[m] \in 1 .. Files
    BY DEF MigrationTypeOK, FileSet
  <1>2. CASE file[m] = Files
    BY <1>1, <1>2, FilesAssumption DEF GoOn, MigrationTypeOK, FileSet, Stages
  <1>3. CASE file[m] # Files
    BY <1>1, <1>3, FilesAssumption DEF GoOn, MigrationTypeOK, FileSet, Stages
  <1> QED
    BY <1>2, <1>3

\* A step that moves command m and records nothing, except to say it is done.
LEMMA MoveKeeps ==
    ASSUME SchemaInv, NEW m \in Migrators,
           UNCHANGED <<recorded, effects>>,
           ensured' \in BOOLEAN, failures' \in 0 .. MaxFailures,
           pc' \in [Migrators -> Stages], file' \in [Migrators -> FileSet],
           \A o \in Migrators \ {m} : pc'[o] = pc[o] /\ file'[o] = file[o],
           pc'[m] = "done" => Migrated,
           pc'[m] \in {"ensure", "check", "apply"} => 1 .. (file'[m] - 1) \subseteq recorded
    PROVE  SchemaInv'
  <1>1. MigrationTypeOK'
    BY DEF SchemaInv, MigrationTypeOK
  <1>2. \A o \in Migrators : pc'[o] = "done" => Migrated
    BY DEF SchemaInv, SchemaExact
  <1>3. SchemaExact'
    BY <1>2 DEF SchemaInv, SchemaExact, Migrated
  <1>4. InOrder'
    BY DEF SchemaInv, InOrder
  <1> QED
    BY <1>1, <1>3, <1>4 DEF SchemaInv

LEMMA CheckRecordedKeeps ==
    ASSUME SchemaInv, NEW m \in Migrators, CheckRecorded(m)
    PROVE  SchemaInv'
  <1>1. PICK n \in 0 .. Files : recorded = 1 .. n
    BY DEF SchemaInv, SchemaExact
  <1>2. /\ pc[m] = "check" /\ UNCHANGED <<ensured, recorded, effects, failures>>
        /\ ensured \in BOOLEAN /\ failures \in 0 .. MaxFailures
        /\ pc \in [Migrators -> Stages] /\ file \in [Migrators -> FileSet]
        /\ file[m] \in 1 .. Files
        /\ 1 .. (file[m] - 1) \subseteq recorded
    BY DEF CheckRecorded, SchemaInv, MigrationTypeOK, InOrder, FileSet
  <1>3. CASE file[m] \in recorded
    <2>1. file[m] <= n /\ recorded' = 1 .. n
      BY <1>1, <1>2, <1>3
    <2>2. GoOn(m)
      BY <1>3 DEF CheckRecorded
    <2>3. /\ pc' \in [Migrators -> Stages] /\ file' \in [Migrators -> FileSet]
          /\ \A o \in Migrators \ {m} : pc'[o] = pc[o] /\ file'[o] = file[o]
          /\ pc'[m] = "done" => n = Files
          /\ 1 .. (file'[m] - 1) \subseteq recorded'
      BY <2>1, <2>2, GoOnKeeps DEF SchemaInv
    <2>4. pc'[m] = "done" => Migrated
      BY <1>1, <2>3 DEF Migrated, FileSet
    <2> QED
      BY <1>2, <2>3, <2>4, MoveKeeps
  <1>4. CASE file[m] \notin recorded
    <2>1. pc' = [pc EXCEPT ![m] = "apply"] /\ file' = file
      BY <1>4 DEF CheckRecorded
    <2>2. /\ pc' \in [Migrators -> Stages] /\ pc'[m] = "apply"
          /\ \A o \in Migrators \ {m} : pc'[o] = pc[o]
      BY <1>2, <2>1 DEF Stages
    <2> QED
      BY <1>2, <2>1, <2>2, MoveKeeps
  <1> QED
    BY <1>3, <1>4

LEMMA ApplyFileKeeps ==
    ASSUME SchemaInv, NEW m \in Migrators, ApplyFile(m)
    PROVE  SchemaInv'
  <1>1. PICK n \in 0 .. Files : recorded = 1 .. n
    BY DEF SchemaInv, SchemaExact
  <1>2. /\ pc[m] = "apply" /\ file[m] \notin recorded /\ GoOn(m)
        /\ recorded' = recorded \cup {file[m]}
        /\ effects' = [effects EXCEPT ![file[m]] = @ + 1]
        /\ UNCHANGED <<ensured, failures>>
    BY DEF ApplyFile
  <1>3. /\ MigrationTypeOK /\ file[m] \in 1 .. Files
        /\ 1 .. (file[m] - 1) \subseteq recorded
    BY <1>2 DEF SchemaInv, MigrationTypeOK, InOrder, FileSet
  <1>4. file[m] = n + 1
    <2>1. file[m] > n
      BY <1>1, <1>2, <1>3
    <2>2. CASE file[m] > n + 1
      <3>1. n + 1 \in 1 .. (file[m] - 1)
        BY <1>3, <2>2
      <3> QED
        BY <1>1, <1>3, <3>1
    <2> QED
      BY <1>3, <2>1, <2>2
  <1>5. n + 1 \in 0 .. Files /\ recorded' = 1 .. (n + 1)
    BY <1>1, <1>2, <1>3, <1>4
  <1>6. /\ pc' \in [Migrators -> Stages] /\ file' \in [Migrators -> FileSet]
        /\ \A o \in Migrators \ {m} : pc'[o] = pc[o] /\ file'[o] = file[o]
        /\ pc'[m] = "done" => n + 1 = Files
        /\ pc'[m] \in {"done", "check"}
        /\ 1 .. (file'[m] - 1) \subseteq recorded'
    BY <1>2, <1>3, <1>4, <1>5, GoOnKeeps
  <1>7. MigrationTypeOK'
    <2>1. recorded' \subseteq FileSet
      BY <1>2, <1>3 DEF MigrationTypeOK, FileSet
    <2>2. effects' \in [FileSet -> Nat]
      <3>1. effects \in [FileSet -> Nat] /\ file[m] \in FileSet /\ effects[file[m]] + 1 \in Nat
        BY <1>3 DEF MigrationTypeOK, FileSet
      <3> QED
        BY <1>2, <3>1
    <2> QED
      BY <1>2, <1>3, <1>6, <2>1, <2>2 DEF MigrationTypeOK
  <1>8. \A f \in FileSet : effects'[f] = IF f \in recorded' THEN 1 ELSE 0
    <2>1. \A f \in FileSet : effects[f] = IF f \in recorded THEN 1 ELSE 0
      BY DEF SchemaInv, SchemaExact
    <2>2. effects \in [FileSet -> Nat]
      BY <1>3 DEF MigrationTypeOK
    <2> QED
      BY <1>2, <2>1, <2>2
  <1>9. \A o \in Migrators : pc'[o] = "done" => recorded' = FileSet
    <2>1. ASSUME NEW o \in Migrators \ {m} PROVE pc[o] # "done"
      <3>1. pc[o] = "done" => recorded = FileSet
        BY DEF SchemaInv, SchemaExact, Migrated
      <3> QED
        BY <1>2, <1>3, <3>1 DEF FileSet
    <2>2. pc'[m] = "done" => recorded' = FileSet
      BY <1>5, <1>6 DEF FileSet
    <2> QED
      BY <1>6, <2>1, <2>2
  <1>10. SchemaExact'
    BY <1>5, <1>8, <1>9 DEF SchemaExact, Migrated
  <1>11. InOrder'
    <2>1. \A o \in Migrators \ {m} :
             pc[o] \in {"ensure", "check", "apply"} => 1 .. (file[o] - 1) \subseteq recorded
      BY DEF SchemaInv, InOrder
    <2>2. recorded \subseteq recorded'
      BY <1>2
    <2> QED
      BY <1>6, <2>1, <2>2 DEF InOrder
  <1> QED
    BY <1>7, <1>10, <1>11 DEF SchemaInv

LEMMA MigrationKeeps ==
    ASSUME SchemaInv, MigrationNext
    PROVE  SchemaInv'
  <1>1. PICK m \in Migrators : StartMigration(m) \/ MigrationStep(m) \/ BreakOff(m)
    BY DEF MigrationNext
  <1>2. MigrationTypeOK /\ 1 \in FileSet
    BY FilesAssumption DEF SchemaInv, FileSet
  <1>3. CASE StartMigration(m)
    <2>1. UNCHANGED <<ensured, recorded, effects>> /\ ensured \in BOOLEAN
      BY <1>2, <1>3 DEF StartMigration, MigrationTypeOK
    <2>2. failures' \in 0 .. MaxFailures
      BY <1>2, <1>3, FailuresBound DEF StartMigration, MigrationTypeOK
    <2>3. /\ pc' \in [Migrators -> Stages] /\ file' \in [Migrators -> FileSet]
          /\ \A o \in Migrators \ {m} : pc'[o] = pc[o] /\ file'[o] = file[o]
          /\ pc'[m] # "done" /\ file'[m] = 1
      BY <1>2, <1>3 DEF StartMigration, MigrationTypeOK, Stages
    <2>4. 1 .. (file'[m] - 1) \subseteq recorded
      BY <2>3
    <2> QED
      BY <2>1, <2>2, <2>3, <2>4, MoveKeeps
  <1>4. CASE EnsureTable(m)
    <2>1. /\ pc' \in [Migrators -> Stages] /\ UNCHANGED <<recorded, effects, file, failures>>
          /\ \A o \in Migrators \ {m} : pc'[o] = pc[o]
          /\ pc'[m] # "done" /\ ensured' = TRUE
      BY <1>2, <1>4 DEF EnsureTable, MigrationTypeOK, Stages
    <2>2. 1 .. (file[m] - 1) \subseteq recorded
      BY <1>4 DEF SchemaInv, InOrder, EnsureTable
    <2> QED
      BY <1>2, <2>1, <2>2, MoveKeeps DEF MigrationTypeOK
  <1>5. CASE CheckRecorded(m)
    BY <1>5, CheckRecordedKeeps
  <1>6. CASE ApplyFile(m)
    BY <1>6, ApplyFileKeeps
  <1>7. CASE LoseFile(m)
    <2>1. /\ pc' \in [Migrators -> Stages]
          /\ UNCHANGED <<ensured, recorded, effects, file, failures>>
          /\ \A o \in Migrators \ {m} : pc'[o] = pc[o]
          /\ pc'[m] = "lost"
      BY <1>2, <1>7 DEF LoseFile, MigrationTypeOK, Stages
    <2> QED
      BY <1>2, <2>1, MoveKeeps DEF MigrationTypeOK
  <1>8. CASE BreakOff(m)
    <2>1. /\ pc' \in [Migrators -> Stages]
          /\ UNCHANGED <<ensured, recorded, effects, file>>
          /\ \A o \in Migrators \ {m} : pc'[o] = pc[o]
          /\ pc'[m] = "broken"
      BY <1>2, <1>8 DEF BreakOff, MigrationTypeOK, Stages
    <2>2. failures' \in 0 .. MaxFailures
      BY <1>2, <1>8, FailuresBound DEF BreakOff, MigrationTypeOK
    <2> QED
      BY <1>2, <2>1, <2>2, MoveKeeps DEF MigrationTypeOK
  <1> QED
    BY <1>1, <1>3, <1>4, <1>5, <1>6, <1>7, <1>8 DEF MigrationStep

-----------------------------------------------------------------------------
(* The tables.                                                             *)

AppRow == [name : AppNames, key : KeyNames, status : AppStatuses, seed : BOOLEAN]
KeyRow == [name : KeyNames, project : AppNames, status : KeyStatuses]

\* Rows lists the members of a finite set, each once.
LEMMA RowsListed ==
    ASSUME NEW S, IsFiniteSet(S)
    PROVE  /\ Rows(S) \in Seq(S)
           /\ \A i \in DOMAIN Rows(S) : Rows(S)[i] \in S
           /\ \A x \in S : \E i \in DOMAIN Rows(S) : Rows(S)[i] = x
           /\ \A i, j \in DOMAIN Rows(S) : Rows(S)[i] = Rows(S)[j] => i = j
  <1> DEFINE N == Cardinality(S)
  <1>1. N \in Nat /\ ExistsBijection(1 .. N, S)
    BY FS_CardinalityType
  <1>2. PICK f \in Bijection(1 .. N, S) : TRUE
    BY <1>1 DEF ExistsBijection
  <1>3. f \in [1 .. N -> S] /\ \A x \in S : \E i \in 1 .. N : f[i] = x
    BY <1>2 DEF Bijection, Injection, Surjection
  <1>4. {f[i] : i \in DOMAIN f} = S
    BY <1>3
  <1>5. Rows(S) \in [1 .. N -> S] /\ {Rows(S)[i] : i \in DOMAIN Rows(S)} = S
    BY <1>3, <1>4 DEF Rows
  <1>6. \A x \in S : \E i \in 1 .. N : Rows(S)[i] = x
    BY <1>5
  <1>7. Rows(S) \in Injection(1 .. N, S)
    <2>1. Rows(S) \in Surjection(1 .. N, S)
      BY <1>5, <1>6 DEF Surjection
    <2>2. IsFiniteSet(1 .. N) /\ Cardinality(1 .. N) = N
      BY <1>1, FS_Interval
    <2> QED
      BY <2>1, <2>2, FS_SurjSameCardinalityImpliesInj
  <1>8. \A i, j \in 1 .. N : Rows(S)[i] = Rows(S)[j] => i = j
    BY <1>7 DEF Injection, IsInjective
  <1> HIDE DEF N
  <1>9. Rows(S) \in Seq(S)
    BY <1>1, <1>5
  <1> QED
    BY <1>5, <1>6, <1>8, <1>9

\* There are finitely many demo rows.
LEMMA SeedsFinite == IsFiniteSet(SeedRows) /\ IsFiniteSet(SeedKeyRows)
  <1>1. IsFiniteSet(SeedRows)
    <2> DEFINE f == [n \in SeededApps |-> App(n, SeedKey(n), SeedStatus(n), TRUE)]
    <2>1. f \in Surjection(SeededApps, SeedRows)
      BY DEF Surjection, SeedRows
    <2> HIDE DEF f
    <2> QED
      BY <2>1, NamesAssumption, FS_Surjection
  <1>2. IsFiniteSet(SeedKeyRows)
    <2> DEFINE f == [n \in SeededKeys |-> Key(SeedKey(n), n, "Active")]
    <2>1. f \in Surjection(SeededKeys, SeedKeyRows)
      BY DEF Surjection, SeedKeyRows
    <2>2. IsFiniteSet(SeededKeys)
      BY NamesAssumption, SeedsAssumption, FS_Subset
    <2> HIDE DEF f
    <2> QED
      BY <2>1, <2>2, FS_Surjection
  <1> QED
    BY <1>1, <1>2

\* The names of keys.
LEMMA KeyNameTypes ==
    ASSUME NEW n \in AppNames
    PROVE  /\ NewKey(n) \in KeyNames /\ ClockKey(n) \in KeyNames
           /\ n \in SeededApps => SeedKey(n) \in KeyNames
           /\ store = "postgres" => \A o \in SeededKeys : NewKey(n) # SeedKey(o)
  <1>1. <<>> \in Seq(0 .. MaxSeconds)
    BY EmptySeq
  <1>2. SlugKey(n) \in KeyNames
    BY SlugAssumption DEF SlugKey, KeyNames
  <1>3. ClockKey(n) \in KeyNames
    BY <1>1 DEF ClockKey, KeyNames
  <1>4. n \in SeededApps => SeedKey(n) \in KeyNames
    BY <1>1 DEF SeedKey, KeyNames
  <1>5. store = "postgres" => \A o \in SeededKeys : NewKey(n) # SeedKey(o)
    BY DEF NewKey, ClockKey, SeedKey
  <1> QED
    BY <1>2, <1>3, <1>4, <1>5 DEF NewKey

\* No two demo applications have the same demo key.
LEMMA SeedKeysDiffer ==
    ASSUME NEW n \in SeededApps, NEW o \in SeededApps, SeedKey(n) = SeedKey(o)
    PROVE  n = o
  BY DemoSlugAssumption DEF SeedKey

LEMMA RotatedKeyType ==
    ASSUME NEW k \in KeyNames, NEW s \in 0 .. MaxSeconds
    PROVE  RotatedKey(k, s) \in KeyNames /\ \A n \in SeededKeys : RotatedKey(k, s) # SeedKey(n)
  <1>1. k.rotated \in Seq(0 .. MaxSeconds)
    BY DEF KeyNames
  <1>2. /\ Append(k.rotated, s) \in Seq(0 .. MaxSeconds)
        /\ Append(k.rotated, s) # <<>>
    BY <1>1
  <1>3. RotatedKey(k, s).rotated = Append(k.rotated, s) /\ RotatedKey(k, s) \in KeyNames
    BY <1>2 DEF RotatedKey, KeyNames
  <1>4. \A n \in SeededKeys : SeedKey(n).rotated = <<>>
    BY DEF SeedKey
  <1> QED
    BY <1>2, <1>3, <1>4

LEMMA SeedRowsTyped ==
    /\ SeedRows \subseteq AppRow
    /\ \A r \in SeedRows : r.name \in SeededApps
    /\ SeedKeyRows \subseteq KeyRow
    /\ \A r \in SeedKeyRows : r.project \in SeededKeys /\ r.name = SeedKey(r.project)
  <1>1. \A n \in SeededApps : SeedKey(n) \in KeyNames
    BY KeyNameTypes, SeedsAssumption
  <1>2. \A n \in AppNames : SeedStatus(n) \in AppStatuses
    BY DEF SeedStatus, AppStatuses
  <1>3. SeedRows \subseteq AppRow /\ \A r \in SeedRows : r.name \in SeededApps
    <2>1. ASSUME NEW n \in SeededApps
          PROVE  /\ App(n, SeedKey(n), SeedStatus(n), TRUE) \in AppRow
                 /\ App(n, SeedKey(n), SeedStatus(n), TRUE).name = n
      <3>1. n \in AppNames /\ SeedKey(n) \in KeyNames /\ SeedStatus(n) \in AppStatuses
        BY <1>1, <1>2, SeedsAssumption
      <3> QED
        BY <3>1 DEF App, AppRow
    <2> QED
      BY <2>1 DEF SeedRows
  <1>4. /\ SeedKeyRows \subseteq KeyRow
        /\ \A r \in SeedKeyRows : r.project \in SeededKeys /\ r.name = SeedKey(r.project)
    BY <1>1, SeedsAssumption DEF SeedKeyRows, Key, KeyRow, KeyStatuses
  <1> QED
    BY <1>3, <1>4

\* An update of the keys' status.
LEMMA StatusKept ==
    ASSUME keys \in Seq(KeyRow), NEW js, NEW s \in KeyStatuses
    PROVE  /\ WithStatus(js, s) \in Seq(KeyRow)
           /\ DOMAIN WithStatus(js, s) = DOMAIN keys
           /\ \A j \in DOMAIN keys :
                 /\ WithStatus(js, s)[j].name = keys[j].name
                 /\ WithStatus(js, s)[j].project = keys[j].project
                 /\ WithStatus(js, s)[j].status = IF j \in js THEN s ELSE keys[j].status
  <1>1. keys \in [1 .. Len(keys) -> KeyRow] /\ Len(keys) \in Nat /\ DOMAIN keys = 1 .. Len(keys)
    OBVIOUS
  <1>2. ASSUME NEW j \in DOMAIN keys
        PROVE  /\ WithStatus(js, s)[j] \in KeyRow
               /\ WithStatus(js, s)[j].name = keys[j].name
               /\ WithStatus(js, s)[j].project = keys[j].project
               /\ WithStatus(js, s)[j].status = IF j \in js THEN s ELSE keys[j].status
    BY <1>1 DEF WithStatus, KeyRow
  <1>3. WithStatus(js, s) \in [1 .. Len(keys) -> KeyRow]
    BY <1>1, <1>2 DEF WithStatus
  <1>4. WithStatus(js, s) \in Seq(KeyRow)
    BY <1>1, <1>3
  <1> QED
    BY <1>2, <1>4 DEF WithStatus

LEMMA Appended ==
    ASSUME NEW S, NEW q \in Seq(S), NEW e \in S
    PROVE  /\ Append(q, e) \in Seq(S)
           /\ DOMAIN q \subseteq DOMAIN Append(q, e)
           /\ \A i \in DOMAIN q : Append(q, e)[i] = q[i]
           /\ \A i \in DOMAIN Append(q, e) \ DOMAIN q : i = Len(q) + 1 /\ Append(q, e)[i] = e
  OBVIOUS

LEMMA Concatenated ==
    ASSUME NEW S, NEW q \in Seq(S), NEW r \in Seq(S)
    PROVE  /\ q \o r \in Seq(S)
           /\ DOMAIN q \subseteq DOMAIN (q \o r)
           /\ \A i \in DOMAIN q : (q \o r)[i] = q[i]
           /\ \A i \in DOMAIN (q \o r) \ DOMAIN q :
                 \E k \in DOMAIN r : i = Len(q) + k /\ (q \o r)[i] = r[k]
           /\ \A k \in DOMAIN r :
                 /\ Len(q) + k \in DOMAIN (q \o r) \ DOMAIN q
                 /\ (q \o r)[Len(q) + k] = r[k]
  <1>1. /\ q \o r \in Seq(S) /\ Len(q \o r) = Len(q) + Len(r)
        /\ \A i \in 1 .. Len(q) + Len(r) :
              (q \o r)[i] = IF i <= Len(q) THEN q[i] ELSE r[i - Len(q)]
    BY ConcatProperties
  <1>2. /\ DOMAIN q = 1 .. Len(q) /\ DOMAIN r = 1 .. Len(r) /\ DOMAIN (q \o r) = 1 .. Len(q \o r)
        /\ Len(q) \in Nat /\ Len(r) \in Nat
    BY <1>1, LenProperties
  <1>3. ASSUME NEW i \in DOMAIN (q \o r) \ DOMAIN q
        PROVE  \E k \in DOMAIN r : i = Len(q) + k /\ (q \o r)[i] = r[k]
    <2>1. /\ i - Len(q) \in 1 .. Len(r) /\ i \in 1 .. Len(q) + Len(r) /\ ~(i <= Len(q))
          /\ i = Len(q) + (i - Len(q))
      BY <1>1, <1>2
    <2> QED
      BY <1>1, <1>2, <2>1
  <1>4. ASSUME NEW k \in DOMAIN r
        PROVE  /\ Len(q) + k \in DOMAIN (q \o r) \ DOMAIN q
               /\ (q \o r)[Len(q) + k] = r[k]
    <2>1. /\ Len(q) + k \in 1 .. Len(q) + Len(r) /\ ~(Len(q) + k <= Len(q))
          /\ Len(q) + k - Len(q) = k
      BY <1>2
    <2> QED
      BY <1>1, <1>2, <2>1
  <1> QED
    BY <1>1, <1>2, <1>3, <1>4

TodoRow == [title : {"application", "user"} \X (AppNames \cup Emails),
            status : {"Pending", "Resolved"}]

UserRow == [email : Emails, status : {"Invited", "Active"}]

LEMMA TodosTyped ==
    ASSUME todos \in Seq(TodoRow), NEW title \in {"application", "user"} \X (AppNames \cup Emails)
    PROVE  Resolved(title) \in Seq(TodoRow) /\ Append(todos, Pending(title)) \in Seq(TodoRow)
  <1>1. Pending(title) \in TodoRow
    BY DEF Pending, TodoRow
  <1>2. todos \in [1 .. Len(todos) -> TodoRow] /\ Len(todos) \in Nat
        /\ DOMAIN todos = 1 .. Len(todos)
    OBVIOUS
  <1>3. ASSUME NEW t \in DOMAIN todos
        PROVE  (IF todos[t].title = title THEN [todos[t] EXCEPT !.status = "Resolved"]
                ELSE todos[t]) \in TodoRow
    BY <1>2 DEF TodoRow
  <1>4. Resolved(title) \in [1 .. Len(todos) -> TodoRow]
    BY <1>2, <1>3 DEF Resolved
  <1>5. Resolved(title) \in Seq(TodoRow)
    BY <1>2, <1>4
  <1> QED
    BY <1>1, <1>5

\* A step that makes no key of a retired name Active, and lets the
\* applications of these names show what they showed.
LEMMA Kept ==
    ASSUME AccessInv, AccessTypeOK', UNCHANGED store, retired' \subseteq retired,
           DOMAIN keys \subseteq DOMAIN keys',
           \A j \in DOMAIN keys :
              /\ keys'[j].name = keys[j].name /\ keys'[j].project = keys[j].project
              /\ keys'[j].status = "Active" =>
                    keys[j].status = "Active" \/ keys[j].project \notin retired',
           \A j \in DOMAIN keys' \ DOMAIN keys :
              /\ keys'[j].status = "Active" => keys'[j].project \notin retired'
              /\ store = "postgres" =>
                    \A n \in SeededKeys : keys'[j].name = SeedKey(n) => keys'[j].project = n,
           DOMAIN apps \subseteq DOMAIN apps',
           \A i \in DOMAIN apps :
              /\ apps'[i].name = apps[i].name /\ apps'[i].seed = apps[i].seed
              /\ apps[i].name \in retired' => apps'[i].key = apps[i].key,
           \A i \in DOMAIN apps' \ DOMAIN apps : apps'[i].seed => apps'[i].name \in SeededApps,
           \A c \in Clients : rotation'[c] # NoRotation => rotation'[c].app \in DOMAIN apps'
    PROVE  AccessInv'
  <1>1. ActiveShown'
    <2> SUFFICES ASSUME NEW n \in retired', NEW j \in DOMAIN keys',
                        keys'[j].project = n, keys'[j].status = "Active"
                 PROVE  /\ \A k \in DOMAIN keys' :
                              keys'[k].project = n /\ keys'[k].status = "Active" => k = j
                        /\ \E i \in DOMAIN apps' :
                              apps'[i].name = n /\ apps'[i].key = keys'[j].name
      BY DEF ActiveShown
    <2>1. ASSUME NEW k \in DOMAIN keys', keys'[k].project = n, keys'[k].status = "Active"
          PROVE  k \in DOMAIN keys /\ keys[k].project = n /\ keys[k].status = "Active"
      BY <2>1
    <2>2. n \in retired /\ j \in DOMAIN keys /\ keys[j].project = n /\ keys[j].status = "Active"
      BY <2>1
    <2>3. /\ \A k \in DOMAIN keys : keys[k].project = n /\ keys[k].status = "Active" => k = j
          /\ \E i \in DOMAIN apps : apps[i].name = n /\ apps[i].key = keys[j].name
      BY <2>2 DEF AccessInv, ActiveShown
    <2>4. \A k \in DOMAIN keys' : keys'[k].project = n /\ keys'[k].status = "Active" => k = j
      BY <2>1, <2>3
    <2>5. PICK i \in DOMAIN apps : apps[i].name = n /\ apps[i].key = keys[j].name
      BY <2>3
    <2>6. i \in DOMAIN apps' /\ apps'[i].name = n /\ apps'[i].key = keys'[j].name
      BY <2>2, <2>5
    <2> QED
      BY <2>4, <2>6
  <1>2. SeedsKept'
    <2>1. store = "postgres" =>
             \A j \in DOMAIN keys', n \in SeededKeys :
                keys'[j].name = SeedKey(n) => keys'[j].project = n
      BY DEF AccessInv, SeedsKept
    <2>2. \A i \in DOMAIN apps' : apps'[i].seed => apps'[i].name \in SeededApps
      BY DEF AccessInv, SeedsKept
    <2> QED
      BY <2>1, <2>2 DEF SeedsKept
  <1>3. RotationsRead'
    BY DEF RotationsRead
  <1> QED
    BY <1>1, <1>2, <1>3 DEF AccessInv

-----------------------------------------------------------------------------
(* The calls.                                                              *)

LEMMA Typed ==
    AccessTypeOK <=>
        /\ store \in Stores
        /\ apps \in Seq(AppRow) /\ keys \in Seq(KeyRow)
        /\ users \in Seq(UserRow)
        /\ todos \in Seq(TodoRow)
        /\ rotation \in [Clients -> [app : Nat, old : KeyNames, since : Nat]]
        /\ second \in 0 .. MaxSeconds
        /\ seeding \in {"idle", "keys"}
        /\ seedings \in 0 .. MaxSeedings
        /\ retired \subseteq AppNames /\ crossed \subseteq AppNames
  BY DEF AccessTypeOK, AppRow, KeyRow, UserRow, TodoRow

LEMMA AppFields ==
    ASSUME AccessTypeOK, NEW i \in DOMAIN apps
    PROVE  /\ apps[i] \in AppRow /\ apps[i].name \in AppNames /\ apps[i].key \in KeyNames
           /\ apps[i].status \in AppStatuses /\ apps[i].seed \in BOOLEAN
  <1>1. apps[i] \in AppRow
    BY Typed
  <1> QED
    BY <1>1 DEF AppRow

LEMMA CreateApplicationKeeps ==
    ASSUME AccessInv, NEW n \in AppNames, CreateApplication(n)
    PROVE  AccessInv'
  <1> DEFINE row == App(n, NewKey(n), "Provisioning", FALSE)
             key == Key(NewKey(n), n, "Provisioning")
  <1>1. /\ apps' = Append(apps, row) /\ keys' = Append(keys, key)
        /\ todos' = Append(todos, Pending(AppTodo(n)))
        /\ UNCHANGED <<store, users, rotation, second, seeding, seedings, retired, crossed>>
    BY DEF CreateApplication
  <1>2. /\ NewKey(n) \in KeyNames
        /\ store = "postgres" => \A o \in SeededKeys : NewKey(n) # SeedKey(o)
    BY KeyNameTypes
  <1>3. row \in AppRow /\ row.seed = FALSE
    BY <1>2 DEF App, AppRow, AppStatuses
  <1>4. key \in KeyRow /\ key.name = NewKey(n) /\ key.status = "Provisioning"
    BY <1>2 DEF Key, KeyRow, KeyStatuses
  <1>5. AppTodo(n) \in {"application", "user"} \X (AppNames \cup Emails)
    BY DEF AppTodo
  <1> HIDE DEF row, key
  <1>6. AccessTypeOK
    BY DEF AccessInv
  <1>7. /\ apps' \in Seq(AppRow) /\ DOMAIN apps \subseteq DOMAIN apps'
        /\ \A i \in DOMAIN apps : apps'[i] = apps[i]
        /\ \A i \in DOMAIN apps' \ DOMAIN apps : apps'[i] = row
    BY <1>1, <1>3, <1>6, Appended, Typed
  <1>8. /\ keys' \in Seq(KeyRow) /\ DOMAIN keys \subseteq DOMAIN keys'
        /\ \A j \in DOMAIN keys : keys'[j] = keys[j]
        /\ \A j \in DOMAIN keys' \ DOMAIN keys : keys'[j] = key
    BY <1>1, <1>4, <1>6, Appended, Typed
  <1>9. todos' \in Seq(TodoRow)
    BY <1>1, <1>5, <1>6, TodosTyped, Typed
  <1>10. AccessTypeOK'
    BY <1>1, <1>6, <1>7, <1>8, <1>9 DEF AccessTypeOK, AppRow, KeyRow, TodoRow
  <1>11. \A c \in Clients : rotation'[c] # NoRotation => rotation'[c].app \in DOMAIN apps'
    BY <1>1, <1>7 DEF AccessInv, RotationsRead
  <1> QED
    BY <1>1, <1>2, <1>3, <1>4, <1>7, <1>8, <1>10, <1>11, Kept

LEMMA ActivateApplicationKeeps ==
    ASSUME AccessInv, NEW i \in DOMAIN apps, ActivateApplication(i)
    PROVE  AccessInv'
  <1> DEFINE touched == Touched(apps[i].name, apps[i].key)
  <1>1. /\ apps' = [apps EXCEPT ![i].status = "Active"]
        /\ keys' = WithStatus(touched, "Active")
        /\ todos' = Resolved(AppTodo(apps[i].name))
        /\ retired' = retired \ {keys[j].project : j \in touched}
        /\ UNCHANGED <<store, users, rotation, second, seeding, seedings, crossed>>
    BY DEF ActivateApplication
  <1> HIDE DEF touched
  <1>2. AccessTypeOK /\ apps[i].name \in AppNames
    BY AppFields DEF AccessInv
  <1>3. /\ apps' \in Seq(AppRow) /\ DOMAIN apps' = DOMAIN apps
        /\ \A o \in DOMAIN apps : /\ apps'[o].name = apps[o].name /\ apps'[o].seed = apps[o].seed
                                  /\ apps'[o].key = apps[o].key
    <2>1. apps \in Seq(AppRow) /\ apps[i] \in AppRow /\ [apps[i] EXCEPT !.status = "Active"] \in AppRow
      BY <1>2, Typed, AppFields DEF AppRow, AppStatuses
    <2>2. apps' = [apps EXCEPT ![i] = [apps[i] EXCEPT !.status = "Active"]]
      BY <1>1
    <2>3. apps' \in Seq(AppRow) /\ DOMAIN apps' = DOMAIN apps
      BY <2>1, <2>2
    <2>4. ASSUME NEW o \in DOMAIN apps
          PROVE  /\ apps'[o].name = apps[o].name /\ apps'[o].seed = apps[o].seed
                 /\ apps'[o].key = apps[o].key
      <3>1. apps[o] \in AppRow
        BY <2>1
      <3> QED
        BY <2>2, <3>1 DEF AppRow
    <2> QED
      BY <2>3, <2>4
  <1>4. /\ keys' \in Seq(KeyRow) /\ DOMAIN keys' = DOMAIN keys
        /\ \A j \in DOMAIN keys :
              /\ keys'[j].name = keys[j].name /\ keys'[j].project = keys[j].project
              /\ keys'[j].status = IF j \in touched THEN "Active" ELSE keys[j].status
    BY <1>1, <1>2, Typed, StatusKept DEF KeyStatuses
  <1>5. todos' \in Seq(TodoRow)
    <2>1. AppTodo(apps[i].name) \in {"application", "user"} \X (AppNames \cup Emails)
      BY <1>2 DEF AppTodo
    <2> QED
      BY <1>1, <1>2, <2>1, TodosTyped, Typed
  <1>6. AccessTypeOK'
    BY <1>1, <1>2, <1>3, <1>4, <1>5 DEF AccessTypeOK, AppRow, KeyRow, TodoRow
  <1>7. \A c \in Clients : rotation'[c] # NoRotation => rotation'[c].app \in DOMAIN apps'
    BY <1>1, <1>3 DEF AccessInv, RotationsRead
  <1>8. \A j \in DOMAIN keys : j \in touched => keys[j].project \notin retired'
    BY <1>1
  <1> QED
    BY <1>1, <1>3, <1>4, <1>6, <1>7, <1>8, Kept

\* The writes of a rotation retire every other key of the name.
LEMMA WriteRotationKeeps ==
    ASSUME AccessInv, NEW i \in DOMAIN apps, NEW old \in KeyNames, NEW s \in 0 .. MaxSeconds,
           WriteRotation(i, old, s),
           rotation' \in [Clients -> [app : Nat, old : KeyNames, since : Nat]],
           \A c \in Clients : rotation'[c] = NoRotation \/ rotation'[c] = rotation[c]
    PROVE  AccessInv'
  <1> DEFINE new == RotatedKey(old, s)
             name == apps[i].name
             key == Key(new, name, "Active")
             left == Retire(i, old)
             gone == Touched(name, old)
  <1>1. /\ apps' = [apps EXCEPT ![i].key = new]
        /\ left = WithStatus(gone, "Rotated") /\ keys' = Append(left, key)
        /\ retired' = retired \cup {name}
        /\ crossed' \subseteq crossed \cup {name}
        /\ UNCHANGED <<store, users, todos, second, seeding, seedings>>
    BY DEF WriteRotation, Retire
  <1>2. new \in KeyNames /\ \A o \in SeededKeys : new # SeedKey(o)
    BY RotatedKeyType
  <1>3. AccessTypeOK /\ name \in AppNames /\ apps[i] \in AppRow
    BY AppFields DEF AccessInv
  <1>4. key \in KeyRow /\ key.name = new /\ key.project = name /\ key.status = "Active"
    BY <1>2, <1>3 DEF Key, KeyRow, KeyStatuses
  <1>5. \A j \in DOMAIN keys : keys[j].project = name => j \in gone
    BY DEF Touched
  <1> HIDE DEF new, key, left, gone
  <1>6. /\ apps' \in Seq(AppRow) /\ DOMAIN apps' = DOMAIN apps
        /\ \A o \in DOMAIN apps : apps'[o].name = apps[o].name /\ apps'[o].seed = apps[o].seed
        /\ \A o \in DOMAIN apps \ {i} : apps'[o].key = apps[o].key
        /\ apps'[i].key = new
    <2>1. apps \in Seq(AppRow) /\ [apps[i] EXCEPT !.key = new] \in AppRow
      BY <1>2, <1>3, Typed DEF AppRow
    <2>2. apps' = [apps EXCEPT ![i] = [apps[i] EXCEPT !.key = new]]
      BY <1>1
    <2>3. apps' \in Seq(AppRow) /\ DOMAIN apps' = DOMAIN apps
      BY <2>1, <2>2
    <2>4. \A o \in DOMAIN apps : apps[o] \in AppRow
      BY <2>1
    <2>5. apps'[i] = [apps[i] EXCEPT !.key = new] /\ \A o \in DOMAIN apps \ {i} : apps'[o] = apps[o]
      BY <2>1, <2>2
    <2>6. /\ apps'[i].name = apps[i].name /\ apps'[i].seed = apps[i].seed /\ apps'[i].key = new
      BY <1>3, <2>5 DEF AppRow
    <2> QED
      BY <2>3, <2>5, <2>6
  <1>7. /\ left \in Seq(KeyRow) /\ DOMAIN left = DOMAIN keys
        /\ \A j \in DOMAIN keys :
              /\ left[j].name = keys[j].name /\ left[j].project = keys[j].project
              /\ left[j].status = IF j \in gone THEN "Rotated" ELSE keys[j].status
    BY <1>1, <1>3, Typed, StatusKept DEF KeyStatuses
  <1>8. /\ keys' \in Seq(KeyRow) /\ DOMAIN keys \subseteq DOMAIN keys'
        /\ \A j \in DOMAIN keys : keys'[j] = left[j]
        /\ \A j \in DOMAIN keys' \ DOMAIN keys : j = Len(left) + 1 /\ keys'[j] = key
    BY <1>1, <1>4, <1>7, Appended
  <1>9. AccessTypeOK'
    <2>1. retired' \subseteq AppNames /\ crossed' \subseteq AppNames
      BY <1>1, <1>3 DEF AccessTypeOK
    <2> QED
      BY <1>1, <1>3, <1>6, <1>8, <2>1 DEF AccessTypeOK, AppRow, KeyRow
  <1>10. ActiveShown'
    <2> SUFFICES ASSUME NEW n \in retired', NEW j \in DOMAIN keys',
                        keys'[j].project = n, keys'[j].status = "Active"
                 PROVE  /\ \A k \in DOMAIN keys' :
                              keys'[k].project = n /\ keys'[k].status = "Active" => k = j
                        /\ \E o \in DOMAIN apps' :
                              apps'[o].name = n /\ apps'[o].key = keys'[j].name
      BY DEF ActiveShown
    <2>1. ASSUME NEW k \in DOMAIN keys, keys'[k].status = "Active"
          PROVE  k \notin gone /\ keys[k].status = "Active" /\ keys[k].project # name
      BY <1>5, <1>7, <1>8, <2>1
    <2>2. CASE n = name
      <3>1. \A k \in DOMAIN keys' : keys'[k].project = n /\ keys'[k].status = "Active"
                                       => k \notin DOMAIN keys
        BY <1>7, <1>8, <2>1, <2>2
      <3>2. j \notin DOMAIN keys /\ keys'[j] = key
        BY <1>8, <3>1
      <3>3. \A k \in DOMAIN keys' : keys'[k].project = n /\ keys'[k].status = "Active" => k = j
        BY <1>8, <3>1, <3>2
      <3>4. i \in DOMAIN apps' /\ apps'[i].name = n /\ apps'[i].key = keys'[j].name
        BY <1>4, <1>6, <2>2, <3>2
      <3> QED
        BY <3>3, <3>4
    <2>3. CASE n # name
      <3>1. ASSUME NEW k \in DOMAIN keys', keys'[k].project = n, keys'[k].status = "Active"
            PROVE  k \in DOMAIN keys /\ keys[k].project = n /\ keys[k].status = "Active"
        <4>1. k \in DOMAIN keys
          BY <1>4, <1>8, <2>3, <3>1
        <4> QED
          BY <1>7, <1>8, <2>1, <3>1, <4>1
      <3>2. n \in retired /\ j \in DOMAIN keys /\ keys[j].project = n /\ keys[j].status = "Active"
        BY <1>1, <2>3, <3>1
      <3>3. \A k \in DOMAIN keys' : keys'[k].project = n /\ keys'[k].status = "Active" => k = j
        BY <3>1, <3>2 DEF AccessInv, ActiveShown
      <3>4. PICK o \in DOMAIN apps : apps[o].name = n /\ apps[o].key = keys[j].name
        BY <3>2 DEF AccessInv, ActiveShown
      <3>5. o # i /\ o \in DOMAIN apps' /\ apps'[o].name = n /\ apps'[o].key = keys'[j].name
        BY <1>6, <1>7, <1>8, <2>3, <3>2, <3>4
      <3> QED
        BY <3>3, <3>5
    <2> QED
      BY <2>2, <2>3
  <1>11. SeedsKept'
    <2>1. ASSUME store = "postgres",
                 NEW j \in DOMAIN keys', NEW n \in SeededKeys, keys'[j].name = SeedKey(n)
          PROVE  keys'[j].project = n
      <3>1. j \in DOMAIN keys
        BY <1>2, <1>4, <1>8, <2>1
      <3> QED
        BY <1>7, <1>8, <2>1, <3>1 DEF AccessInv, SeedsKept
    <2>2. \A o \in DOMAIN apps' : apps'[o].seed => apps'[o].name \in SeededApps
      BY <1>6 DEF AccessInv, SeedsKept
    <2> QED
      BY <1>1, <2>1, <2>2 DEF SeedsKept
  <1>12. RotationsRead'
    BY <1>6 DEF AccessInv, RotationsRead
  <1> QED
    BY <1>9, <1>10, <1>11, <1>12 DEF AccessInv

\* Calls that leave applications and the retired names alone, and of the keys
\* change at most the status of some to Revoked.
LEMMA QuietKeeps ==
    ASSUME AccessInv, AccessTypeOK', UNCHANGED <<store, apps, retired>>,
           keys' = keys \/ \E j \in DOMAIN keys : keys' = WithStatus({j}, "Revoked"),
           \A c \in Clients : rotation'[c] # NoRotation =>
              rotation'[c].app \in DOMAIN apps \/ rotation'[c] = rotation[c]
    PROVE  AccessInv'
  <1>1. keys \in Seq(KeyRow)
    BY Typed DEF AccessInv
  <1>2. /\ DOMAIN keys' = DOMAIN keys
        /\ \A j \in DOMAIN keys :
              /\ keys'[j].name = keys[j].name /\ keys'[j].project = keys[j].project
              /\ keys'[j].status = "Active" => keys[j].status = "Active"
    <2>1. CASE keys' = keys
      BY <2>1
    <2>2. ASSUME NEW j \in DOMAIN keys, keys' = WithStatus({j}, "Revoked")
          PROVE  /\ DOMAIN keys' = DOMAIN keys
                 /\ \A k \in DOMAIN keys :
                       /\ keys'[k].name = keys[k].name /\ keys'[k].project = keys[k].project
                       /\ keys'[k].status = "Active" => keys[k].status = "Active"
      <3>1. "Revoked" \in KeyStatuses
        BY DEF KeyStatuses
      <3>2. /\ DOMAIN WithStatus({j}, "Revoked") = DOMAIN keys
            /\ \A k \in DOMAIN keys :
                  /\ WithStatus({j}, "Revoked")[k].name = keys[k].name
                  /\ WithStatus({j}, "Revoked")[k].project = keys[k].project
                  /\ WithStatus({j}, "Revoked")[k].status =
                        IF k \in {j} THEN "Revoked" ELSE keys[k].status
        BY <1>1, <3>1, StatusKept
      <3> QED
        BY <2>2, <3>2
    <2> QED
      BY <2>1, <2>2
  <1>3. \A c \in Clients : rotation'[c] # NoRotation => rotation'[c].app \in DOMAIN apps'
    BY DEF AccessInv, RotationsRead
  <1> QED
    BY <1>2, <1>3, Kept

LEMMA NoRotationTyped == NoRotation \in [app : Nat, old : KeyNames, since : Nat]
  <1>1. (CHOOSE n \in AppNames : TRUE) \in AppNames
    BY NamesAssumption
  <1>2. ClockKey(CHOOSE n \in AppNames : TRUE) \in KeyNames
    BY <1>1, KeyNameTypes
  <1> QED
    BY <1>2 DEF NoRotation

LEMMA ReadForRotationKeeps ==
    ASSUME AccessInv, NEW c \in Clients, NEW i \in DOMAIN apps, ReadForRotation(c, i)
    PROVE  AccessInv'
  <1> DEFINE read == [app |-> i, old |-> apps[i].key, since |-> second]
  <1>1. /\ rotation' = [rotation EXCEPT ![c] = read]
        /\ UNCHANGED <<store, apps, keys, users, todos, second, seeding, seedings, retired, crossed>>
    BY DEF ReadForRotation
  <1>2. AccessTypeOK /\ apps[i].key \in KeyNames
    BY AppFields DEF AccessInv
  <1>3. i \in Nat /\ second \in Nat
    BY <1>2, AccessBounds DEF AccessTypeOK
  <1>4. read \in [app : Nat, old : KeyNames, since : Nat] /\ read.app \in DOMAIN apps
    BY <1>2, <1>3
  <1> HIDE DEF read
  <1>5. rotation' \in [Clients -> [app : Nat, old : KeyNames, since : Nat]]
    BY <1>1, <1>2, <1>4 DEF AccessTypeOK
  <1>6. AccessTypeOK'
    BY <1>1, <1>2, <1>5 DEF AccessTypeOK
  <1>7. \A o \in Clients : rotation'[o] = rotation[o] \/ rotation'[o] = read
    BY <1>1, <1>2 DEF AccessTypeOK
  <1> QED
    BY <1>1, <1>4, <1>6, <1>7, QuietKeeps

LEMMA RevokeAPIKeyKeeps ==
    ASSUME AccessInv, NEW j \in DOMAIN keys, RevokeAPIKey(j)
    PROVE  AccessInv'
  <1>1. /\ keys' = WithStatus({j}, "Revoked")
        /\ UNCHANGED <<store, apps, users, todos, rotation, second, seeding, seedings,
                       retired, crossed>>
    BY DEF RevokeAPIKey
  <1>2. AccessTypeOK
    BY DEF AccessInv
  <1>3. keys' \in Seq(KeyRow)
    BY <1>1, <1>2, Typed, StatusKept DEF KeyStatuses
  <1>4. AccessTypeOK'
    BY <1>1, <1>2, <1>3 DEF AccessTypeOK, KeyRow
  <1> QED
    BY <1>1, <1>4, QuietKeeps

LEMMA CreateUserKeeps ==
    ASSUME AccessInv, NEW e \in Emails, CreateUser(e)
    PROVE  AccessInv'
  <1>1. /\ users' = Append(users, [email |-> e, status |-> "Invited"])
        /\ todos' = Append(todos, Pending(UserTodo(e)))
        /\ UNCHANGED <<store, apps, keys, rotation, second, seeding, seedings, retired, crossed>>
    BY DEF CreateUser
  <1>2. AccessTypeOK
    BY DEF AccessInv
  <1>3. UserTodo(e) \in {"application", "user"} \X (AppNames \cup Emails)
    BY DEF UserTodo
  <1>4. todos' \in Seq(TodoRow)
    BY <1>1, <1>2, <1>3, TodosTyped, Typed
  <1>5. [email |-> e, status |-> "Invited"] \in UserRow
    BY DEF UserRow
  <1>6. users' \in Seq(UserRow)
    BY <1>1, <1>2, <1>5, Appended, Typed
  <1>7. AccessTypeOK'
    BY <1>1, <1>2, <1>4, <1>6 DEF AccessTypeOK, TodoRow, UserRow
  <1> QED
    BY <1>1, <1>7, QuietKeeps

LEMMA ActivateUserKeeps ==
    ASSUME AccessInv, NEW u \in DOMAIN users, ActivateUser(u)
    PROVE  AccessInv'
  <1>1. /\ users' = [users EXCEPT ![u].status = "Active"]
        /\ todos' = Resolved(UserTodo(users[u].email))
        /\ UNCHANGED <<store, apps, keys, rotation, second, seeding, seedings, retired, crossed>>
    BY DEF ActivateUser
  <1>2. AccessTypeOK /\ users \in Seq(UserRow)
    BY Typed DEF AccessInv
  <1>3. users[u] \in UserRow
    BY <1>2
  <1>4. UserTodo(users[u].email) \in {"application", "user"} \X (AppNames \cup Emails)
    BY <1>3 DEF UserTodo, UserRow
  <1>5. todos' \in Seq(TodoRow)
    BY <1>1, <1>2, <1>4, TodosTyped, Typed
  <1>6. [users[u] EXCEPT !.status = "Active"] \in UserRow
    BY <1>3 DEF UserRow
  <1>7. users' \in Seq(UserRow)
    <2>1. users' = [users EXCEPT ![u] = [users[u] EXCEPT !.status = "Active"]]
      BY <1>1
    <2> QED
      BY <1>2, <1>6, <2>1
  <1>8. AccessTypeOK'
    BY <1>1, <1>2, <1>5, <1>7 DEF AccessTypeOK, TodoRow, UserRow
  <1> QED
    BY <1>1, <1>8, QuietKeeps

LEMMA ResolveTodoKeeps ==
    ASSUME AccessInv, NEW t \in DOMAIN todos, ResolveTodo(t)
    PROVE  AccessInv'
  <1>1. /\ todos' = [todos EXCEPT ![t] = [todos[t] EXCEPT !.status = "Resolved"]]
        /\ UNCHANGED <<store, apps, keys, users, rotation, second, seeding, seedings,
                       retired, crossed>>
    BY DEF ResolveTodo
  <1>2. AccessTypeOK /\ todos \in Seq(TodoRow)
    BY Typed DEF AccessInv
  <1>3. [todos[t] EXCEPT !.status = "Resolved"] \in TodoRow
    <2>1. todos[t] \in TodoRow
      BY <1>2
    <2> QED
      BY <2>1 DEF TodoRow
  <1>4. todos' \in Seq(TodoRow)
    BY <1>1, <1>2, <1>3
  <1>5. AccessTypeOK'
    BY <1>1, <1>2, <1>4 DEF AccessTypeOK, TodoRow
  <1> QED
    BY <1>1, <1>5, QuietKeeps

LEMMA CallKeeps ==
    ASSUME AccessInv, AccessCall
    PROVE  AccessInv'
  <1>1. ASSUME NEW i \in DOMAIN apps, RotateInMemory(i)
        PROVE  AccessInv'
    <2>1. WriteRotation(i, apps[i].key, second) /\ rotation' = rotation
      BY <1>1 DEF RotateInMemory
    <2>2. apps[i].key \in KeyNames /\ second \in 0 .. MaxSeconds
          /\ rotation \in [Clients -> [app : Nat, old : KeyNames, since : Nat]]
      BY AppFields DEF AccessInv, AccessTypeOK
    <2> QED
      BY <2>1, <2>2, WriteRotationKeeps
  <1> QED
    BY <1>1, CreateApplicationKeeps, ActivateApplicationKeeps, ReadForRotationKeeps,
       RevokeAPIKeyKeeps, CreateUserKeeps, ActivateUserKeeps, ResolveTodoKeeps DEF AccessCall

-----------------------------------------------------------------------------
(* The rest: the end of rotations, seed-db, time.                          *)

LEMMA CommitRotationKeeps ==
    ASSUME AccessInv, NEW c \in Clients, CommitRotation(c)
    PROVE  AccessInv'
  <1>1. PICK s \in rotation[c].since .. second :
           WriteRotation(rotation[c].app, rotation[c].old, s)
    BY DEF CommitRotation
  <1>2. /\ rotation[c] # NoRotation /\ rotation' = [rotation EXCEPT ![c] = NoRotation]
        /\ rotation \in [Clients -> [app : Nat, old : KeyNames, since : Nat]]
        /\ second \in 0 .. MaxSeconds
    BY DEF CommitRotation, AccessInv, AccessTypeOK
  <1>3. /\ rotation[c].app \in DOMAIN apps /\ rotation[c].old \in KeyNames
        /\ rotation[c].since \in Nat
    BY <1>2 DEF AccessInv, RotationsRead
  <1>4. s \in 0 .. MaxSeconds
    BY <1>1, <1>2, <1>3, AccessBounds
  <1>5. /\ rotation' \in [Clients -> [app : Nat, old : KeyNames, since : Nat]]
        /\ \A o \in Clients : rotation'[o] = NoRotation \/ rotation'[o] = rotation[o]
    BY <1>2, NoRotationTyped
  <1> QED
    BY <1>1, <1>3, <1>4, <1>5, WriteRotationKeeps

LEMMA AbortRotationKeeps ==
    ASSUME AccessInv, NEW c \in Clients, AbortRotation(c)
    PROVE  AccessInv'
  <1>1. /\ rotation' = [rotation EXCEPT ![c] = NoRotation]
        /\ UNCHANGED <<store, apps, keys, users, todos, second, seeding, seedings, retired, crossed>>
    BY DEF AbortRotation
  <1>2. AccessTypeOK /\ rotation \in [Clients -> [app : Nat, old : KeyNames, since : Nat]]
    BY DEF AccessInv, AccessTypeOK
  <1>3. /\ rotation' \in [Clients -> [app : Nat, old : KeyNames, since : Nat]]
        /\ \A o \in Clients : rotation'[o] = NoRotation \/ rotation'[o] = rotation[o]
    BY <1>1, <1>2, NoRotationTyped
  <1>4. AccessTypeOK'
    BY <1>1, <1>2, <1>3 DEF AccessTypeOK
  <1> QED
    BY <1>1, <1>3, <1>4, QuietKeeps

\* seed-db makes keys Active of demo names only, which it takes out of the
\* retired ones.
LEMMA SeedAccessKeysKeeps ==
    ASSUME AccessInv, SeedAccessKeys
    PROVE  AccessInv'
  <1> DEFINE present == {j \in DOMAIN keys : keys[j].name \in {SeedKey(n) : n \in SeededKeys}}
             missing == {k \in SeedKeyRows : \A j \in DOMAIN keys : keys[j].name # k.name}
             left == WithStatus(present, "Active")
  <1>1. /\ store = "postgres"
        /\ seedings < MaxSeedings /\ seedings' = seedings + 1 /\ seeding' = "keys"
        /\ keys' = left \o Rows(missing)
        /\ retired' = retired \ SeededKeys
        /\ UNCHANGED <<store, apps, users, todos, rotation, second, crossed>>
    BY DEF SeedAccessKeys
  <1>2. AccessTypeOK /\ keys \in Seq(KeyRow)
    BY Typed DEF AccessInv
  <1>3. \A j \in present : keys[j].project \in SeededKeys
    BY <1>1 DEF AccessInv, SeedsKept
  <1>4. missing \subseteq SeedKeyRows /\ IsFiniteSet(missing)
    BY SeedsFinite, FS_Subset
  <1> HIDE DEF present, missing
  <1>5. Rows(missing) \in Seq(missing) /\ \A i \in DOMAIN Rows(missing) : Rows(missing)[i] \in missing
    BY <1>4, RowsListed
  <1>6. missing \subseteq KeyRow
        /\ \A r \in missing : r.project \in SeededKeys /\ r.name = SeedKey(r.project)
    BY <1>4, SeedRowsTyped
  <1>7. Rows(missing) \in Seq(KeyRow)
    BY <1>5, <1>6, SeqMonotonic
  <1>8. /\ left \in Seq(KeyRow) /\ DOMAIN left = DOMAIN keys
        /\ \A j \in DOMAIN keys :
              /\ left[j].name = keys[j].name /\ left[j].project = keys[j].project
              /\ left[j].status = IF j \in present THEN "Active" ELSE keys[j].status
    BY <1>2, StatusKept DEF KeyStatuses
  <1> HIDE DEF left
  <1>9. /\ keys' \in Seq(KeyRow) /\ DOMAIN keys \subseteq DOMAIN keys'
        /\ \A j \in DOMAIN keys : keys'[j] = left[j]
        /\ \A j \in DOMAIN keys' \ DOMAIN keys : keys'[j] \in missing
    BY <1>1, <1>5, <1>7, <1>8, Concatenated
  <1>10. AccessTypeOK'
    <2>1. seedings' \in 0 .. MaxSeedings
      BY <1>1, <1>2, AccessBounds DEF AccessTypeOK
    <2> QED
      BY <1>1, <1>2, <1>9, <2>1 DEF AccessTypeOK, KeyRow
  <1>11. \A j \in DOMAIN keys :
            /\ keys'[j].name = keys[j].name /\ keys'[j].project = keys[j].project
            /\ keys'[j].status = "Active" =>
                  keys[j].status = "Active" \/ keys[j].project \notin retired'
    BY <1>1, <1>3, <1>8, <1>9
  <1>12. ASSUME NEW j \in DOMAIN keys' \ DOMAIN keys
         PROVE  /\ keys'[j].project \notin retired'
                /\ \A n \in SeededKeys : keys'[j].name = SeedKey(n) => keys'[j].project = n
    <2>1. keys'[j].project \in SeededKeys /\ keys'[j].name = SeedKey(keys'[j].project)
      BY <1>6, <1>9
    <2>2. \A n \in SeededKeys : SeedKey(n) = SeedKey(keys'[j].project) => keys'[j].project = n
      BY <2>1, SeedKeysDiffer, SeedsAssumption
    <2> QED
      BY <1>1, <2>1, <2>2
  <1>13. \A c \in Clients : rotation'[c] # NoRotation => rotation'[c].app \in DOMAIN apps'
    BY <1>1 DEF AccessInv, RotationsRead
  <1> QED
    BY <1>1, <1>9, <1>10, <1>11, <1>12, <1>13, Kept

\* seed-db puts back the key of demo applications only.
LEMMA SeedApplicationsKeeps ==
    ASSUME AccessInv, SeedApplications
    PROVE  AccessInv'
  <1> DEFINE present == {i \in DOMAIN apps : apps[i].seed}
             missing == {r \in SeedRows : \A i \in present : apps[i].name # r.name}
             left == [i \in DOMAIN apps |->
                        IF i \in present
                        THEN [apps[i] EXCEPT !.key = SeedKey(apps[i].name),
                                             !.status = SeedStatus(apps[i].name)]
                        ELSE apps[i]]
  <1>1. /\ seeding' = "idle" /\ apps' = left \o Rows(missing)
        /\ retired' = retired \ SeededApps
        /\ UNCHANGED <<store, keys, users, todos, rotation, second, seedings, crossed>>
    BY DEF SeedApplications
  <1>2. AccessTypeOK /\ apps \in Seq(AppRow)
    BY Typed DEF AccessInv
  <1>3. \A i \in present : apps[i].name \in SeededApps
    BY DEF AccessInv, SeedsKept
  <1>4. missing \subseteq SeedRows /\ IsFiniteSet(missing)
    BY SeedsFinite, FS_Subset
  <1> HIDE DEF present, missing
  <1>5. Rows(missing) \in Seq(missing) /\ \A i \in DOMAIN Rows(missing) : Rows(missing)[i] \in missing
    BY <1>4, RowsListed
  <1>6. missing \subseteq AppRow /\ \A r \in missing : r.name \in SeededApps
    BY <1>4, SeedRowsTyped
  <1>7. Rows(missing) \in Seq(AppRow)
    BY <1>5, <1>6, SeqMonotonic
  <1>8. ASSUME NEW i \in DOMAIN apps
        PROVE  /\ left[i] \in AppRow
               /\ left[i].name = apps[i].name /\ left[i].seed = apps[i].seed
               /\ i \notin present => left[i].key = apps[i].key
    <2>1. apps[i] \in AppRow /\ apps[i].name \in AppNames
      BY <1>2, AppFields
    <2>2. i \in present =>
             SeedKey(apps[i].name) \in KeyNames /\ SeedStatus(apps[i].name) \in AppStatuses
      BY <1>3, <2>1, KeyNameTypes DEF SeedStatus, AppStatuses
    <2> QED
      BY <2>1, <2>2 DEF AppRow
  <1>9. DOMAIN left = DOMAIN apps /\ DOMAIN apps = 1 .. Len(apps) /\ Len(apps) \in Nat
    BY <1>2
  <1>10. left \in [1 .. Len(apps) -> AppRow]
    BY <1>8, <1>9
  <1> HIDE DEF left
  <1>11. left \in Seq(AppRow)
    BY <1>9, <1>10
  <1>12. /\ apps' \in Seq(AppRow) /\ DOMAIN apps \subseteq DOMAIN apps'
         /\ \A i \in DOMAIN apps : apps'[i] = left[i]
         /\ \A i \in DOMAIN apps' \ DOMAIN apps : apps'[i] \in missing
    BY <1>1, <1>5, <1>7, <1>9, <1>11, Concatenated
  <1>13. AccessTypeOK'
    BY <1>1, <1>2, <1>12 DEF AccessTypeOK, AppRow
  <1>14. \A i \in DOMAIN apps :
            /\ apps'[i].name = apps[i].name /\ apps'[i].seed = apps[i].seed
            /\ apps[i].name \in retired' => apps'[i].key = apps[i].key
    BY <1>1, <1>3, <1>8, <1>12
  <1>15. \A c \in Clients : rotation'[c] # NoRotation => rotation'[c].app \in DOMAIN apps'
    BY <1>1, <1>12 DEF AccessInv, RotationsRead
  <1> QED
    BY <1>1, <1>6, <1>12, <1>13, <1>14, <1>15, Kept

LEMMA RestKeeps ==
    ASSUME AccessInv, AccessRest
    PROVE  AccessInv'
  <1>1. CASE StopSeeding
    <2>1. /\ UNCHANGED <<store, apps, keys, users, todos, rotation, second, seedings,
                         retired, crossed>>
          /\ seeding' = "idle"
      BY <1>1 DEF StopSeeding
    <2>2. AccessTypeOK'
      BY <2>1 DEF AccessInv, AccessTypeOK
    <2> QED
      BY <2>1, <2>2, QuietKeeps
  <1>2. CASE NextSecond
    <2>1. /\ UNCHANGED <<store, apps, keys, users, todos, rotation, seeding, seedings,
                         retired, crossed>>
          /\ second < MaxSeconds /\ second' = second + 1
      BY <1>2 DEF NextSecond
    <2>2. second' \in 0 .. MaxSeconds
      BY <2>1, AccessBounds DEF AccessInv, AccessTypeOK
    <2>3. AccessTypeOK'
      BY <2>1, <2>2 DEF AccessInv, AccessTypeOK
    <2> QED
      BY <2>1, <2>3, QuietKeeps
  <1> QED
    BY <1>1, <1>2, CommitRotationKeeps, AbortRotationKeeps, SeedAccessKeysKeeps,
       SeedApplicationsKeeps DEF AccessRest

LEMMA AccessInitEstablishes ==
    ASSUME AccessInit
    PROVE  AccessInv
  <1>1. /\ Rows(SeedRows) \in Seq(SeedRows)
        /\ \A i \in DOMAIN Rows(SeedRows) : Rows(SeedRows)[i] \in SeedRows
        /\ Rows(SeedKeyRows) \in Seq(SeedKeyRows)
        /\ \A j \in DOMAIN Rows(SeedKeyRows) : Rows(SeedKeyRows)[j] \in SeedKeyRows
    BY SeedsFinite, RowsListed
  <1>2. Rows(SeedRows) \in Seq(AppRow) /\ Rows(SeedKeyRows) \in Seq(KeyRow)
    BY <1>1, SeedRowsTyped, SeqMonotonic
  <1>3. /\ store \in Stores
        /\ apps = Rows(SeedRows) \/ apps = <<>>
        /\ keys = Rows(SeedKeyRows) \/ keys = <<>>
        /\ users = <<>> /\ todos = <<>>
        /\ rotation = [c \in Clients |-> NoRotation]
        /\ second = 0 /\ seeding = "idle" /\ seedings = 0 /\ retired = {} /\ crossed = {}
    BY DEF AccessInit
  <1>4. AccessTypeOK
    <2>1. apps \in Seq(AppRow) /\ keys \in Seq(KeyRow) /\ users \in Seq(UserRow)
          /\ todos \in Seq(TodoRow)
      BY <1>2, <1>3, EmptySeq
    <2>2. rotation \in [Clients -> [app : Nat, old : KeyNames, since : Nat]]
      BY <1>3, NoRotationTyped
    <2>3. second \in 0 .. MaxSeconds /\ seedings \in 0 .. MaxSeedings
      BY <1>3, AccessBounds
    <2> QED
      BY <1>3, <2>1, <2>2, <2>3 DEF AccessTypeOK, AppRow, KeyRow, UserRow, TodoRow
  <1>5. SeedsKept
    <2>1. ASSUME NEW j \in DOMAIN keys, NEW n \in SeededKeys, keys[j].name = SeedKey(n)
          PROVE  keys[j].project = n
      <3>1. keys = Rows(SeedKeyRows)
        BY <1>3, <2>1
      <3>2. keys[j].project \in SeededKeys /\ keys[j].name = SeedKey(keys[j].project)
        BY <1>1, <3>1, SeedRowsTyped
      <3> QED
        BY <2>1, <3>2, SeedKeysDiffer, SeedsAssumption
    <2>2. ASSUME NEW i \in DOMAIN apps PROVE apps[i].name \in SeededApps
      <3>1. apps = Rows(SeedRows)
        BY <1>3, <2>2
      <3> QED
        BY <1>1, <3>1, SeedRowsTyped
    <2> QED
      BY <2>1, <2>2 DEF SeedsKept
  <1>6. ActiveShown
    BY <1>3 DEF ActiveShown
  <1>7. RotationsRead
    BY <1>3 DEF RotationsRead
  <1> QED
    BY <1>4, <1>5, <1>6, <1>7 DEF AccessInv

-----------------------------------------------------------------------------
(* The composition.                                                        *)

Snapshots ==
    [at : 0 .. 4, users : Seq(UserRow), apps : Seq(AppRow), keys : Seq(KeyRow),
     todos : Seq(TodoRow)]

ControlInv ==
    /\ AccessInv
    /\ SchemaInv
    /\ up \in BOOLEAN
    /\ snapshot \in Snapshots
    /\ calls \in 0 .. MaxCalls

LEMMA FourTables == Len(Tables) = 4
  BY DEF Tables

\* Copies add only rows of the tables.
LEMMA CopyTyped ==
    ASSUME NEW s \in Snapshots, s.at \in 1 .. 4,
           users \in Seq(UserRow), apps \in Seq(AppRow), keys \in Seq(KeyRow),
           todos \in Seq(TodoRow)
    PROVE  Copy(s) \in Snapshots
  <1>1. CASE s.at = 1
    <2>1. Copy(s) = [s EXCEPT !.users = users]
      BY <1>1 DEF Copy
    <2> QED
      BY <2>1 DEF Snapshots
  <1>2. CASE s.at = 2
    <2>1. Copy(s) = [s EXCEPT !.apps = apps]
      BY <1>2 DEF Copy
    <2> QED
      BY <2>1 DEF Snapshots
  <1>3. CASE s.at = 3
    <2>1. Copy(s) = [s EXCEPT !.keys = keys]
      BY <1>3 DEF Copy
    <2> QED
      BY <2>1 DEF Snapshots
  <1>4. CASE s.at = 4
    <2>1. Copy(s) = [s EXCEPT !.todos = todos]
      BY <1>4 DEF Copy
    <2> QED
      BY <2>1 DEF Snapshots
  <1> QED
    BY <1>1, <1>2, <1>3, <1>4

LEMMA QueryKeeps ==
    ASSUME ControlInv, QueryNext
    PROVE  snapshot' \in Snapshots
  <1>1. snapshot \in Snapshots /\ snapshot.at < 4
    BY FourTables DEF ControlInv, QueryNext
  <1>2. PICK n : n = snapshot.at + 1
    OBVIOUS
  <1>3. snapshot' = Copy([snapshot EXCEPT !.at = n])
    BY <1>2 DEF QueryNext
  <1>4. n \in 1 .. 4
    BY <1>1, <1>2 DEF Snapshots
  <1>5. [snapshot EXCEPT !.at = n] \in Snapshots /\ [snapshot EXCEPT !.at = n].at \in 1 .. 4
    <2>1. n \in 0 .. 4
      BY <1>4
    <2>2. [snapshot EXCEPT !.at = n] \in Snapshots
      BY <1>1, <2>1, Zenon DEF Snapshots
    <2>3. [snapshot EXCEPT !.at = n].at = n
      BY <1>1 DEF Snapshots
    <2> QED
      BY <1>4, <2>2, <2>3
  <1>6. /\ users \in Seq(UserRow) /\ apps \in Seq(AppRow) /\ keys \in Seq(KeyRow)
        /\ todos \in Seq(TodoRow)
    BY Typed DEF ControlInv, AccessInv
  <1> QED
    BY <1>3, <1>5, <1>6, CopyTyped

LEMMA NoSnapshotTyped == NoSnapshot \in Snapshots
  <1>1. /\ <<>> \in Seq(UserRow) /\ <<>> \in Seq(AppRow) /\ <<>> \in Seq(KeyRow)
        /\ <<>> \in Seq(TodoRow)
    BY EmptySeq
  <1> QED
    BY <1>1 DEF NoSnapshot, Snapshots

LEMMA ControlInitEstablishes ==
    ASSUME ControlInit
    PROVE  ControlInv
  BY AccessInitEstablishes, MigrationInitEstablishes, NoSnapshotTyped, CallsBound
  DEF ControlInit, ControlInv

\* The tables, and the schema, change only by the steps proved about above.
LEMMA AccessStays == ASSUME AccessInv, UNCHANGED accessVars PROVE AccessInv'
  <1>1. UNCHANGED <<store, apps, keys, users, todos, rotation, second, seeding, seedings,
                    retired, crossed>>
    BY DEF accessVars
  <1>2. AccessTypeOK'
    BY <1>1 DEF AccessInv, AccessTypeOK
  <1> QED
    BY <1>1, <1>2, QuietKeeps

LEMMA SchemaStays == ASSUME SchemaInv, UNCHANGED migrationVars PROVE SchemaInv'
  BY DEF SchemaInv, migrationVars, MigrationTypeOK, SchemaExact, InOrder, Migrated

LEMMA StartServicesKeeps ==
    ASSUME SchemaInv, StartServices
    PROVE  SchemaInv'
  <1>1. /\ pc' = [m \in Migrators |-> "idle"] /\ file' = [m \in Migrators |-> 1]
        /\ failures' = 0 /\ UNCHANGED <<ensured, recorded, effects>>
    BY DEF StartServices
  <1>2. 1 \in FileSet /\ 0 \in 0 .. MaxFailures
    BY FilesAssumption, FailuresBound DEF FileSet
  <1>3. MigrationTypeOK'
    BY <1>1, <1>2 DEF SchemaInv, MigrationTypeOK, Stages
  <1>4. SchemaExact'
    BY <1>1 DEF SchemaInv, SchemaExact
  <1>5. InOrder'
    BY <1>1 DEF InOrder
  <1> QED
    BY <1>3, <1>4, <1>5 DEF SchemaInv

LEMMA ControlKeeps ==
    ASSUME ControlInv, [ControlNext]_vars
    PROVE  ControlInv'
  <1> USE DEF ControlInv
  <1>1. CASE Migrate
    BY <1>1, MigrationKeeps, AccessStays DEF Migrate
  <1>2. CASE StartServices
    BY <1>2, StartServicesKeeps, AccessStays DEF StartServices
  <1>3. CASE Call
    <2>1. calls' \in 0 .. MaxCalls
      BY <1>3, CallsBound DEF Call
    <2> QED
      BY <1>3, <2>1, CallKeeps, SchemaStays DEF Call
  <1>4. CASE Rest
    BY <1>4, RestKeeps, SchemaStays DEF Rest
  <1>5. CASE QueryNext
    BY <1>5, QueryKeeps, AccessStays, SchemaStays DEF QueryNext
  <1>6. CASE TakeSnapshot
    <2>1. /\ users \in Seq(UserRow) /\ apps \in Seq(AppRow) /\ keys \in Seq(KeyRow)
          /\ todos \in Seq(TodoRow)
      BY Typed DEF AccessInv
    <2>2. snapshot' \in Snapshots
      BY <1>6, <2>1, FourTables DEF TakeSnapshot, Snapshots
    <2> QED
      BY <1>6, <2>2, AccessStays, SchemaStays DEF TakeSnapshot
  <1>7. CASE EndSnapshot
    BY <1>7, NoSnapshotTyped, AccessStays, SchemaStays DEF EndSnapshot
  <1>8. CASE UNCHANGED vars
    BY <1>8, AccessStays, SchemaStays DEF vars
  <1> QED
    BY <1>1, <1>2, <1>3, <1>4, <1>5, <1>6, <1>7, <1>8 DEF ControlNext

\* The inductive invariant of the database and of what works on it.
THEOREM ControlInductive == ControlSpec => []ControlInv
  BY ControlInitEstablishes, ControlKeeps, PTL DEF ControlSpec

\* Type correctness.
THEOREM ControlTypeCorrect == ControlSpec => []ControlTypeOK
  <1>1. ControlInv => ControlTypeOK
    BY FourTables DEF ControlInv, ControlTypeOK, AccessInv, SchemaInv, Snapshots
  <1> QED
    BY <1>1, ControlInductive, PTL

\* Every file of the migrations that a database has was committed once and
\* after those before it, and a command that succeeds left none out, however
\* many commands overlap, break off and are run again.
THEOREM SchemaAlwaysExact == ControlSpec => []SchemaExact
  <1>1. ControlInv => SchemaExact
    BY DEF ControlInv, SchemaInv
  <1> QED
    BY <1>1, ControlInductive, PTL

\* However many rotations of an application overlap, its only Active key is
\* the one it shows, until seed-db writes it back or somebody activates it, or
\* an application that shows the name of one of its keys.
THEOREM RotationsRetire == ControlSpec => []RotatedOut
  <1>1. ASSUME ActiveShown PROVE RotatedOut
    <2> SUFFICES ASSUME NEW n \in retired
                 PROVE  LET active == {j \in DOMAIN keys :
                                          keys[j].project = n /\ keys[j].status = "Active"}
                        IN  /\ Cardinality(active) <= 1
                            /\ \A j \in active : \E i \in DOMAIN apps :
                                  apps[i].name = n /\ apps[i].key = keys[j].name
      BY DEF RotatedOut
    <2> DEFINE active == {j \in DOMAIN keys : keys[j].project = n /\ keys[j].status = "Active"}
    <2>1. /\ \A j, k \in active : k = j
          /\ \A j \in active : \E i \in DOMAIN apps :
                apps[i].name = n /\ apps[i].key = keys[j].name
      BY <1>1 DEF ActiveShown
    <2> HIDE DEF active
    <2>2. active = {} \/ \E j : active = {j}
      BY <2>1
    <2>3. Cardinality(active) <= 1
      <3>1. CASE active = {}
        BY <3>1, FS_EmptySet
      <3>2. ASSUME NEW j, active = {j}
            PROVE  Cardinality(active) <= 1
        <4>1. Cardinality({j}) = 1
          BY FS_Singleton
        <4> QED
          BY <3>2, <4>1
      <3> QED
        BY <2>2, <3>1, <3>2
    <2> QED
      BY <2>1, <2>3 DEF active
  <1>2. ControlInv => RotatedOut
    BY <1>1 DEF ControlInv, AccessInv
  <1> QED
    BY <1>2, ControlInductive, PTL

-----------------------------------------------------------------------------
(* The key an application shows: what makes KeyListed inductive.           *)

\* Among these rows is one of this key for this project.
HasRow(rows, k, n) == \E j \in DOMAIN rows : rows[j].name = k /\ rows[j].project = n

\* The key the demo application without a key row shows.
Bare(k) ==
    k.from = "slug" /\ k.rotated = <<>> /\ k.of \in {DemoSlug[n] : n \in SeededApps \ SeededKeys}

\* In memory nothing rotates in two steps and nothing is seeded again.
InMemory ==
    store = "memory" =>
        /\ seeding = "idle"
        /\ \A c \in Clients : rotation[c] = NoRotation

\* The unique indexes of Postgres.
Unique ==
    store = "postgres" =>
        /\ \A i, o \in DOMAIN apps : apps[i].name = apps[o].name => i = o
        /\ \A j, k \in DOMAIN keys : keys[j].name = keys[k].name => j = k
        /\ \A u, v \in DOMAIN users : users[u].email = users[v].email => u = v

\* In Postgres a row that no rotation made is a demo key or an application's
\* first.
FirstKeys ==
    store = "postgres" =>
        \A j \in DOMAIN keys : keys[j].name.rotated = <<>> =>
            \/ /\ keys[j].name.from = "slug"
               /\ keys[j].name.of \in {DemoSlug[n] : n \in SeededKeys}
            \/ /\ keys[j].name.from = "clock"
               /\ \E i \in DOMAIN apps : apps[i].name = keys[j].name.of

\* A demo application without a key row shows its demo key.
KeylessBare == \A i \in DOMAIN apps : Keyless(i) => Bare(apps[i].key)

\* The key a rotation has read is such a key, or a row of its application.
OldListed ==
    \A c \in Clients : rotation[c] # NoRotation =>
        Bare(rotation[c].old) \/ HasRow(keys, rotation[c].old, apps[rotation[c].app].name)

\* Between the two transactions of seed-db the demo keys are rows, not rotated
\* out but by a rotation in between.
SeedsListed ==
    seeding = "keys" =>
        \A n \in SeededKeys : \E j \in DOMAIN keys :
            keys[j].name = SeedKey(n) /\ (keys[j].status = "Rotated" => n \in crossed)

ListedInv ==
    /\ InMemory
    /\ Unique
    /\ FirstKeys
    /\ KeylessBare
    /\ OldListed
    /\ SeedsListed
    /\ KeyListed

-----------------------------------------------------------------------------
(* What onboarding leaves pending: what makes SnapshotClosed inductive.    *)

\* An application of this name waits to be activated, and so a user.
Awaited(n) ==
    \E i \in DOMAIN apps :
        apps[i].name = n /\ ~apps[i].seed /\ apps[i].status = "Provisioning"
Invited(e) == \E u \in DOMAIN users : users[u].email = e /\ users[u].status = "Invited"

\* Keys in provisioning and pending todos have somebody who waits for them.
PendingOwned ==
    /\ \A j \in DOMAIN keys : keys[j].status = "Provisioning" => Awaited(keys[j].project)
    /\ \A t \in DOMAIN todos, n \in AppNames :
          todos[t] = Pending(AppTodo(n)) => Awaited(n)
    /\ \A t \in DOMAIN todos, e \in Emails :
          todos[t] = Pending(UserTodo(e)) => Invited(e)

\* The users copied are still there, those copied Active still Active.
UsersCopied(s) ==
    \A u \in DOMAIN s.users :
        /\ u \in DOMAIN users /\ users[u].email = s.users[u].email
        /\ s.users[u].status = "Active" => users[u].status = "Active"

\* A demo application without a key row, as copied.
CopiedKeyless(r) == r.seed /\ r.name \notin SeededKeys /\ r.key.rotated = <<>>

\* The applications copied are still there, those copied Active have left
\* provisioning for good, and the keys they showed are rows.
AppsCopied(s) ==
    \A i \in DOMAIN s.apps :
        /\ i \in DOMAIN apps /\ apps[i].name = s.apps[i].name
        /\ s.apps[i].status = "Active" => apps[i].status # "Provisioning"
        /\ CopiedKeyless(s.apps[i]) \/ HasRow(keys, s.apps[i].key, s.apps[i].name)

\* The keys copied are closed under what the applications copied before show.
KeysCopied(s) ==
    \A i \in DOMAIN s.apps :
        /\ CopiedKeyless(s.apps[i]) \/ HasRow(s.keys, s.apps[i].key, s.apps[i].name)
        /\ s.apps[i].status = "Active" =>
              \A j \in DOMAIN s.keys :
                  s.keys[j].project = s.apps[i].name => s.keys[j].status # "Provisioning"

SnapshotInv ==
    /\ store = "postgres" =>
          /\ snapshot.at >= 1 => UsersCopied(snapshot)
          /\ snapshot.at >= 2 => AppsCopied(snapshot)
          /\ snapshot.at >= 3 => KeysCopied(snapshot)
    /\ SnapshotClosed

-----------------------------------------------------------------------------
(* What each operation does to the rows.                                   *)

\* One row is added to a table.
Added(old, new, row) ==
    \E a \in DOMAIN new : /\ a \notin DOMAIN old /\ DOMAIN new = DOMAIN old \cup {a}
                          /\ \A i \in DOMAIN old : new[i] = old[i]
                          /\ new[a] = row

\* No row of a table goes, and none changes its name, project, email or origin.
KeysGrow ==
    /\ DOMAIN keys \subseteq DOMAIN keys'
    /\ \A j \in DOMAIN keys :
          keys'[j].name = keys[j].name /\ keys'[j].project = keys[j].project
AppsGrow ==
    /\ DOMAIN apps \subseteq DOMAIN apps'
    /\ \A i \in DOMAIN apps :
          /\ apps'[i].name = apps[i].name /\ apps'[i].seed = apps[i].seed
          /\ apps'[i].status = "Provisioning" => apps[i].status = "Provisioning"
UsersGrow ==
    /\ DOMAIN users \subseteq DOMAIN users'
    /\ \A u \in DOMAIN users :
          /\ users'[u].email = users[u].email
          /\ users[u].status = "Active" => users'[u].status = "Active"
Grow == KeysGrow /\ AppsGrow /\ UsersGrow

LEMMA AppendAdds ==
    ASSUME NEW S, NEW q \in Seq(S), NEW e
    PROVE  Added(q, Append(q, e), e)
  <1>1. /\ DOMAIN q = 1 .. Len(q) /\ Len(q) \in Nat
        /\ DOMAIN Append(q, e) = 1 .. Len(q) + 1
        /\ \A i \in 1 .. Len(q) : Append(q, e)[i] = q[i]
        /\ Append(q, e)[Len(q) + 1] = e
    OBVIOUS
  <1>2. /\ Len(q) + 1 \in DOMAIN Append(q, e) /\ Len(q) + 1 \notin DOMAIN q
        /\ DOMAIN Append(q, e) = DOMAIN q \cup {Len(q) + 1}
    BY <1>1
  <1> QED
    BY <1>1, <1>2 DEF Added

LEMMA CreateApplicationRows ==
    ASSUME AccessTypeOK, NEW n \in AppNames, CreateApplication(n)
    PROVE  /\ Added(apps, apps', App(n, NewKey(n), "Provisioning", FALSE))
           /\ Added(keys, keys', Key(NewKey(n), n, "Provisioning"))
           /\ Added(todos, todos', Pending(AppTodo(n)))
           /\ store = "postgres" => \A i \in DOMAIN apps : apps[i].name # n
           /\ UNCHANGED <<store, users, rotation, second, seeding, seedings, retired, crossed>>
  <1>1. apps \in Seq(AppRow) /\ keys \in Seq(KeyRow) /\ todos \in Seq(TodoRow)
    BY Typed
  <1> QED
    BY <1>1, AppendAdds DEF CreateApplication

LEMMA ActivateApplicationRows ==
    ASSUME AccessTypeOK, NEW i \in DOMAIN apps, ActivateApplication(i)
    PROVE  /\ DOMAIN apps' = DOMAIN apps
           /\ \A o \in DOMAIN apps :
                 /\ apps'[o].name = apps[o].name /\ apps'[o].seed = apps[o].seed
                 /\ apps'[o].key = apps[o].key
                 /\ apps'[o].status = IF o = i THEN "Active" ELSE apps[o].status
           /\ DOMAIN keys' = DOMAIN keys
           /\ \A j \in DOMAIN keys :
                 /\ keys'[j].name = keys[j].name /\ keys'[j].project = keys[j].project
                 /\ keys'[j].status = IF j \in Touched(apps[i].name, apps[i].key) THEN "Active"
                                      ELSE keys[j].status
           /\ todos' = Resolved(AppTodo(apps[i].name))
           /\ UNCHANGED <<store, users, rotation, second, seeding, seedings, crossed>>
  <1> DEFINE touched == Touched(apps[i].name, apps[i].key)
  <1>1. /\ apps' = [apps EXCEPT ![i] = [apps[i] EXCEPT !.status = "Active"]]
        /\ keys' = WithStatus(touched, "Active")
        /\ todos' = Resolved(AppTodo(apps[i].name))
        /\ UNCHANGED <<store, users, rotation, second, seeding, seedings, crossed>>
    BY DEF ActivateApplication
  <1> HIDE DEF touched
  <1>2. apps \in Seq(AppRow) /\ keys \in Seq(KeyRow)
    BY Typed
  <1>3. DOMAIN apps' = DOMAIN apps
    BY <1>1, <1>2
  <1>4. ASSUME NEW o \in DOMAIN apps
        PROVE  /\ apps'[o].name = apps[o].name /\ apps'[o].seed = apps[o].seed
               /\ apps'[o].key = apps[o].key
               /\ apps'[o].status = IF o = i THEN "Active" ELSE apps[o].status
    <2>1. apps[o] \in AppRow
      BY <1>2
    <2>2. apps'[o] = IF o = i THEN [apps[o] EXCEPT !.status = "Active"] ELSE apps[o]
      BY <1>1, <1>2
    <2> QED
      BY <2>1, <2>2 DEF AppRow
  <1>5. /\ DOMAIN keys' = DOMAIN keys
        /\ \A j \in DOMAIN keys :
              /\ keys'[j].name = keys[j].name /\ keys'[j].project = keys[j].project
              /\ keys'[j].status = IF j \in touched THEN "Active" ELSE keys[j].status
    <2>1. "Active" \in KeyStatuses
      BY DEF KeyStatuses
    <2> QED
      BY <1>1, <1>2, <2>1, StatusKept
  <1> QED
    BY <1>1, <1>3, <1>4, <1>5 DEF touched

LEMMA WriteRotationRows ==
    ASSUME AccessTypeOK, NEW i \in DOMAIN apps, NEW old, NEW s, WriteRotation(i, old, s)
    PROVE  /\ DOMAIN apps' = DOMAIN apps
           /\ \A o \in DOMAIN apps :
                 /\ apps'[o].name = apps[o].name /\ apps'[o].seed = apps[o].seed
                 /\ apps'[o].status = apps[o].status
                 /\ apps'[o].key = IF o = i THEN RotatedKey(old, s) ELSE apps[o].key
           /\ DOMAIN keys \subseteq DOMAIN keys'
           /\ \A j \in DOMAIN keys :
                 /\ keys'[j].name = keys[j].name /\ keys'[j].project = keys[j].project
                 /\ keys'[j].status = IF j \in Touched(apps[i].name, old) THEN "Rotated"
                                      ELSE keys[j].status
           /\ \E j \in DOMAIN keys' :
                 /\ DOMAIN keys' = DOMAIN keys \cup {j} /\ j \notin DOMAIN keys
                 /\ keys'[j] = Key(RotatedKey(old, s), apps[i].name, "Active")
           /\ \A j \in DOMAIN keys' \ DOMAIN keys :
                 keys'[j] = Key(RotatedKey(old, s), apps[i].name, "Active")
           /\ crossed' = IF seeding = "keys" THEN crossed \cup {apps[i].name}
                         ELSE crossed \ {apps[i].name}
           /\ UNCHANGED <<store, users, todos, second, seeding, seedings>>
  <1> DEFINE touched == Touched(apps[i].name, old)
             new == RotatedKey(old, s)
             left == Retire(i, old)
             row == Key(new, apps[i].name, "Active")
  <1>1. /\ apps' = [apps EXCEPT ![i] = [apps[i] EXCEPT !.key = new]]
        /\ left = WithStatus(touched, "Rotated") /\ keys' = Append(left, row)
        /\ crossed' = IF seeding = "keys" THEN crossed \cup {apps[i].name}
                      ELSE crossed \ {apps[i].name}
        /\ UNCHANGED <<store, users, todos, second, seeding, seedings>>
    BY DEF WriteRotation, Retire
  <1> HIDE DEF touched, new, left, row
  <1>2. apps \in Seq(AppRow) /\ keys \in Seq(KeyRow)
    BY Typed
  <1>3. DOMAIN apps' = DOMAIN apps
    BY <1>1, <1>2
  <1>4. ASSUME NEW o \in DOMAIN apps
        PROVE  /\ apps'[o].name = apps[o].name /\ apps'[o].seed = apps[o].seed
               /\ apps'[o].status = apps[o].status
               /\ apps'[o].key = IF o = i THEN new ELSE apps[o].key
    <2>1. apps[o] \in AppRow
      BY <1>2
    <2>2. apps'[o] = IF o = i THEN [apps[o] EXCEPT !.key = new] ELSE apps[o]
      BY <1>1, <1>2
    <2> QED
      BY <2>1, <2>2 DEF AppRow
  <1>5. /\ left \in Seq(KeyRow) /\ DOMAIN left = DOMAIN keys
        /\ \A j \in DOMAIN keys :
              /\ left[j].name = keys[j].name /\ left[j].project = keys[j].project
              /\ left[j].status = IF j \in touched THEN "Rotated" ELSE keys[j].status
    <2>1. "Rotated" \in KeyStatuses
      BY DEF KeyStatuses
    <2> QED
      BY <1>1, <1>2, <2>1, StatusKept
  <1>6. Added(left, keys', row)
    BY <1>1, <1>5, AppendAdds
  <1> QED
    BY <1>1, <1>3, <1>4, <1>5, <1>6 DEF Added, touched, new, row

LEMMA SeedAccessKeysRows ==
    ASSUME AccessTypeOK, SeedAccessKeys
    PROVE  /\ DOMAIN keys \subseteq DOMAIN keys'
           /\ \A j \in DOMAIN keys :
                 /\ keys'[j].name = keys[j].name /\ keys'[j].project = keys[j].project
                 /\ keys'[j].status =
                       IF keys[j].name \in {SeedKey(n) : n \in SeededKeys} THEN "Active"
                       ELSE keys[j].status
           /\ \A j \in DOMAIN keys' \ DOMAIN keys :
                 /\ keys'[j] \in SeedKeyRows
                 /\ \A k \in DOMAIN keys : keys[k].name # keys'[j].name
           /\ \A j, k \in DOMAIN keys' \ DOMAIN keys : keys'[j] = keys'[k] => j = k
           /\ \A n \in SeededKeys : \E j \in DOMAIN keys' :
                 keys'[j].name = SeedKey(n) /\ keys'[j].status = "Active"
           /\ store = "postgres" /\ seeding' = "keys"
           /\ UNCHANGED <<store, apps, users, todos, rotation, second, crossed>>
  <1> DEFINE present == {j \in DOMAIN keys : keys[j].name \in {SeedKey(n) : n \in SeededKeys}}
             missing == {k \in SeedKeyRows : \A j \in DOMAIN keys : keys[j].name # k.name}
             left == WithStatus(present, "Active")
  <1>1. /\ keys' = left \o Rows(missing)
        /\ store = "postgres" /\ seeding' = "keys"
        /\ UNCHANGED <<store, apps, users, todos, rotation, second, crossed>>
    BY DEF SeedAccessKeys
  <1>2. keys \in Seq(KeyRow)
    BY Typed
  <1>3. missing \subseteq SeedKeyRows /\ IsFiniteSet(missing) /\ missing \subseteq KeyRow
    BY SeedsFinite, FS_Subset, SeedRowsTyped
  <1>4. \A r \in missing, k \in DOMAIN keys : keys[k].name # r.name
    OBVIOUS
  <1>5. ASSUME NEW n \in SeededKeys
        PROVE  \/ Key(SeedKey(n), n, "Active") \in missing
               \/ \E j \in present : keys[j].name = SeedKey(n)
    <2>1. /\ Key(SeedKey(n), n, "Active") \in SeedKeyRows
          /\ Key(SeedKey(n), n, "Active").name = SeedKey(n)
      BY DEF SeedKeyRows, Key
    <2> QED
      BY <2>1
  <1>6. \A j \in DOMAIN keys :
           j \in present <=> keys[j].name \in {SeedKey(n) : n \in SeededKeys}
    OBVIOUS
  <1> HIDE DEF present, missing
  <1>7. /\ Rows(missing) \in Seq(missing)
        /\ \A i \in DOMAIN Rows(missing) : Rows(missing)[i] \in missing
        /\ \A r \in missing : \E i \in DOMAIN Rows(missing) : Rows(missing)[i] = r
        /\ \A i, k \in DOMAIN Rows(missing) : Rows(missing)[i] = Rows(missing)[k] => i = k
    BY <1>3, RowsListed
  <1>8. Rows(missing) \in Seq(KeyRow)
    BY <1>3, <1>7, SeqMonotonic
  <1>9. /\ left \in Seq(KeyRow) /\ DOMAIN left = DOMAIN keys
        /\ \A j \in DOMAIN keys :
              /\ left[j].name = keys[j].name /\ left[j].project = keys[j].project
              /\ left[j].status = IF j \in present THEN "Active" ELSE keys[j].status
    <2>1. "Active" \in KeyStatuses
      BY DEF KeyStatuses
    <2> QED
      BY <1>2, <2>1, StatusKept
  <1> HIDE DEF left
  <1>10. PICK m : m = Rows(missing)
    OBVIOUS
  <1>11. /\ DOMAIN left \subseteq DOMAIN keys'
         /\ \A i \in DOMAIN left : keys'[i] = left[i]
         /\ \A i \in DOMAIN keys' \ DOMAIN left :
               \E k \in DOMAIN m : i = Len(left) + k /\ keys'[i] = m[k]
         /\ \A k \in DOMAIN m :
               Len(left) + k \in DOMAIN keys' \ DOMAIN left /\ keys'[Len(left) + k] = m[k]
    <2>1. left \in Seq(KeyRow) /\ m \in Seq(KeyRow) /\ keys' = left \o m
      BY <1>1, <1>8, <1>9, <1>10
    <2> QED
      BY <2>1, Concatenated
  <1>12. \A j \in DOMAIN keys :
            /\ keys'[j].name = keys[j].name /\ keys'[j].project = keys[j].project
            /\ keys'[j].status =
                  IF keys[j].name \in {SeedKey(n) : n \in SeededKeys} THEN "Active"
                  ELSE keys[j].status
    BY <1>6, <1>9, <1>11
  <1>13. \A j \in DOMAIN keys' \ DOMAIN keys :
            keys'[j] \in SeedKeyRows /\ \A k \in DOMAIN keys : keys[k].name # keys'[j].name
    BY <1>3, <1>4, <1>7, <1>9, <1>10, <1>11
  <1>14. \A j, k \in DOMAIN keys' \ DOMAIN keys : keys'[j] = keys'[k] => j = k
    BY <1>7, <1>9, <1>10, <1>11
  <1>15. ASSUME NEW n \in SeededKeys
         PROVE  \E j \in DOMAIN keys' : keys'[j].name = SeedKey(n) /\ keys'[j].status = "Active"
    <2>1. CASE Key(SeedKey(n), n, "Active") \in missing
      <3>1. PICK j \in DOMAIN keys' : keys'[j] = Key(SeedKey(n), n, "Active")
        BY <1>7, <1>10, <1>11, <2>1
      <3> QED
        BY <3>1 DEF Key
    <2>2. ASSUME NEW j \in present, keys[j].name = SeedKey(n)
          PROVE  keys'[j].name = SeedKey(n) /\ keys'[j].status = "Active" /\ j \in DOMAIN keys'
      <3>1. j \in DOMAIN keys
        BY DEF present
      <3> QED
        BY <1>9, <1>11, <2>2, <3>1
    <2> QED
      BY <1>5, <2>1, <2>2
  <1> QED
    BY <1>1, <1>9, <1>11, <1>12, <1>13, <1>14, <1>15

LEMMA SeedApplicationsRows ==
    ASSUME AccessInv, SeedApplications
    PROVE  /\ DOMAIN apps \subseteq DOMAIN apps'
           /\ \A i \in DOMAIN apps :
                 /\ apps'[i].name = apps[i].name /\ apps'[i].seed = apps[i].seed
                 /\ apps'[i].key = IF apps[i].seed THEN SeedKey(apps[i].name) ELSE apps[i].key
                 /\ apps'[i].status = IF apps[i].seed THEN SeedStatus(apps[i].name)
                                      ELSE apps[i].status
           /\ \A i \in DOMAIN apps' \ DOMAIN apps :
                 /\ apps'[i] \in SeedRows
                 /\ \A o \in DOMAIN apps : apps[o].name # apps'[i].name
           /\ \A i, o \in DOMAIN apps' \ DOMAIN apps : apps'[i] = apps'[o] => i = o
           /\ seeding = "keys" /\ seeding' = "idle"
           /\ UNCHANGED <<store, keys, users, todos, rotation, second, seedings, crossed>>
  <1> DEFINE present == {i \in DOMAIN apps : apps[i].seed}
             missing == {r \in SeedRows : \A i \in present : apps[i].name # r.name}
             left == [i \in DOMAIN apps |->
                        IF i \in present
                        THEN [apps[i] EXCEPT !.key = SeedKey(apps[i].name),
                                             !.status = SeedStatus(apps[i].name)]
                        ELSE apps[i]]
  <1>1. /\ apps' = left \o Rows(missing)
        /\ \A i \in DOMAIN apps : apps[i].name \in SeededApps => apps[i].seed
        /\ seeding = "keys" /\ seeding' = "idle"
        /\ UNCHANGED <<store, keys, users, todos, rotation, second, seedings, crossed>>
    BY DEF SeedApplications
  <1>2. apps \in Seq(AppRow) /\ DOMAIN apps = 1 .. Len(apps) /\ Len(apps) \in Nat
    BY Typed, LenProperties DEF AccessInv
  <1>3. missing \subseteq SeedRows /\ IsFiniteSet(missing) /\ missing \subseteq AppRow
    BY SeedsFinite, FS_Subset, SeedRowsTyped
  <1>4. ASSUME NEW r \in missing, NEW o \in DOMAIN apps
        PROVE  apps[o].name # r.name
    <2>1. r.name \in SeededApps
      BY SeedRowsTyped
    <2>2. CASE apps[o].name \in SeededApps
      <3>1. o \in present
        BY <1>1, <2>2
      <3> QED
        BY <3>1
    <2>3. CASE apps[o].name \notin SeededApps
      BY <2>1, <2>3
    <2> QED
      BY <2>2, <2>3
  <1>5. ASSUME NEW i \in DOMAIN apps
        PROVE  /\ left[i] \in AppRow
               /\ left[i].name = apps[i].name /\ left[i].seed = apps[i].seed
               /\ left[i].key = IF apps[i].seed THEN SeedKey(apps[i].name) ELSE apps[i].key
               /\ left[i].status = IF apps[i].seed THEN SeedStatus(apps[i].name)
                                   ELSE apps[i].status
    <2>1. apps[i] \in AppRow /\ apps[i].name \in AppNames
      BY AppFields DEF AccessInv
    <2>2. apps[i].seed =>
             SeedKey(apps[i].name) \in KeyNames /\ SeedStatus(apps[i].name) \in AppStatuses
      BY <2>1, KeyNameTypes DEF SeedStatus, AppStatuses, AccessInv, SeedsKept
    <2> QED
      BY <2>1, <2>2 DEF AppRow
  <1>6. DOMAIN left = DOMAIN apps
    OBVIOUS
  <1> HIDE DEF present, missing, left
  <1>7. /\ Rows(missing) \in Seq(missing)
        /\ \A i \in DOMAIN Rows(missing) : Rows(missing)[i] \in missing
        /\ \A i, k \in DOMAIN Rows(missing) : Rows(missing)[i] = Rows(missing)[k] => i = k
    BY <1>3, RowsListed
  <1>8. Rows(missing) \in Seq(AppRow)
    BY <1>3, <1>7, SeqMonotonic
  <1>9. left \in Seq(AppRow)
    <2>1. left \in [1 .. Len(apps) -> AppRow]
      BY <1>2, <1>5, <1>6 DEF left
    <2> QED
      BY <1>2, <2>1
  <1>10. PICK m : m = Rows(missing)
    OBVIOUS
  <1>11. /\ DOMAIN left \subseteq DOMAIN apps'
         /\ \A i \in DOMAIN left : apps'[i] = left[i]
         /\ \A i \in DOMAIN apps' \ DOMAIN left :
               \E k \in DOMAIN m : i = Len(left) + k /\ apps'[i] = m[k]
    <2>1. left \in Seq(AppRow) /\ m \in Seq(AppRow) /\ apps' = left \o m
      BY <1>1, <1>8, <1>9, <1>10
    <2> QED
      BY <2>1, Concatenated
  <1>12. \A i \in DOMAIN apps : apps'[i] = left[i]
    BY <1>6, <1>11
  <1>13. \A i \in DOMAIN apps' \ DOMAIN apps :
            apps'[i] \in SeedRows /\ \A o \in DOMAIN apps : apps[o].name # apps'[i].name
    BY <1>3, <1>4, <1>6, <1>7, <1>10, <1>11
  <1>14. \A i, o \in DOMAIN apps' \ DOMAIN apps : apps'[i] = apps'[o] => i = o
    BY <1>6, <1>7, <1>10, <1>11
  <1> QED
    BY <1>1, <1>5, <1>6, <1>11, <1>12, <1>13, <1>14

LEMMA CreateUserRows ==
    ASSUME AccessTypeOK, NEW e \in Emails, CreateUser(e)
    PROVE  /\ Added(users, users', [email |-> e, status |-> "Invited"])
           /\ Added(todos, todos', Pending(UserTodo(e)))
           /\ store = "postgres" => \A u \in DOMAIN users : users[u].email # e
           /\ UNCHANGED <<store, apps, keys, rotation, second, seeding, seedings, retired, crossed>>
  <1>1. users \in Seq(UserRow) /\ todos \in Seq(TodoRow)
    BY Typed
  <1> QED
    BY <1>1, AppendAdds DEF CreateUser

LEMMA ActivateUserRows ==
    ASSUME AccessTypeOK, NEW u \in DOMAIN users, ActivateUser(u)
    PROVE  /\ DOMAIN users' = DOMAIN users
           /\ \A v \in DOMAIN users :
                 /\ users'[v].email = users[v].email
                 /\ users'[v].status = IF v = u THEN "Active" ELSE users[v].status
           /\ todos' = Resolved(UserTodo(users[u].email))
           /\ UNCHANGED <<store, apps, keys, rotation, second, seeding, seedings, retired, crossed>>
  <1>1. users \in Seq(UserRow)
    BY Typed
  <1>2. /\ users' = [users EXCEPT ![u] = [users[u] EXCEPT !.status = "Active"]]
        /\ todos' = Resolved(UserTodo(users[u].email))
        /\ UNCHANGED <<store, apps, keys, rotation, second, seeding, seedings, retired, crossed>>
    BY DEF ActivateUser
  <1>3. ASSUME NEW v \in DOMAIN users
        PROVE  /\ users'[v].email = users[v].email
               /\ users'[v].status = IF v = u THEN "Active" ELSE users[v].status
    <2>1. users[v] \in UserRow
      BY <1>1
    <2>2. users'[v] = IF v = u THEN [users[v] EXCEPT !.status = "Active"] ELSE users[v]
      BY <1>1, <1>2
    <2> QED
      BY <2>1, <2>2 DEF UserRow
  <1> QED
    BY <1>1, <1>2, <1>3

LEMMA RevokeAPIKeyRows ==
    ASSUME AccessTypeOK, NEW k \in DOMAIN keys, RevokeAPIKey(k)
    PROVE  /\ DOMAIN keys' = DOMAIN keys
           /\ \A j \in DOMAIN keys :
                 /\ keys'[j].name = keys[j].name /\ keys'[j].project = keys[j].project
                 /\ keys'[j].status = IF j = k THEN "Revoked" ELSE keys[j].status
           /\ UNCHANGED <<store, apps, users, todos, rotation, second, seeding, seedings,
                          retired, crossed>>
  <1>1. keys \in Seq(KeyRow) /\ "Revoked" \in KeyStatuses
    BY Typed DEF KeyStatuses
  <1>2. /\ DOMAIN WithStatus({k}, "Revoked") = DOMAIN keys
        /\ \A j \in DOMAIN keys :
              /\ WithStatus({k}, "Revoked")[j].name = keys[j].name
              /\ WithStatus({k}, "Revoked")[j].project = keys[j].project
              /\ WithStatus({k}, "Revoked")[j].status =
                    IF j \in {k} THEN "Revoked" ELSE keys[j].status
    BY <1>1, StatusKept
  <1> QED
    BY <1>2 DEF RevokeAPIKey

\* A rotation is the writes of one of an application that is there; and it ends
\* in memory at once, in Postgres what it read before.
LEMMA RotationWrites ==
    ASSUME AccessInv,
           (\E i \in DOMAIN apps : RotateInMemory(i)) \/ (\E c \in Clients : CommitRotation(c))
    PROVE  \E i \in DOMAIN apps, old \in KeyNames, s \in 0 .. MaxSeconds :
              /\ WriteRotation(i, old, s)
              /\ \/ store = "memory" /\ old = apps[i].key /\ UNCHANGED rotation
                 \/ \E c \in Clients :
                       /\ rotation[c] # NoRotation /\ rotation[c].app = i /\ rotation[c].old = old
                       /\ rotation' = [rotation EXCEPT ![c] = NoRotation]
                       /\ \A j \in DOMAIN keys : keys[j].name # RotatedKey(old, s)
  <1>1. ASSUME NEW i \in DOMAIN apps, RotateInMemory(i)
        PROVE  /\ WriteRotation(i, apps[i].key, second) /\ store = "memory" /\ UNCHANGED rotation
               /\ apps[i].key \in KeyNames /\ second \in 0 .. MaxSeconds
    BY <1>1, AppFields DEF RotateInMemory, AccessInv, AccessTypeOK
  <1>2. ASSUME NEW c \in Clients, CommitRotation(c)
        PROVE  \E s \in 0 .. MaxSeconds :
                  /\ WriteRotation(rotation[c].app, rotation[c].old, s)
                  /\ rotation[c].app \in DOMAIN apps /\ rotation[c].old \in KeyNames
                  /\ rotation[c] # NoRotation
                  /\ rotation' = [rotation EXCEPT ![c] = NoRotation]
                  /\ \A j \in DOMAIN keys : keys[j].name # RotatedKey(rotation[c].old, s)
    <2>1. PICK s \in rotation[c].since .. second :
             /\ \A j \in DOMAIN keys : keys[j].name # RotatedKey(rotation[c].old, s)
             /\ WriteRotation(rotation[c].app, rotation[c].old, s)
      BY <1>2 DEF CommitRotation
    <2>2. /\ rotation[c] # NoRotation /\ rotation' = [rotation EXCEPT ![c] = NoRotation]
          /\ rotation \in [Clients -> [app : Nat, old : KeyNames, since : Nat]]
          /\ second \in 0 .. MaxSeconds
      BY <1>2 DEF CommitRotation, AccessInv, AccessTypeOK
    <2>3. /\ rotation[c].app \in DOMAIN apps /\ rotation[c].old \in KeyNames
          /\ rotation[c].since \in Nat
      BY <2>2 DEF AccessInv, RotationsRead
    <2>4. s \in 0 .. MaxSeconds
      BY <2>1, <2>2, <2>3, AccessBounds
    <2> QED
      BY <2>1, <2>2, <2>3, <2>4
  <1>3. CASE \E i \in DOMAIN apps : RotateInMemory(i)
    BY <1>1, <1>3
  <1>4. CASE \E c \in Clients : CommitRotation(c)
    <2>1. PICK c \in Clients : CommitRotation(c)
      BY <1>4
    <2>2. PICK s \in 0 .. MaxSeconds :
             /\ WriteRotation(rotation[c].app, rotation[c].old, s)
             /\ rotation[c].app \in DOMAIN apps /\ rotation[c].old \in KeyNames
             /\ rotation[c] # NoRotation
             /\ rotation' = [rotation EXCEPT ![c] = NoRotation]
             /\ \A j \in DOMAIN keys : keys[j].name # RotatedKey(rotation[c].old, s)
      BY <1>2, <2>1
    <2> QED
      BY <2>2
  <1> QED
    BY <1>3, <1>4

\* Steps that leave the three tables alone.
LEMMA Still == ASSUME UNCHANGED <<apps, keys, users>> PROVE Grow
  BY DEF Grow, KeysGrow, AppsGrow, UsersGrow

\* No step takes a row away.
LEMMA StepsGrow ==
    ASSUME AccessInv, AccessCall \/ AccessRest
    PROVE  Grow
  <1>0. AccessTypeOK
    BY DEF AccessInv
  <1>1. ASSUME NEW n \in AppNames, CreateApplication(n)
        PROVE  Grow
    BY <1>0, <1>1, CreateApplicationRows DEF Grow, KeysGrow, AppsGrow, UsersGrow, Added
  <1>2. ASSUME NEW i \in DOMAIN apps, ActivateApplication(i)
        PROVE  Grow
    BY <1>0, <1>2, ActivateApplicationRows DEF Grow, KeysGrow, AppsGrow, UsersGrow
  <1>3. ASSUME (\E i \in DOMAIN apps : RotateInMemory(i))
                  \/ (\E c \in Clients : CommitRotation(c))
        PROVE  Grow
    <2>1. PICK i \in DOMAIN apps, old \in KeyNames, s \in 0 .. MaxSeconds : WriteRotation(i, old, s)
      BY <1>3, RotationWrites
    <2> QED
      BY <1>0, <2>1, WriteRotationRows DEF Grow, KeysGrow, AppsGrow, UsersGrow
  <1>4. ASSUME NEW j \in DOMAIN keys, RevokeAPIKey(j)
        PROVE  Grow
    BY <1>0, <1>4, RevokeAPIKeyRows DEF Grow, KeysGrow, AppsGrow, UsersGrow
  <1>5. ASSUME NEW e \in Emails, CreateUser(e)
        PROVE  Grow
    BY <1>0, <1>5, CreateUserRows DEF Grow, KeysGrow, AppsGrow, UsersGrow, Added
  <1>6. ASSUME NEW u \in DOMAIN users, ActivateUser(u)
        PROVE  Grow
    BY <1>0, <1>6, ActivateUserRows DEF Grow, KeysGrow, AppsGrow, UsersGrow
  <1>7. CASE SeedAccessKeys
    BY <1>0, <1>7, SeedAccessKeysRows DEF Grow, KeysGrow, AppsGrow, UsersGrow
  <1>8. CASE SeedApplications
    BY <1>0, <1>8, SeedApplicationsRows DEF Grow, KeysGrow, AppsGrow, UsersGrow, SeedStatus
  <1>9. CASE \/ \E c \in Clients, i \in DOMAIN apps : ReadForRotation(c, i)
             \/ \E t \in DOMAIN todos : ResolveTodo(t)
             \/ \E c \in Clients : AbortRotation(c)
             \/ StopSeeding
             \/ NextSecond
    BY <1>9, Still DEF ReadForRotation, ResolveTodo, AbortRotation, StopSeeding, NextSecond
  <1> QED
    BY <1>1, <1>2, <1>3, <1>4, <1>5, <1>6, <1>7, <1>8, <1>9 DEF AccessCall, AccessRest

\* A row that is there stays.
LEMMA RowStays ==
    ASSUME KeysGrow, NEW k, NEW n, HasRow(keys, k, n)
    PROVE  HasRow(keys', k, n)
  BY DEF KeysGrow, HasRow

-----------------------------------------------------------------------------
(* What is pending has somebody who waits for it.                          *)

\* Resolving the todos of a title leaves only those of others pending.
LEMMA ResolvedTodos ==
    ASSUME AccessTypeOK, NEW title, todos' = Resolved(title),
           NEW t \in DOMAIN todos', NEW other, todos'[t] = Pending(other)
    PROVE  t \in DOMAIN todos /\ todos[t] = Pending(other) /\ other # title
  <1>1. todos \in Seq(TodoRow)
    BY Typed
  <1>2. t \in DOMAIN todos
    BY DEF Resolved
  <1>3. todos[t] \in TodoRow
    BY <1>1, <1>2
  <1>4. CASE todos[t].title = title
    <2>1. todos'[t] = [todos[t] EXCEPT !.status = "Resolved"]
      BY <1>2, <1>4 DEF Resolved
    <2>2. todos'[t].status = "Resolved"
      BY <1>3, <2>1 DEF TodoRow
    <2> QED
      BY <2>2 DEF Pending
  <1>5. CASE todos[t].title # title
    <2>1. todos'[t] = todos[t]
      BY <1>2, <1>5 DEF Resolved
    <2> QED
      BY <1>2, <1>5, <2>1 DEF Pending
  <1> QED
    BY <1>4, <1>5

LEMMA Titles ==
    /\ \A n, m \in AppNames : Pending(AppTodo(n)) = Pending(AppTodo(m)) => n = m
    /\ \A e, d \in Emails : Pending(UserTodo(e)) = Pending(UserTodo(d)) => e = d
    /\ \A n \in AppNames, e \in Emails : Pending(AppTodo(n)) # Pending(UserTodo(e))
  BY DEF Pending, AppTodo, UserTodo

\* Steps that leave nobody who waits, and add nothing to wait for.
LEMMA OwnedStays ==
    ASSUME PendingOwned,
           \A j \in DOMAIN keys' : keys'[j].status = "Provisioning" =>
              /\ j \in DOMAIN keys /\ keys[j].status = "Provisioning"
              /\ keys'[j].project = keys[j].project,
           \A i \in DOMAIN apps : ~apps[i].seed /\ apps[i].status = "Provisioning" =>
              /\ i \in DOMAIN apps' /\ ~apps'[i].seed /\ apps'[i].status = "Provisioning"
              /\ apps'[i].name = apps[i].name,
           \A t \in DOMAIN todos' : \A title : todos'[t] = Pending(title) =>
              t \in DOMAIN todos /\ todos[t] = Pending(title),
           UNCHANGED users
    PROVE  PendingOwned'
  <1>1. ASSUME NEW n, Awaited(n) PROVE Awaited(n)'
    BY <1>1 DEF Awaited
  <1>2. ASSUME NEW e, Invited(e) PROVE Invited(e)'
    BY <1>2 DEF Invited
  <1>3. ASSUME NEW j \in DOMAIN keys', keys'[j].status = "Provisioning"
        PROVE  Awaited(keys[j].project)' /\ keys'[j].project = keys[j].project
    <2>1. \E i \in DOMAIN apps : apps[i].name = keys[j].project /\ ~apps[i].seed
                                 /\ apps[i].status = "Provisioning"
      BY <1>3 DEF PendingOwned, Awaited
    <2> QED
      BY <1>3, <2>1 DEF Awaited
  <1> QED
    BY <1>1, <1>2, <1>3 DEF PendingOwned, Awaited

LEMMA CreateApplicationOwned ==
    ASSUME AccessInv, PendingOwned, NEW n \in AppNames, CreateApplication(n)
    PROVE  PendingOwned'
  <1> DEFINE row == App(n, NewKey(n), "Provisioning", FALSE)
             key == Key(NewKey(n), n, "Provisioning")
             todo == Pending(AppTodo(n))
  <1>1. /\ Added(apps, apps', row) /\ Added(keys, keys', key) /\ Added(todos, todos', todo)
        /\ UNCHANGED users
    BY CreateApplicationRows DEF AccessInv
  <1>2. row.name = n /\ row.status = "Provisioning" /\ ~row.seed /\ key.project = n
    BY DEF App, Key
  <1> HIDE DEF row, key
  <1>3. \E a \in DOMAIN apps' : apps'[a].name = n /\ ~apps'[a].seed
                                /\ apps'[a].status = "Provisioning"
    BY <1>1, <1>2 DEF Added
  <1>4. ASSUME NEW m, \E i \in DOMAIN apps : apps[i].name = m /\ ~apps[i].seed
                                             /\ apps[i].status = "Provisioning"
        PROVE  \E i \in DOMAIN apps' : apps'[i].name = m /\ ~apps'[i].seed
                                       /\ apps'[i].status = "Provisioning"
    BY <1>1, <1>4 DEF Added
  <1>5. ASSUME NEW j \in DOMAIN keys', keys'[j].status = "Provisioning"
        PROVE  \E i \in DOMAIN apps' : apps'[i].name = keys'[j].project /\ ~apps'[i].seed
                                       /\ apps'[i].status = "Provisioning"
    <2>1. CASE j \in DOMAIN keys
      <3>1. keys'[j] = keys[j]
        BY <1>1, <2>1 DEF Added
      <3> QED
        BY <1>4, <1>5, <2>1, <3>1 DEF PendingOwned, Awaited
    <2>2. CASE j \notin DOMAIN keys
      <3>1. keys'[j] = key
        BY <1>1, <2>2 DEF Added
      <3> QED
        BY <1>2, <1>3, <3>1
    <2> QED
      BY <2>1, <2>2
  <1>6. ASSUME NEW t \in DOMAIN todos', NEW title, todos'[t] = Pending(title)
        PROVE  (t \in DOMAIN todos /\ todos[t] = Pending(title)) \/ Pending(title) = todo
    BY <1>1, <1>6 DEF Added
  <1>7. ASSUME NEW t \in DOMAIN todos', NEW m \in AppNames, todos'[t] = Pending(AppTodo(m))
        PROVE  \E i \in DOMAIN apps' : apps'[i].name = m /\ ~apps'[i].seed
                                       /\ apps'[i].status = "Provisioning"
    <2>1. CASE t \in DOMAIN todos /\ todos[t] = Pending(AppTodo(m))
      BY <1>4, <2>1 DEF PendingOwned, Awaited
    <2>2. CASE Pending(AppTodo(m)) = todo
      BY <1>3, <2>2, Titles
    <2> QED
      BY <1>6, <1>7, <2>1, <2>2
  <1>8. ASSUME NEW t \in DOMAIN todos', NEW e \in Emails, todos'[t] = Pending(UserTodo(e))
        PROVE  \E u \in DOMAIN users' : users'[u].email = e /\ users'[u].status = "Invited"
    <2>1. t \in DOMAIN todos /\ todos[t] = Pending(UserTodo(e))
      BY <1>6, <1>8, Titles
    <2> QED
      BY <1>1, <2>1 DEF PendingOwned, Invited
  <1> QED
    BY <1>5, <1>7, <1>8 DEF PendingOwned, Awaited, Invited

\* Activation leaves nothing of the application pending.
LEMMA ActivateApplicationOwned ==
    ASSUME AccessInv, PendingOwned, NEW i \in DOMAIN apps, ActivateApplication(i)
    PROVE  PendingOwned'
  <1> DEFINE n == apps[i].name
             touched == Touched(n, apps[i].key)
  <1>1. AccessTypeOK
    BY DEF AccessInv
  <1>2. /\ DOMAIN apps' = DOMAIN apps
        /\ \A o \in DOMAIN apps :
              /\ apps'[o].name = apps[o].name /\ apps'[o].seed = apps[o].seed
              /\ apps'[o].status = IF o = i THEN "Active" ELSE apps[o].status
        /\ DOMAIN keys' = DOMAIN keys
        /\ \A j \in DOMAIN keys :
              /\ keys'[j].project = keys[j].project
              /\ keys'[j].status = IF j \in touched THEN "Active" ELSE keys[j].status
        /\ todos' = Resolved(AppTodo(n))
        /\ UNCHANGED users
    BY <1>1, ActivateApplicationRows
  <1>3. \A j \in DOMAIN keys : keys[j].project = n => j \in touched
    BY DEF Touched
  <1> HIDE DEF touched
  <1>4. ASSUME NEW m, m # n,
               \E o \in DOMAIN apps : apps[o].name = m /\ ~apps[o].seed
                                      /\ apps[o].status = "Provisioning"
        PROVE  \E o \in DOMAIN apps' : apps'[o].name = m /\ ~apps'[o].seed
                                       /\ apps'[o].status = "Provisioning"
    BY <1>2, <1>4
  <1>5. ASSUME NEW j \in DOMAIN keys', keys'[j].status = "Provisioning"
        PROVE  \E o \in DOMAIN apps' : apps'[o].name = keys'[j].project /\ ~apps'[o].seed
                                       /\ apps'[o].status = "Provisioning"
    <2>1. /\ j \in DOMAIN keys /\ keys[j].status = "Provisioning" /\ keys[j].project # n
          /\ keys'[j].project = keys[j].project
      BY <1>2, <1>3, <1>5
    <2> QED
      BY <1>4, <2>1 DEF PendingOwned, Awaited
  <1>6. ASSUME NEW t \in DOMAIN todos', NEW title, todos'[t] = Pending(title)
        PROVE  t \in DOMAIN todos /\ todos[t] = Pending(title) /\ title # AppTodo(n)
    BY <1>1, <1>2, <1>6, ResolvedTodos
  <1>7. ASSUME NEW t \in DOMAIN todos', NEW m \in AppNames, todos'[t] = Pending(AppTodo(m))
        PROVE  \E o \in DOMAIN apps' : apps'[o].name = m /\ ~apps'[o].seed
                                       /\ apps'[o].status = "Provisioning"
    <2>1. t \in DOMAIN todos /\ todos[t] = Pending(AppTodo(m)) /\ m # n
      BY <1>6, <1>7
    <2> QED
      BY <1>4, <2>1 DEF PendingOwned, Awaited
  <1>8. ASSUME NEW t \in DOMAIN todos', NEW e \in Emails, todos'[t] = Pending(UserTodo(e))
        PROVE  \E u \in DOMAIN users' : users'[u].email = e /\ users'[u].status = "Invited"
    <2>1. t \in DOMAIN todos /\ todos[t] = Pending(UserTodo(e))
      BY <1>6, <1>8
    <2> QED
      BY <1>2, <2>1 DEF PendingOwned, Invited
  <1> QED
    BY <1>5, <1>7, <1>8 DEF PendingOwned, Awaited, Invited

\* The same for users.
LEMMA CreateUserOwned ==
    ASSUME AccessInv, PendingOwned, NEW e \in Emails, CreateUser(e)
    PROVE  PendingOwned'
  <1> DEFINE row == [email |-> e, status |-> "Invited"]
             todo == Pending(UserTodo(e))
  <1>1. /\ Added(users, users', row) /\ Added(todos, todos', todo)
        /\ UNCHANGED <<apps, keys>>
    BY CreateUserRows DEF AccessInv
  <1>2. row.email = e /\ row.status = "Invited"
    OBVIOUS
  <1> HIDE DEF row
  <1>3. \E u \in DOMAIN users' : users'[u].email = e /\ users'[u].status = "Invited"
    BY <1>1, <1>2 DEF Added
  <1>4. ASSUME NEW d, \E u \in DOMAIN users : users[u].email = d /\ users[u].status = "Invited"
        PROVE  \E u \in DOMAIN users' : users'[u].email = d /\ users'[u].status = "Invited"
    BY <1>1, <1>4 DEF Added
  <1>5. ASSUME NEW t \in DOMAIN todos', NEW title, todos'[t] = Pending(title)
        PROVE  (t \in DOMAIN todos /\ todos[t] = Pending(title)) \/ Pending(title) = todo
    BY <1>1, <1>5 DEF Added
  <1>6. ASSUME NEW t \in DOMAIN todos', NEW m \in AppNames, todos'[t] = Pending(AppTodo(m))
        PROVE  \E o \in DOMAIN apps' : apps'[o].name = m /\ ~apps'[o].seed
                                       /\ apps'[o].status = "Provisioning"
    <2>1. t \in DOMAIN todos /\ todos[t] = Pending(AppTodo(m))
      BY <1>5, <1>6, Titles
    <2> QED
      BY <1>1, <2>1 DEF PendingOwned, Awaited
  <1>7. ASSUME NEW t \in DOMAIN todos', NEW d \in Emails, todos'[t] = Pending(UserTodo(d))
        PROVE  \E u \in DOMAIN users' : users'[u].email = d /\ users'[u].status = "Invited"
    <2>1. CASE t \in DOMAIN todos /\ todos[t] = Pending(UserTodo(d))
      BY <1>4, <2>1 DEF PendingOwned, Invited
    <2>2. CASE Pending(UserTodo(d)) = todo
      BY <1>3, <2>2, Titles
    <2> QED
      BY <1>5, <1>7, <2>1, <2>2
  <1>8. \A j \in DOMAIN keys' : keys'[j].status = "Provisioning" =>
           \E o \in DOMAIN apps' : apps'[o].name = keys'[j].project /\ ~apps'[o].seed
                                   /\ apps'[o].status = "Provisioning"
    BY <1>1 DEF PendingOwned, Awaited
  <1> QED
    BY <1>6, <1>7, <1>8 DEF PendingOwned, Awaited, Invited

LEMMA ActivateUserOwned ==
    ASSUME AccessInv, PendingOwned, NEW u \in DOMAIN users, ActivateUser(u)
    PROVE  PendingOwned'
  <1> DEFINE e == users[u].email
  <1>1. AccessTypeOK
    BY DEF AccessInv
  <1>2. /\ DOMAIN users' = DOMAIN users
        /\ \A v \in DOMAIN users :
              /\ users'[v].email = users[v].email
              /\ users'[v].status = IF v = u THEN "Active" ELSE users[v].status
        /\ todos' = Resolved(UserTodo(e))
        /\ UNCHANGED <<apps, keys>>
    BY <1>1, ActivateUserRows
  <1>3. ASSUME NEW t \in DOMAIN todos', NEW title, todos'[t] = Pending(title)
        PROVE  t \in DOMAIN todos /\ todos[t] = Pending(title) /\ title # UserTodo(e)
    BY <1>1, <1>2, <1>3, ResolvedTodos
  <1>4. ASSUME NEW t \in DOMAIN todos', NEW m \in AppNames, todos'[t] = Pending(AppTodo(m))
        PROVE  \E o \in DOMAIN apps' : apps'[o].name = m /\ ~apps'[o].seed
                                       /\ apps'[o].status = "Provisioning"
    <2>1. t \in DOMAIN todos /\ todos[t] = Pending(AppTodo(m))
      BY <1>3, <1>4
    <2> QED
      BY <1>2, <2>1 DEF PendingOwned, Awaited
  <1>5. ASSUME NEW t \in DOMAIN todos', NEW d \in Emails, todos'[t] = Pending(UserTodo(d))
        PROVE  \E v \in DOMAIN users' : users'[v].email = d /\ users'[v].status = "Invited"
    <2>1. t \in DOMAIN todos /\ todos[t] = Pending(UserTodo(d)) /\ d # e
      BY <1>3, <1>5
    <2>2. PICK v \in DOMAIN users : users[v].email = d /\ users[v].status = "Invited"
      BY <2>1 DEF PendingOwned, Invited
    <2> QED
      BY <1>2, <2>1, <2>2
  <1>6. \A j \in DOMAIN keys' : keys'[j].status = "Provisioning" =>
           \E o \in DOMAIN apps' : apps'[o].name = keys'[j].project /\ ~apps'[o].seed
                                   /\ apps'[o].status = "Provisioning"
    BY <1>2 DEF PendingOwned, Awaited
  <1> QED
    BY <1>4, <1>5, <1>6 DEF PendingOwned, Awaited, Invited

LEMMA PendingKept ==
    ASSUME AccessInv, PendingOwned, AccessCall \/ AccessRest
    PROVE  PendingOwned'
  <1>0. AccessTypeOK
    BY DEF AccessInv
  <1>1. ASSUME (\E i \in DOMAIN apps : RotateInMemory(i))
                  \/ (\E c \in Clients : CommitRotation(c))
        PROVE  PendingOwned'
    <2>1. PICK i \in DOMAIN apps, old \in KeyNames, s \in 0 .. MaxSeconds : WriteRotation(i, old, s)
      BY <1>1, RotationWrites
    <2>2. /\ DOMAIN apps' = DOMAIN apps
          /\ \A o \in DOMAIN apps :
                /\ apps'[o].name = apps[o].name /\ apps'[o].seed = apps[o].seed
                /\ apps'[o].status = apps[o].status
          /\ \A j \in DOMAIN keys :
                /\ keys'[j].project = keys[j].project
                /\ keys'[j].status = IF j \in Touched(apps[i].name, old) THEN "Rotated"
                                     ELSE keys[j].status
          /\ \A j \in DOMAIN keys' \ DOMAIN keys :
                keys'[j] = Key(RotatedKey(old, s), apps[i].name, "Active")
          /\ UNCHANGED <<users, todos>>
      BY <1>0, <2>1, WriteRotationRows
    <2>3. \A j \in DOMAIN keys' \ DOMAIN keys : keys'[j].status = "Active"
      BY <2>2 DEF Key
    <2> QED
      BY <2>2, <2>3, OwnedStays
  <1>2. ASSUME NEW j \in DOMAIN keys, RevokeAPIKey(j)
        PROVE  PendingOwned'
    <2>1. /\ DOMAIN keys' = DOMAIN keys
          /\ \A k \in DOMAIN keys :
                /\ keys'[k].project = keys[k].project
                /\ keys'[k].status = IF k = j THEN "Revoked" ELSE keys[k].status
          /\ UNCHANGED <<apps, users, todos>>
      BY <1>0, <1>2, RevokeAPIKeyRows
    <2> QED
      BY <2>1, OwnedStays
  <1>3. ASSUME NEW t \in DOMAIN todos, ResolveTodo(t)
        PROVE  PendingOwned'
    <2>1. todos' = [todos EXCEPT ![t] = [todos[t] EXCEPT !.status = "Resolved"]]
          /\ UNCHANGED <<apps, keys, users>>
      BY <1>3 DEF ResolveTodo
    <2>2. todos[t] \in TodoRow
      BY <1>0, Typed
    <2>3. ASSUME NEW r \in DOMAIN todos', NEW title, todos'[r] = Pending(title)
          PROVE  r \in DOMAIN todos /\ todos[r] = Pending(title)
      <3>1. r # t
        BY <2>1, <2>2, <2>3 DEF Pending, TodoRow
      <3> QED
        BY <2>1, <2>3, <3>1
    <2> QED
      BY <2>1, <2>3, OwnedStays
  <1>4. CASE SeedAccessKeys
    <2>1. /\ \A j \in DOMAIN keys :
                /\ keys'[j].project = keys[j].project
                /\ keys'[j].status = "Active" \/ keys'[j].status = keys[j].status
          /\ \A j \in DOMAIN keys' \ DOMAIN keys : keys'[j] \in SeedKeyRows
          /\ UNCHANGED <<apps, users, todos>>
      BY <1>0, <1>4, SeedAccessKeysRows
    <2>2. \A r \in SeedKeyRows : r.status = "Active"
      BY DEF SeedKeyRows, Key
    <2> QED
      BY <2>1, <2>2, OwnedStays
  <1>5. CASE SeedApplications
    <2>1. /\ DOMAIN apps \subseteq DOMAIN apps'
          /\ \A i \in DOMAIN apps :
                /\ apps'[i].name = apps[i].name /\ apps'[i].seed = apps[i].seed
                /\ ~apps[i].seed => apps'[i].status = apps[i].status
          /\ UNCHANGED <<keys, users, todos>>
      BY <1>0, <1>5, SeedApplicationsRows
    <2> QED
      BY <2>1, OwnedStays
  <1>6. CASE \/ \E c \in Clients, i \in DOMAIN apps : ReadForRotation(c, i)
             \/ \E c \in Clients : AbortRotation(c)
             \/ StopSeeding
             \/ NextSecond
    <2>1. UNCHANGED <<apps, keys, users, todos>>
      BY <1>6 DEF ReadForRotation, AbortRotation, StopSeeding, NextSecond
    <2> QED
      BY <2>1, OwnedStays
  <1> QED
    BY <1>1, <1>2, <1>3, <1>4, <1>5, <1>6, CreateApplicationOwned, ActivateApplicationOwned,
       CreateUserOwned, ActivateUserOwned DEF AccessCall, AccessRest

-----------------------------------------------------------------------------
(* The key an application shows is a row.                                  *)

LEMMA TwoStores == AccessInv => store \in {"memory", "postgres"}
  BY StoresAssumption DEF AccessInv, AccessTypeOK

\* Who stands alone after a step that keeps the names, and in memory what the
\* keys were made of, has stood alone before.
LEMMA AloneBefore ==
    ASSUME UNCHANGED store, DOMAIN apps \subseteq DOMAIN apps',
           \A i \in DOMAIN apps :
              /\ apps'[i].name = apps[i].name
              /\ store = "memory" => apps'[i].key.of = apps[i].key.of,
           NEW i \in DOMAIN apps, Alone(i)'
    PROVE  Alone(i)
  BY DEF Alone

\* An application whose row stays, and is not rotated out, stays listed.
LEMMA ListedOn ==
    ASSUME KeyListed, UNCHANGED store, KeysGrow, DOMAIN apps \subseteq DOMAIN apps',
           \A o \in DOMAIN apps :
              /\ apps'[o].name = apps[o].name
              /\ store = "memory" => apps'[o].key.of = apps[o].key.of,
           NEW i \in DOMAIN apps, ~Keyless(i), apps'[i].key = apps[i].key,
           Alone(i) /\ apps[i].name \notin crossed' =>
              /\ apps[i].name \notin crossed
              /\ \A j \in DOMAIN keys :
                    keys[j].name = apps[i].key /\ keys[j].project = apps[i].name
                    /\ keys'[j].status = "Rotated" => keys[j].status = "Rotated"
    PROVE  \E j \in DOMAIN keys' :
              /\ keys'[j].name = apps'[i].key
              /\ keys'[j].project = apps'[i].name
              /\ Alone(i)' /\ apps'[i].name \notin crossed' => keys'[j].status # "Rotated"
  <1>1. PICK j \in DOMAIN keys :
           /\ keys[j].name = apps[i].key
           /\ keys[j].project = apps[i].name
           /\ Alone(i) /\ apps[i].name \notin crossed => keys[j].status # "Rotated"
    BY DEF KeyListed
  <1>2. j \in DOMAIN keys' /\ keys'[j].name = keys[j].name /\ keys'[j].project = keys[j].project
    BY DEF KeysGrow
  <1>3. Alone(i)' => Alone(i)
    BY AloneBefore
  <1> QED
    BY <1>1, <1>2, <1>3

\* Steps that add no row, change no key and rotate none out.
LEMMA ListedStays ==
    ASSUME AccessInv, ListedInv, UNCHANGED <<store, crossed>>,
           DOMAIN apps' = DOMAIN apps,
           \A i \in DOMAIN apps :
              /\ apps'[i].name = apps[i].name /\ apps'[i].seed = apps[i].seed
              /\ apps'[i].key = apps[i].key,
           DOMAIN keys' = DOMAIN keys,
           \A j \in DOMAIN keys :
              /\ keys'[j].name = keys[j].name /\ keys'[j].project = keys[j].project
              /\ keys'[j].status = "Rotated" => keys[j].status = "Rotated",
           store = "postgres" =>
              \A u, v \in DOMAIN users' : users'[u].email = users'[v].email => u = v,
           seeding' = seeding \/ seeding' = "idle",
           \A c \in Clients :
              \/ rotation'[c] = NoRotation
              \/ rotation'[c] = rotation[c]
              \/ /\ store = "postgres" /\ rotation'[c].app \in DOMAIN apps
                 /\ rotation'[c].old = apps[rotation'[c].app].key
    PROVE  ListedInv'
  <1>1. KeysGrow
    BY DEF KeysGrow
  <1>2. InMemory'
    BY DEF ListedInv, InMemory
  <1>3. Unique'
    BY DEF ListedInv, Unique
  <1>4. FirstKeys'
    BY DEF ListedInv, FirstKeys
  <1>5. KeylessBare'
    BY DEF ListedInv, KeylessBare, Keyless
  <1>6. OldListed'
    <2> SUFFICES ASSUME NEW c \in Clients, rotation'[c] # NoRotation
                 PROVE  \/ Bare(rotation'[c].old)
                        \/ HasRow(keys', rotation'[c].old, apps'[rotation'[c].app].name)
      BY DEF OldListed
    <2>1. CASE rotation'[c] = rotation[c]
      <3>1. /\ rotation[c].app \in DOMAIN apps
            /\ \/ Bare(rotation[c].old)
               \/ HasRow(keys, rotation[c].old, apps[rotation[c].app].name)
        BY <2>1 DEF ListedInv, OldListed, AccessInv, RotationsRead
      <3> QED
        BY <1>1, <2>1, <3>1, RowStays
    <2>2. ASSUME NEW i \in DOMAIN apps, rotation'[c].app = i, rotation'[c].old = apps[i].key
          PROVE  \/ Bare(rotation'[c].old)
                 \/ HasRow(keys', rotation'[c].old, apps'[rotation'[c].app].name)
      <3>1. CASE Keyless(i)
        BY <2>2, <3>1 DEF ListedInv, KeylessBare
      <3>2. CASE ~Keyless(i)
        <4>1. HasRow(keys, apps[i].key, apps[i].name)
          BY <3>2 DEF ListedInv, KeyListed, HasRow
        <4> QED
          BY <1>1, <2>2, <4>1, RowStays
      <3> QED
        BY <3>1, <3>2
    <2> QED
      BY <2>1, <2>2
  <1>7. SeedsListed'
    <2> SUFFICES ASSUME seeding' = "keys", NEW n \in SeededKeys
                 PROVE  \E j \in DOMAIN keys' :
                           keys'[j].name = SeedKey(n) /\ (keys'[j].status = "Rotated" => n \in crossed')
      BY DEF SeedsListed
    <2>1. PICK j \in DOMAIN keys :
             keys[j].name = SeedKey(n) /\ (keys[j].status = "Rotated" => n \in crossed)
      BY DEF ListedInv, SeedsListed
    <2> QED
      BY <2>1
  <1>8. KeyListed'
    <2> SUFFICES ASSUME NEW i \in DOMAIN apps', ~Keyless(i)'
                 PROVE  \E j \in DOMAIN keys' :
                           /\ keys'[j].name = apps'[i].key
                           /\ keys'[j].project = apps'[i].name
                           /\ Alone(i)' /\ apps'[i].name \notin crossed' => keys'[j].status # "Rotated"
      BY DEF KeyListed
    <2>1. i \in DOMAIN apps /\ ~Keyless(i)
      BY DEF Keyless
    <2> QED
      BY <1>1, <2>1, ListedOn DEF ListedInv
  <1> QED
    BY <1>2, <1>3, <1>4, <1>5, <1>6, <1>7, <1>8 DEF ListedInv

LEMMA CreateApplicationListed ==
    ASSUME AccessInv, ListedInv, NEW n \in AppNames, CreateApplication(n)
    PROVE  ListedInv'
  <1>0. AccessTypeOK /\ store \in {"memory", "postgres"}
    BY TwoStores DEF AccessInv
  <1>1. /\ Added(apps, apps', App(n, NewKey(n), "Provisioning", FALSE))
        /\ Added(keys, keys', Key(NewKey(n), n, "Provisioning"))
        /\ store = "postgres" => \A i \in DOMAIN apps : apps[i].name # n
        /\ UNCHANGED <<store, users, rotation, second, seeding, seedings, retired, crossed>>
    BY <1>0, CreateApplicationRows
  <1>2. PICK a \in DOMAIN apps' :
           /\ a \notin DOMAIN apps /\ DOMAIN apps' = DOMAIN apps \cup {a}
           /\ \A i \in DOMAIN apps : apps'[i] = apps[i]
           /\ apps'[a] = App(n, NewKey(n), "Provisioning", FALSE)
    BY <1>1 DEF Added
  <1>3. PICK b \in DOMAIN keys' :
           /\ b \notin DOMAIN keys /\ DOMAIN keys' = DOMAIN keys \cup {b}
           /\ \A j \in DOMAIN keys : keys'[j] = keys[j]
           /\ keys'[b] = Key(NewKey(n), n, "Provisioning")
    BY <1>1 DEF Added
  <1>4. apps'[a].name = n /\ apps'[a].key = NewKey(n) /\ apps'[a].seed = FALSE
    BY <1>2 DEF App
  <1>5. keys'[b].name = NewKey(n) /\ keys'[b].project = n /\ keys'[b].status = "Provisioning"
    BY <1>3 DEF Key
  <1>6. KeysGrow
    BY <1>3 DEF KeysGrow
  <1>7. InMemory'
    BY <1>1 DEF ListedInv, InMemory
  <1>8. Unique'
    <2> SUFFICES ASSUME store = "postgres"
                 PROVE  /\ \A i, o \in DOMAIN apps' : apps'[i].name = apps'[o].name => i = o
                        /\ \A j, k \in DOMAIN keys' : keys'[j].name = keys'[k].name => j = k
      BY <1>1 DEF ListedInv, Unique
    <2>1. ASSUME NEW j \in DOMAIN keys, keys[j].name = NewKey(n)
          PROVE  FALSE
      <3>1. NewKey(n).from = "clock" /\ NewKey(n).of = n /\ NewKey(n).rotated = <<>>
        BY DEF NewKey, ClockKey
      <3>2. \E i \in DOMAIN apps : apps[i].name = n
        BY <2>1, <3>1 DEF ListedInv, FirstKeys
      <3> QED
        BY <1>1, <3>2
    <2>2. \A i, o \in DOMAIN apps' : apps'[i].name = apps'[o].name => i = o
      BY <1>1, <1>2, <1>4 DEF ListedInv, Unique
    <2>3. \A j, k \in DOMAIN keys' : keys'[j].name = keys'[k].name => j = k
      BY <1>3, <1>5, <2>1 DEF ListedInv, Unique
    <2> QED
      BY <2>2, <2>3
  <1>9. FirstKeys'
    <2> SUFFICES ASSUME store = "postgres", NEW j \in DOMAIN keys', keys'[j].name.rotated = <<>>
                 PROVE  \/ /\ keys'[j].name.from = "slug"
                           /\ keys'[j].name.of \in {DemoSlug[m] : m \in SeededKeys}
                        \/ /\ keys'[j].name.from = "clock"
                           /\ \E i \in DOMAIN apps' : apps'[i].name = keys'[j].name.of
      BY <1>1 DEF FirstKeys
    <2>1. CASE j \in DOMAIN keys
      BY <1>2, <1>3, <2>1 DEF ListedInv, FirstKeys
    <2>2. CASE j = b
      <3>1. NewKey(n).from = "clock" /\ NewKey(n).of = n
        BY DEF NewKey, ClockKey
      <3> QED
        BY <1>4, <1>5, <2>2, <3>1
    <2> QED
      BY <1>3, <2>1, <2>2
  <1>10. KeylessBare'
    BY <1>2, <1>4 DEF ListedInv, KeylessBare, Keyless
  <1>11. OldListed'
    <2> SUFFICES ASSUME NEW c \in Clients, rotation[c] # NoRotation
                 PROVE  \/ Bare(rotation[c].old)
                        \/ HasRow(keys', rotation[c].old, apps'[rotation[c].app].name)
      BY <1>1 DEF OldListed
    <2>1. /\ rotation[c].app \in DOMAIN apps
          /\ \/ Bare(rotation[c].old)
             \/ HasRow(keys, rotation[c].old, apps[rotation[c].app].name)
      BY DEF ListedInv, OldListed, AccessInv, RotationsRead
    <2> QED
      BY <1>2, <1>6, <2>1, RowStays
  <1>12. SeedsListed'
    BY <1>1, <1>3 DEF ListedInv, SeedsListed
  <1>13. KeyListed'
    <2> SUFFICES ASSUME NEW i \in DOMAIN apps', ~Keyless(i)'
                 PROVE  \E j \in DOMAIN keys' :
                           /\ keys'[j].name = apps'[i].key
                           /\ keys'[j].project = apps'[i].name
                           /\ Alone(i)' /\ apps'[i].name \notin crossed' => keys'[j].status # "Rotated"
      BY DEF KeyListed
    <2>1. CASE i = a
      BY <1>4, <1>5, <2>1
    <2>2. CASE i \in DOMAIN apps
      <3>1. ~Keyless(i)
        BY <1>2, <2>2 DEF Keyless
      <3> QED
        BY <1>1, <1>2, <1>3, <1>6, <2>2, <3>1, ListedOn DEF ListedInv
    <2> QED
      BY <1>2, <2>1, <2>2
  <1> QED
    BY <1>7, <1>8, <1>9, <1>10, <1>11, <1>12, <1>13 DEF ListedInv

\* A rotation retires only rows of its own application, as far as an
\* application shows them that shares neither its name nor its key's slug.
LEMMA OthersUntouched ==
    ASSUME AccessInv, ListedInv, NEW i \in DOMAIN apps, NEW old,
           \/ store = "memory" /\ old = apps[i].key
           \/ store = "postgres" /\ (Bare(old) \/ HasRow(keys, old, apps[i].name)),
           NEW o \in DOMAIN apps, o # i, Alone(o), NEW j \in DOMAIN keys,
           keys[j].name = apps[o].key, keys[j].project = apps[o].name
    PROVE  j \notin Touched(apps[i].name, old)
  <1>1. apps[o].name # apps[i].name
    BY DEF Alone
  <1>2. CASE store = "memory" /\ old = apps[i].key
    <2>1. apps[o].key # apps[i].key
      BY <1>2 DEF Alone
    <2> QED
      BY <1>1, <1>2, <2>1 DEF Touched
  <1>3. CASE store = "postgres" /\ Bare(old)
    <2>1. ASSUME keys[j].name = old PROVE FALSE
      <3>1. /\ old.from = "slug" /\ old.rotated = <<>>
            /\ \E m \in SeededApps \ SeededKeys : old.of = DemoSlug[m]
        BY <1>3 DEF Bare
      <3>2. \E n \in SeededKeys : old.of = DemoSlug[n]
        BY <1>3, <2>1, <3>1 DEF ListedInv, FirstKeys
      <3> QED
        BY <3>1, <3>2, SeedsAssumption, DemoSlugAssumption
    <2> QED
      BY <1>1, <2>1 DEF Touched
  <1>4. CASE store = "postgres" /\ HasRow(keys, old, apps[i].name)
    <2>1. PICK k \in DOMAIN keys : keys[k].name = old /\ keys[k].project = apps[i].name
      BY <1>4 DEF HasRow
    <2>2. keys[j].name # old
      BY <1>1, <1>4, <2>1 DEF ListedInv, Unique
    <2> QED
      BY <1>1, <2>2 DEF Touched
  <1> QED
    BY <1>2, <1>3, <1>4

LEMMA RotationListed ==
    ASSUME AccessInv, ListedInv,
           (\E i \in DOMAIN apps : RotateInMemory(i)) \/ (\E c \in Clients : CommitRotation(c))
    PROVE  ListedInv'
  <1>0. AccessTypeOK /\ store \in {"memory", "postgres"}
    BY TwoStores DEF AccessInv
  <1>1. PICK i \in DOMAIN apps, old \in KeyNames, s \in 0 .. MaxSeconds :
           /\ WriteRotation(i, old, s)
           /\ \/ store = "memory" /\ old = apps[i].key /\ UNCHANGED rotation
              \/ \E c \in Clients :
                    /\ rotation[c] # NoRotation /\ rotation[c].app = i /\ rotation[c].old = old
                    /\ rotation' = [rotation EXCEPT ![c] = NoRotation]
                    /\ \A j \in DOMAIN keys : keys[j].name # RotatedKey(old, s)
    BY RotationWrites
  <1> DEFINE new == RotatedKey(old, s)
             name == apps[i].name
             gone == Touched(name, old)
  <1>2. /\ \/ store = "memory" /\ old = apps[i].key
           \/ /\ store = "postgres" /\ (Bare(old) \/ HasRow(keys, old, name))
              /\ \A j \in DOMAIN keys : keys[j].name # new
        /\ \A c \in Clients : rotation'[c] = NoRotation \/ rotation'[c] = rotation[c]
    <2>1. CASE store = "memory" /\ old = apps[i].key /\ UNCHANGED rotation
      BY <2>1
    <2>2. ASSUME NEW c \in Clients, rotation[c] # NoRotation, rotation[c].app = i,
                 rotation[c].old = old, rotation' = [rotation EXCEPT ![c] = NoRotation],
                 \A j \in DOMAIN keys : keys[j].name # new
          PROVE  /\ store = "postgres" /\ (Bare(old) \/ HasRow(keys, old, name))
                 /\ \A o \in Clients : rotation'[o] = NoRotation \/ rotation'[o] = rotation[o]
      <3>1. store = "postgres"
        BY <1>0, <2>2 DEF ListedInv, InMemory
      <3>2. Bare(old) \/ HasRow(keys, old, name)
        BY <2>2 DEF ListedInv, OldListed
      <3>3. rotation \in [Clients -> [app : Nat, old : KeyNames, since : Nat]]
        BY <1>0, Typed
      <3> QED
        BY <2>2, <3>1, <3>2, <3>3
    <2> QED
      BY <1>1, <2>1, <2>2
  <1>3. /\ new.from = old.from /\ new.of = old.of /\ new.rotated # <<>>
        /\ \A n \in SeededKeys : new # SeedKey(n)
    <2>1. old.rotated \in Seq(0 .. MaxSeconds) /\ new = [old EXCEPT !.rotated = Append(old.rotated, s)]
      BY DEF KeyNames, RotatedKey
    <2>2. Append(old.rotated, s) # <<>>
      BY <2>1
    <2>3. \A n \in SeededKeys : new # SeedKey(n)
      BY RotatedKeyType
    <2> QED
      BY <2>1, <2>2, <2>3 DEF KeyNames
  <1> HIDE DEF new, gone
  <1>4. /\ DOMAIN apps' = DOMAIN apps
        /\ \A o \in DOMAIN apps :
              /\ apps'[o].name = apps[o].name /\ apps'[o].seed = apps[o].seed
              /\ apps'[o].key = IF o = i THEN new ELSE apps[o].key
        /\ DOMAIN keys \subseteq DOMAIN keys'
        /\ \A j \in DOMAIN keys :
              /\ keys'[j].name = keys[j].name /\ keys'[j].project = keys[j].project
              /\ keys'[j].status = IF j \in gone THEN "Rotated" ELSE keys[j].status
    BY <1>0, <1>1, WriteRotationRows DEF new, gone
  <1>5. PICK b \in DOMAIN keys' :
           /\ DOMAIN keys' = DOMAIN keys \cup {b} /\ b \notin DOMAIN keys
           /\ keys'[b] = Key(new, name, "Active")
    <2>1. PICK b \in DOMAIN keys' : DOMAIN keys' = DOMAIN keys \cup {b} /\ b \notin DOMAIN keys
      BY <1>0, <1>1, WriteRotationRows
    <2>2. \A j \in DOMAIN keys' \ DOMAIN keys :
             keys'[j] = Key(RotatedKey(old, s), apps[i].name, "Active")
      BY <1>0, <1>1, WriteRotationRows
    <2> QED
      BY <2>1, <2>2 DEF new
  <1>6. keys'[b].name = new /\ keys'[b].project = name /\ keys'[b].status = "Active"
    BY <1>5 DEF Key
  <1>7. /\ crossed' = IF seeding = "keys" THEN crossed \cup {name} ELSE crossed \ {name}
        /\ UNCHANGED <<store, users, seeding>>
    BY <1>0, <1>1, WriteRotationRows
  <1>8. KeysGrow
    BY <1>4 DEF KeysGrow
  <1>9. InMemory'
    BY <1>2, <1>7 DEF ListedInv, InMemory
  <1>16. \A o \in DOMAIN apps : store = "memory" => apps'[o].key.of = apps[o].key.of
    BY <1>2, <1>3, <1>4
  <1>10. Unique'
    <2> SUFFICES ASSUME store = "postgres"
                 PROVE  /\ \A k, o \in DOMAIN apps' : apps'[k].name = apps'[o].name => k = o
                        /\ \A j, k \in DOMAIN keys' : keys'[j].name = keys'[k].name => j = k
      BY <1>7 DEF ListedInv, Unique
    <2>1. \A k, o \in DOMAIN apps' : apps'[k].name = apps'[o].name => k = o
      BY <1>4 DEF ListedInv, Unique
    <2>2. \A j \in DOMAIN keys : keys'[j].name # new
      BY <1>2, <1>4
    <2>3. \A j, k \in DOMAIN keys' : keys'[j].name = keys'[k].name => j = k
      BY <1>4, <1>5, <1>6, <2>2 DEF ListedInv, Unique
    <2> QED
      BY <2>1, <2>3
  <1>11. FirstKeys'
    BY <1>3, <1>4, <1>5, <1>6, <1>7 DEF ListedInv, FirstKeys
  <1>12. KeylessBare'
    BY <1>3, <1>4 DEF ListedInv, KeylessBare, Keyless
  <1>13. OldListed'
    <2> SUFFICES ASSUME NEW c \in Clients, rotation'[c] # NoRotation
                 PROVE  \/ Bare(rotation'[c].old)
                        \/ HasRow(keys', rotation'[c].old, apps'[rotation'[c].app].name)
      BY DEF OldListed
    <2>1. rotation'[c] = rotation[c]
      BY <1>2
    <2>2. /\ rotation[c].app \in DOMAIN apps
          /\ \/ Bare(rotation[c].old)
             \/ HasRow(keys, rotation[c].old, apps[rotation[c].app].name)
      BY <2>1 DEF ListedInv, OldListed, AccessInv, RotationsRead
    <2> QED
      BY <1>4, <1>8, <2>1, <2>2, RowStays
  <1>14. SeedsListed'
    <2> SUFFICES ASSUME seeding = "keys", NEW n \in SeededKeys
                 PROVE  \E j \in DOMAIN keys' :
                           keys'[j].name = SeedKey(n) /\ (keys'[j].status = "Rotated" => n \in crossed')
      BY <1>7 DEF SeedsListed
    <2>1. PICK j \in DOMAIN keys :
             keys[j].name = SeedKey(n) /\ (keys[j].status = "Rotated" => n \in crossed)
      BY DEF ListedInv, SeedsListed
    <2>2. store = "postgres" /\ keys[j].project = n
      BY <1>0, <2>1 DEF ListedInv, InMemory, AccessInv, SeedsKept
    <2>3. ASSUME j \in gone PROVE n = name
      <3>1. CASE keys[j].project = name
        BY <2>2, <3>1
      <3>2. CASE keys[j].name = old
        <4>1. store = "postgres"
          BY <2>2
        <4>2. ~Bare(old)
          BY <2>1, <3>2, SeedsAssumption, DemoSlugAssumption DEF SeedKey, Bare
        <4>3. PICK k \in DOMAIN keys : keys[k].name = old /\ keys[k].project = name
          BY <1>2, <4>1, <4>2 DEF HasRow
        <4>4. k = j
          BY <3>2, <4>1, <4>3 DEF ListedInv, Unique
        <4> QED
          BY <2>2, <4>3, <4>4
      <3> QED
        BY <2>3, <3>1, <3>2 DEF gone, Touched
    <2> QED
      BY <1>4, <1>7, <2>1, <2>3
  <1>15. KeyListed'
    <2> SUFFICES ASSUME NEW o \in DOMAIN apps', ~Keyless(o)'
                 PROVE  \E j \in DOMAIN keys' :
                           /\ keys'[j].name = apps'[o].key
                           /\ keys'[j].project = apps'[o].name
                           /\ Alone(o)' /\ apps'[o].name \notin crossed' => keys'[j].status # "Rotated"
      BY DEF KeyListed
    <2>1. CASE o = i
      <3>1. apps'[o].key = new /\ apps'[o].name = name
        BY <1>4, <2>1
      <3> QED
        BY <1>6, <3>1
    <2>2. CASE o # i
      <3>1. o \in DOMAIN apps /\ apps'[o].key = apps[o].key /\ ~Keyless(o)
        BY <1>4, <2>2 DEF Keyless
      <3>2. ASSUME Alone(o), apps[o].name \notin crossed'
            PROVE  /\ apps[o].name \notin crossed
                   /\ \A j \in DOMAIN keys :
                         keys[j].name = apps[o].key /\ keys[j].project = apps[o].name
                         /\ keys'[j].status = "Rotated" => keys[j].status = "Rotated"
        <4>1. apps[o].name # name
          BY <2>2, <3>1, <3>2 DEF Alone
        <4>2. apps[o].name \notin crossed
          BY <1>7, <3>2, <4>1
        <4>3. ASSUME NEW j \in DOMAIN keys, keys[j].name = apps[o].key,
                     keys[j].project = apps[o].name
              PROVE  j \notin gone
          BY <1>2, <2>2, <3>1, <3>2, <4>3, OthersUntouched DEF gone
        <4> QED
          BY <1>4, <4>2, <4>3
      <3> QED
        BY <1>4, <1>7, <1>8, <1>16, <3>1, <3>2, ListedOn DEF ListedInv
    <2> QED
      BY <2>1, <2>2
  <1> QED
    BY <1>9, <1>10, <1>11, <1>12, <1>13, <1>14, <1>15 DEF ListedInv

LEMMA SeedAccessKeysListed ==
    ASSUME AccessInv, ListedInv, SeedAccessKeys
    PROVE  ListedInv'
  <1>0. AccessTypeOK
    BY DEF AccessInv
  <1>1. /\ DOMAIN keys \subseteq DOMAIN keys'
        /\ \A j \in DOMAIN keys :
              /\ keys'[j].name = keys[j].name /\ keys'[j].project = keys[j].project
              /\ keys'[j].status = "Active" \/ keys'[j].status = keys[j].status
        /\ \A j \in DOMAIN keys' \ DOMAIN keys :
              /\ keys'[j] \in SeedKeyRows
              /\ \A k \in DOMAIN keys : keys[k].name # keys'[j].name
        /\ \A j, k \in DOMAIN keys' \ DOMAIN keys : keys'[j] = keys'[k] => j = k
    BY <1>0, SeedAccessKeysRows
  <1>2. /\ \A n \in SeededKeys : \E j \in DOMAIN keys' :
              keys'[j].name = SeedKey(n) /\ keys'[j].status = "Active"
        /\ store = "postgres" /\ seeding' = "keys"
        /\ UNCHANGED <<store, apps, users, todos, rotation, second, crossed>>
    BY <1>0, SeedAccessKeysRows
  <1>3. \A r \in SeedKeyRows :
           r.name.from = "slug" /\ r.name.of \in {DemoSlug[n] : n \in SeededKeys}
    BY DEF SeedKeyRows, Key, SeedKey
  <1>4. ASSUME NEW r \in SeedKeyRows, NEW q \in SeedKeyRows, r.name = q.name
        PROVE  r = q
    <2>1. PICK n \in SeededKeys : r = Key(SeedKey(n), n, "Active")
      BY DEF SeedKeyRows
    <2>2. PICK m \in SeededKeys : q = Key(SeedKey(m), m, "Active")
      BY DEF SeedKeyRows
    <2>3. SeedKey(n) = SeedKey(m)
      BY <1>4, <2>1, <2>2 DEF Key
    <2>4. n = m
      BY <2>3, SeedKeysDiffer, SeedsAssumption
    <2> QED
      BY <2>1, <2>2, <2>4
  <1>5. KeysGrow
    BY <1>1 DEF KeysGrow
  <1>6. InMemory'
    BY <1>2 DEF InMemory
  <1>7. Unique'
    <2>1. \A j, k \in DOMAIN keys' \ DOMAIN keys : keys'[j].name = keys'[k].name => j = k
      BY <1>1, <1>4
    <2>2. \A j, k \in DOMAIN keys' : keys'[j].name = keys'[k].name => j = k
      BY <1>1, <1>2, <2>1 DEF ListedInv, Unique
    <2> QED
      BY <1>2, <2>2 DEF ListedInv, Unique
  <1>8. FirstKeys'
    BY <1>1, <1>2, <1>3 DEF ListedInv, FirstKeys
  <1>9. KeylessBare'
    BY <1>2 DEF ListedInv, KeylessBare, Keyless
  <1>10. OldListed'
    BY <1>2, <1>5, RowStays DEF ListedInv, OldListed
  <1>11. SeedsListed'
    BY <1>2 DEF SeedsListed
  <1>12. KeyListed'
    <2> SUFFICES ASSUME NEW i \in DOMAIN apps', ~Keyless(i)'
                 PROVE  \E j \in DOMAIN keys' :
                           /\ keys'[j].name = apps'[i].key
                           /\ keys'[j].project = apps'[i].name
                           /\ Alone(i)' /\ apps'[i].name \notin crossed' => keys'[j].status # "Rotated"
      BY DEF KeyListed
    <2>1. i \in DOMAIN apps /\ ~Keyless(i)
      BY <1>2 DEF Keyless
    <2>2. \A j \in DOMAIN keys : keys'[j].status = "Rotated" => keys[j].status = "Rotated"
      BY <1>1
    <2> QED
      BY <1>2, <1>5, <2>1, <2>2, ListedOn DEF ListedInv
  <1> QED
    BY <1>6, <1>7, <1>8, <1>9, <1>10, <1>11, <1>12 DEF ListedInv

LEMMA SeedApplicationsListed ==
    ASSUME AccessInv, ListedInv, SeedApplications
    PROVE  ListedInv'
  <1>0. AccessTypeOK /\ store \in {"memory", "postgres"}
    BY TwoStores DEF AccessInv
  <1>1. /\ DOMAIN apps \subseteq DOMAIN apps'
        /\ \A i \in DOMAIN apps :
              /\ apps'[i].name = apps[i].name /\ apps'[i].seed = apps[i].seed
              /\ apps'[i].key = IF apps[i].seed THEN SeedKey(apps[i].name) ELSE apps[i].key
        /\ \A i \in DOMAIN apps' \ DOMAIN apps :
              /\ apps'[i] \in SeedRows
              /\ \A o \in DOMAIN apps : apps[o].name # apps'[i].name
        /\ \A i, o \in DOMAIN apps' \ DOMAIN apps : apps'[i] = apps'[o] => i = o
        /\ seeding = "keys" /\ seeding' = "idle"
        /\ UNCHANGED <<store, keys, users, todos, rotation, second, seedings, crossed>>
    BY <1>0, SeedApplicationsRows
  <1>2. store = "postgres"
    BY <1>0, <1>1 DEF ListedInv, InMemory
  <1>3. \A r \in SeedRows : r.seed /\ r.key = SeedKey(r.name) /\ r.name \in SeededApps
    BY DEF SeedRows, App
  <1>4. ASSUME NEW r \in SeedRows, NEW q \in SeedRows, r.name = q.name
        PROVE  r = q
    <2>1. PICK n \in SeededApps : r = App(n, SeedKey(n), SeedStatus(n), TRUE)
      BY DEF SeedRows
    <2>2. PICK m \in SeededApps : q = App(m, SeedKey(m), SeedStatus(m), TRUE)
      BY DEF SeedRows
    <2>3. r.name = n /\ q.name = m
      BY <2>1, <2>2 DEF App
    <2> QED
      BY <1>4, <2>1, <2>2, <2>3
  <1>5. \A i \in DOMAIN apps' : apps'[i].seed => apps'[i].key = SeedKey(apps'[i].name)
                                                 /\ apps'[i].name \in SeededApps
    BY <1>1, <1>3 DEF AccessInv, SeedsKept
  <1>6. InMemory'
    BY <1>1, <1>2 DEF InMemory
  <1>7. Unique'
    <2>1. \A i, o \in DOMAIN apps' \ DOMAIN apps : apps'[i].name = apps'[o].name => i = o
      BY <1>1, <1>4
    <2>2. \A i, o \in DOMAIN apps' : apps'[i].name = apps'[o].name => i = o
      BY <1>1, <1>2, <2>1 DEF ListedInv, Unique
    <2> QED
      BY <1>1, <2>2 DEF ListedInv, Unique
  <1>8. FirstKeys'
    BY <1>1 DEF ListedInv, FirstKeys
  <1>9. KeylessBare'
    <2> SUFFICES ASSUME NEW i \in DOMAIN apps', Keyless(i)'
                 PROVE  Bare(apps'[i].key)
      BY DEF KeylessBare
    <2>1. /\ apps'[i].key = SeedKey(apps'[i].name)
          /\ apps'[i].name \in SeededApps \ SeededKeys
      BY <1>5 DEF Keyless
    <2> QED
      BY <2>1 DEF SeedKey, Bare
  <1>10. OldListed'
    BY <1>1 DEF ListedInv, OldListed, AccessInv, RotationsRead
  <1>11. SeedsListed'
    BY <1>1 DEF SeedsListed
  <1>12. KeyListed'
    <2> SUFFICES ASSUME NEW i \in DOMAIN apps', ~Keyless(i)'
                 PROVE  \E j \in DOMAIN keys' :
                           /\ keys'[j].name = apps'[i].key
                           /\ keys'[j].project = apps'[i].name
                           /\ Alone(i)' /\ apps'[i].name \notin crossed' => keys'[j].status # "Rotated"
      BY DEF KeyListed
    <2>1. CASE apps'[i].seed
      <3>1. apps'[i].key = SeedKey(apps'[i].name) /\ apps'[i].name \in SeededApps
        BY <1>5, <2>1
      <3>2. apps'[i].name \in SeededKeys
        <4>1. CASE apps'[i].name \notin SeededKeys
          <5>1. apps'[i].key.rotated = <<>>
            BY <3>1, <4>1 DEF SeedKey
          <5> QED
            BY <2>1, <4>1, <5>1 DEF Keyless
        <4> QED
          BY <4>1
      <3>3. PICK j \in DOMAIN keys :
               /\ keys[j].name = SeedKey(apps'[i].name)
               /\ keys[j].status = "Rotated" => apps'[i].name \in crossed
        BY <1>1, <3>2 DEF ListedInv, SeedsListed
      <3>4. keys[j].project = apps'[i].name
        BY <1>2, <3>2, <3>3 DEF AccessInv, SeedsKept
      <3> QED
        BY <1>1, <3>1, <3>3, <3>4
    <2>2. CASE ~apps'[i].seed
      <3>1. i \in DOMAIN apps /\ ~apps[i].seed
        BY <1>1, <1>3, <2>2
      <3>2. ~Keyless(i) /\ apps'[i].key = apps[i].key /\ KeysGrow
        BY <1>1, <3>1 DEF Keyless, KeysGrow
      <3> QED
        BY <1>1, <1>2, <3>1, <3>2, ListedOn DEF ListedInv
    <2> QED
      BY <2>1, <2>2
  <1> QED
    BY <1>6, <1>7, <1>8, <1>9, <1>10, <1>11, <1>12 DEF ListedInv

LEMMA ListedKept ==
    ASSUME AccessInv, ListedInv, AccessCall \/ AccessRest
    PROVE  ListedInv'
  <1>0. AccessTypeOK
    BY DEF AccessInv
  <1>1. ASSUME UNCHANGED users
        PROVE  store = "postgres" =>
                  \A u, v \in DOMAIN users' : users'[u].email = users'[v].email => u = v
    BY <1>1 DEF ListedInv, Unique
  <1>2. ASSUME NEW i \in DOMAIN apps, ActivateApplication(i)
        PROVE  ListedInv'
    <2>1. /\ DOMAIN apps' = DOMAIN apps
          /\ \A o \in DOMAIN apps :
                /\ apps'[o].name = apps[o].name /\ apps'[o].seed = apps[o].seed
                /\ apps'[o].key = apps[o].key
          /\ DOMAIN keys' = DOMAIN keys
          /\ \A j \in DOMAIN keys :
                /\ keys'[j].name = keys[j].name /\ keys'[j].project = keys[j].project
                /\ keys'[j].status = "Active" \/ keys'[j].status = keys[j].status
          /\ UNCHANGED <<store, users, rotation, seeding, crossed>>
      BY <1>0, <1>2, ActivateApplicationRows
    <2>2. \A j \in DOMAIN keys : keys'[j].status = "Rotated" => keys[j].status = "Rotated"
      BY <2>1
    <2> QED
      BY <1>1, <2>1, <2>2, ListedStays
  <1>3. ASSUME NEW c \in Clients, NEW i \in DOMAIN apps, ReadForRotation(c, i)
        PROVE  ListedInv'
    <2>1. /\ rotation' = [rotation EXCEPT ![c] = [app |-> i, old |-> apps[i].key, since |-> second]]
          /\ store = "postgres"
          /\ UNCHANGED <<store, apps, keys, users, seeding, crossed>>
      BY <1>3 DEF ReadForRotation
    <2>2. \A o \in Clients : \/ rotation'[o] = rotation[o]
                             \/ rotation'[o] = [app |-> i, old |-> apps[i].key, since |-> second]
      BY <1>0, <2>1, Typed
    <2>3. \A o \in Clients : \/ rotation'[o] = rotation[o]
                             \/ /\ store = "postgres" /\ rotation'[o].app \in DOMAIN apps
                                /\ rotation'[o].old = apps[rotation'[o].app].key
      BY <2>1, <2>2
    <2> QED
      BY <1>1, <2>1, <2>3, ListedStays
  <1>4. ASSUME NEW j \in DOMAIN keys, RevokeAPIKey(j)
        PROVE  ListedInv'
    <2>1. /\ DOMAIN keys' = DOMAIN keys
          /\ \A k \in DOMAIN keys :
                /\ keys'[k].name = keys[k].name /\ keys'[k].project = keys[k].project
                /\ keys'[k].status = IF k = j THEN "Revoked" ELSE keys[k].status
          /\ UNCHANGED <<store, apps, users, rotation, seeding, crossed>>
      BY <1>0, <1>4, RevokeAPIKeyRows
    <2>2. \A k \in DOMAIN keys : keys'[k].status = "Rotated" => keys[k].status = "Rotated"
      BY <2>1
    <2> QED
      BY <1>1, <2>1, <2>2, ListedStays
  <1>5. ASSUME NEW e \in Emails, CreateUser(e)
        PROVE  ListedInv'
    <2>1. /\ Added(users, users', [email |-> e, status |-> "Invited"])
          /\ store = "postgres" => \A u \in DOMAIN users : users[u].email # e
          /\ UNCHANGED <<store, apps, keys, rotation, seeding, crossed>>
      BY <1>0, <1>5, CreateUserRows
    <2>2. store = "postgres" =>
             \A u, v \in DOMAIN users' : users'[u].email = users'[v].email => u = v
      BY <2>1 DEF Added, ListedInv, Unique
    <2> QED
      BY <2>1, <2>2, ListedStays
  <1>6. ASSUME NEW u \in DOMAIN users, ActivateUser(u)
        PROVE  ListedInv'
    <2>1. /\ DOMAIN users' = DOMAIN users
          /\ \A v \in DOMAIN users : users'[v].email = users[v].email
          /\ UNCHANGED <<store, apps, keys, rotation, seeding, crossed>>
      BY <1>0, <1>6, ActivateUserRows
    <2>2. store = "postgres" =>
             \A v, w \in DOMAIN users' : users'[v].email = users'[w].email => v = w
      BY <2>1 DEF ListedInv, Unique
    <2> QED
      BY <2>1, <2>2, ListedStays
  <1>7. CASE \E t \in DOMAIN todos : ResolveTodo(t)
    <2>1. UNCHANGED <<store, apps, keys, users, rotation, seeding, crossed>>
      BY <1>7 DEF ResolveTodo
    <2> QED
      BY <1>1, <2>1, ListedStays
  <1>8. ASSUME NEW c \in Clients, AbortRotation(c)
        PROVE  ListedInv'
    <2>1. /\ rotation' = [rotation EXCEPT ![c] = NoRotation]
          /\ UNCHANGED <<store, apps, keys, users, seeding, crossed>>
      BY <1>8 DEF AbortRotation
    <2>2. \A o \in Clients : rotation'[o] = NoRotation \/ rotation'[o] = rotation[o]
      BY <1>0, <2>1, Typed
    <2> QED
      BY <1>1, <2>1, <2>2, ListedStays
  <1>9. CASE StopSeeding \/ NextSecond
    <2>1. /\ UNCHANGED <<store, apps, keys, users, rotation, crossed>>
          /\ seeding' = seeding \/ seeding' = "idle"
      BY <1>9 DEF StopSeeding, NextSecond
    <2> QED
      BY <1>1, <2>1, ListedStays
  <1> QED
    BY <1>2, <1>3, <1>4, <1>5, <1>6, <1>7, <1>8, <1>9, CreateApplicationListed, RotationListed,
       SeedAccessKeysListed, SeedApplicationsListed DEF AccessCall, AccessRest

\* In the beginning: the memory store has the demo rows, Postgres none.
LEMMA ListedInit ==
    ASSUME AccessInit
    PROVE  ListedInv /\ PendingOwned
  <1>1. /\ \A i \in DOMAIN Rows(SeedRows) : Rows(SeedRows)[i] \in SeedRows
        /\ \A j \in DOMAIN Rows(SeedKeyRows) : Rows(SeedKeyRows)[j] \in SeedKeyRows
        /\ \A r \in SeedKeyRows : \E j \in DOMAIN Rows(SeedKeyRows) : Rows(SeedKeyRows)[j] = r
    BY SeedsFinite, RowsListed
  <1>2. /\ store = "memory" => apps = Rows(SeedRows) /\ keys = Rows(SeedKeyRows)
        /\ store # "memory" => apps = <<>> /\ keys = <<>>
        /\ users = <<>> /\ todos = <<>> /\ \A c \in Clients : rotation[c] = NoRotation
        /\ seeding = "idle"
    BY DEF AccessInit
  <1>3. ASSUME NEW i \in DOMAIN apps
        PROVE  \E n \in SeededApps : apps[i] = App(n, SeedKey(n), SeedStatus(n), TRUE)
    <2>1. store = "memory"
      BY <1>2, <1>3
    <2> QED
      BY <1>1, <1>2, <2>1 DEF SeedRows
  <1>4. ASSUME NEW i \in DOMAIN apps
        PROVE  apps[i].name \in SeededApps /\ apps[i].key = SeedKey(apps[i].name) /\ apps[i].seed
    BY <1>3 DEF App
  <1>5. InMemory
    BY <1>2 DEF InMemory
  <1>6. Unique /\ FirstKeys
    BY <1>2 DEF Unique, FirstKeys
  <1>7. KeylessBare
    <2>1. ASSUME NEW i \in DOMAIN apps, Keyless(i) PROVE Bare(apps[i].key)
      <3>1. /\ apps[i].key = SeedKey(apps[i].name)
            /\ apps[i].name \in SeededApps \ SeededKeys
        BY <1>4, <2>1 DEF Keyless
      <3> QED
        BY <3>1 DEF SeedKey, Bare
    <2> QED
      BY <2>1 DEF KeylessBare
  <1>8. OldListed /\ SeedsListed
    BY <1>2 DEF OldListed, SeedsListed
  <1>9. KeyListed
    <2> SUFFICES ASSUME NEW i \in DOMAIN apps, ~Keyless(i)
                 PROVE  \E j \in DOMAIN keys :
                           /\ keys[j].name = apps[i].key
                           /\ keys[j].project = apps[i].name
                           /\ Alone(i) /\ apps[i].name \notin crossed => keys[j].status # "Rotated"
      BY DEF KeyListed
    <2> DEFINE n == apps[i].name
    <2>1. n \in SeededApps /\ apps[i].key = SeedKey(n) /\ apps[i].seed
      BY <1>4
    <2>2. n \in SeededKeys
      <3>1. SeedKey(n).rotated = <<>>
        BY DEF SeedKey
      <3> QED
        BY <2>1, <3>1 DEF Keyless
    <2>3. Key(SeedKey(n), n, "Active") \in SeedKeyRows
      BY <2>2 DEF SeedKeyRows
    <2>4. store = "memory"
      BY <1>2
    <2>5. PICK j \in DOMAIN keys : keys[j] = Key(SeedKey(n), n, "Active")
      BY <1>1, <1>2, <2>3, <2>4
    <2>6. keys[j].name = SeedKey(n) /\ keys[j].project = n /\ keys[j].status = "Active"
      BY <2>5 DEF Key
    <2> QED
      BY <2>1, <2>6
  <1>10. PendingOwned
    <2>1. ASSUME NEW j \in DOMAIN keys PROVE keys[j].status = "Active"
      <3>1. keys[j] \in SeedKeyRows
        BY <1>1, <1>2, <2>1
      <3> QED
        BY <3>1 DEF SeedKeyRows, Key
    <2> QED
      BY <1>2, <2>1 DEF PendingOwned
  <1> QED
    BY <1>5, <1>6, <1>7, <1>8, <1>9, <1>10 DEF ListedInv

LEMMA ListedRests ==
    ASSUME AccessInv, ListedInv, PendingOwned, UNCHANGED accessVars
    PROVE  ListedInv' /\ PendingOwned' /\ Grow
  <1>1. UNCHANGED <<store, apps, keys, users, todos, rotation, seeding, crossed>>
    BY DEF accessVars
  <1>2. store = "postgres" =>
           \A u, v \in DOMAIN users' : users'[u].email = users'[v].email => u = v
    BY <1>1 DEF ListedInv, Unique
  <1>3. ListedInv'
    BY <1>1, <1>2, ListedStays
  <1>4. PendingOwned'
    BY <1>1, OwnedStays
  <1> QED
    BY <1>1, <1>3, <1>4, Still

-----------------------------------------------------------------------------
(* The snapshot.                                                           *)

\* While rows only come, what was copied stays what it was.
LEMMA SnapshotStays ==
    ASSUME SnapshotInv, UNCHANGED <<store, snapshot>>, Grow
    PROVE  SnapshotInv'
  <1>1. ASSUME UsersCopied(snapshot) PROVE UsersCopied(snapshot)'
    BY <1>1 DEF UsersCopied, Grow, UsersGrow
  <1>2. ASSUME AppsCopied(snapshot) PROVE AppsCopied(snapshot)'
    BY <1>2, RowStays DEF AppsCopied, CopiedKeyless, Grow, AppsGrow
  <1>3. ASSUME KeysCopied(snapshot) PROVE KeysCopied(snapshot)'
    BY <1>3 DEF KeysCopied, CopiedKeyless, HasRow
  <1>4. SnapshotClosed'
    BY DEF SnapshotInv, SnapshotClosed
  <1> QED
    BY <1>1, <1>2, <1>3, <1>4 DEF SnapshotInv

\* A query copies its table and leaves the copies made before.
LEMMA QueryCopies ==
    ASSUME ControlInv, QueryNext
    PROVE  /\ snapshot.at \in 0 .. 3 /\ snapshot'.at = snapshot.at + 1
           /\ snapshot'.users = IF snapshot.at = 0 THEN users ELSE snapshot.users
           /\ snapshot'.apps = IF snapshot.at = 1 THEN apps ELSE snapshot.apps
           /\ snapshot'.keys = IF snapshot.at = 2 THEN keys ELSE snapshot.keys
           /\ snapshot'.todos = IF snapshot.at = 3 THEN todos ELSE snapshot.todos
  <1>1. snapshot \in Snapshots /\ snapshot.at < 4
    BY FourTables DEF ControlInv, QueryNext
  <1>2. snapshot.at \in 0 .. 3
    BY <1>1 DEF Snapshots
  <1>3. PICK n : n = snapshot.at + 1
    OBVIOUS
  <1>4. PICK s : s = [snapshot EXCEPT !.at = n]
    OBVIOUS
  <1>5. snapshot' = Copy(s)
    BY <1>3, <1>4 DEF QueryNext
  <1>6. /\ s \in Snapshots /\ s.at = n /\ s.users = snapshot.users /\ s.apps = snapshot.apps
        /\ s.keys = snapshot.keys /\ s.todos = snapshot.todos
    <2>1. n \in 0 .. 4
      BY <1>2, <1>3
    <2> QED
      BY <1>1, <1>4, <2>1 DEF Snapshots
  <1>7. CASE snapshot.at = 0
    <2>1. snapshot' = [s EXCEPT !.users = users]
      BY <1>3, <1>5, <1>6, <1>7 DEF Copy
    <2> QED
      BY <1>2, <1>3, <1>6, <1>7, <2>1 DEF Snapshots
  <1>8. CASE snapshot.at = 1
    <2>1. snapshot' = [s EXCEPT !.apps = apps]
      BY <1>3, <1>5, <1>6, <1>8 DEF Copy
    <2> QED
      BY <1>2, <1>3, <1>6, <1>8, <2>1 DEF Snapshots
  <1>9. CASE snapshot.at = 2
    <2>1. snapshot' = [s EXCEPT !.keys = keys]
      BY <1>3, <1>5, <1>6, <1>9 DEF Copy
    <2> QED
      BY <1>2, <1>3, <1>6, <1>9, <2>1 DEF Snapshots
  <1>10. CASE snapshot.at = 3
    <2>1. snapshot' = [s EXCEPT !.todos = todos]
      BY <1>3, <1>5, <1>6, <1>10 DEF Copy
    <2> QED
      BY <1>2, <1>3, <1>6, <1>10, <2>1 DEF Snapshots
  <1> QED
    BY <1>2, <1>7, <1>8, <1>9, <1>10

\* A todo that is not pending is resolved.
LEMMA TodosPendOrRest ==
    ASSUME AccessTypeOK, NEW t \in DOMAIN todos
    PROVE  todos[t].status = "Resolved" \/ todos[t] = Pending(todos[t].title)
  <1>1. todos[t] \in TodoRow
    BY Typed
  <1> QED
    BY <1>1 DEF TodoRow, Pending

\* Where nobody waits, no key is in provisioning and no todo pending.
LEMMA NobodyWaits ==
    ASSUME AccessTypeOK, PendingOwned
    PROVE  /\ \A n \in AppNames : ~Awaited(n) =>
                 /\ \A j \in DOMAIN keys : keys[j].project = n => keys[j].status # "Provisioning"
                 /\ \A t \in DOMAIN todos : todos[t].title = AppTodo(n) => todos[t].status = "Resolved"
           /\ \A e \in Emails : ~Invited(e) =>
                 \A t \in DOMAIN todos : todos[t].title = UserTodo(e) => todos[t].status = "Resolved"
  BY TodosPendOrRest DEF PendingOwned

LEMMA QueryKeepsSnapshot ==
    ASSUME ControlInv, ListedInv, PendingOwned, SnapshotInv, QueryNext
    PROVE  SnapshotInv'
  <1>1. /\ AccessTypeOK /\ store = "postgres" /\ snapshot \in Snapshots
        /\ UNCHANGED <<store, apps, keys, users, todos>>
    BY DEF ControlInv, AccessInv, QueryNext, accessVars
  <1>2. /\ snapshot.at \in 0 .. 3 /\ snapshot'.at = snapshot.at + 1
        /\ snapshot'.users = IF snapshot.at = 0 THEN users ELSE snapshot.users
        /\ snapshot'.apps = IF snapshot.at = 1 THEN apps ELSE snapshot.apps
        /\ snapshot'.keys = IF snapshot.at = 2 THEN keys ELSE snapshot.keys
        /\ snapshot'.todos = IF snapshot.at = 3 THEN todos ELSE snapshot.todos
    BY QueryCopies
  <1>3. UsersCopied(snapshot)'
    <2>1. CASE snapshot.at = 0
      BY <1>1, <1>2, <2>1 DEF UsersCopied
    <2>2. CASE snapshot.at >= 1
      <3>1. UsersCopied(snapshot) /\ snapshot'.users = snapshot.users
        BY <1>1, <1>2, <2>2 DEF SnapshotInv
      <3> QED
        BY <1>1, <3>1 DEF UsersCopied
    <2> QED
      BY <1>2, <2>1, <2>2
  <1>4. ASSUME snapshot'.at >= 2 PROVE AppsCopied(snapshot)'
    <2>1. CASE snapshot.at = 1
      <3>1. ASSUME NEW i \in DOMAIN apps
            PROVE  CopiedKeyless(apps[i]) \/ HasRow(keys, apps[i].key, apps[i].name)
        BY DEF ListedInv, KeyListed, Keyless, CopiedKeyless, HasRow
      <3>2. ASSUME NEW i \in DOMAIN apps, apps[i].status = "Active"
            PROVE  apps[i].status # "Provisioning"
        BY <3>2
      <3> QED
        BY <1>1, <1>2, <2>1, <3>1, <3>2 DEF AppsCopied, CopiedKeyless
    <2>2. CASE snapshot.at >= 2
      <3>1. AppsCopied(snapshot) /\ snapshot'.apps = snapshot.apps
        BY <1>1, <1>2, <2>2 DEF SnapshotInv
      <3> QED
        BY <1>1, <3>1 DEF AppsCopied, CopiedKeyless
    <2> QED
      BY <1>2, <1>4, <2>1, <2>2
  <1>5. ASSUME snapshot.at >= 2, NEW i \in DOMAIN snapshot.apps,
               snapshot.apps[i].status = "Active"
        PROVE  snapshot.apps[i].name \in AppNames /\ ~Awaited(snapshot.apps[i].name)
    <2>1. /\ i \in DOMAIN apps /\ apps[i].name = snapshot.apps[i].name
          /\ apps[i].status # "Provisioning"
      BY <1>1, <1>5 DEF SnapshotInv, AppsCopied
    <2>2. apps[i].name \in AppNames
      BY <1>1, <2>1, AppFields
    <2> QED
      BY <1>1, <2>1, <2>2 DEF ListedInv, Unique, Awaited
  <1>6. ASSUME snapshot'.at >= 3 PROVE KeysCopied(snapshot)'
    <2>1. CASE snapshot.at = 2
      <3>1. AppsCopied(snapshot) /\ snapshot'.apps = snapshot.apps /\ snapshot'.keys = keys
        BY <1>1, <1>2, <2>1 DEF SnapshotInv
      <3>2. ASSUME NEW i \in DOMAIN snapshot.apps, snapshot.apps[i].status = "Active",
                   NEW j \in DOMAIN keys, keys[j].project = snapshot.apps[i].name
            PROVE  keys[j].status # "Provisioning"
        BY <1>1, <1>5, <2>1, <3>2, NobodyWaits
      <3> QED
        BY <3>1, <3>2 DEF AppsCopied, KeysCopied, CopiedKeyless
    <2>2. CASE snapshot.at >= 3
      <3>1. KeysCopied(snapshot) /\ UNCHANGED <<snapshot.apps, snapshot.keys>>
        BY <1>1, <1>2, <2>2 DEF SnapshotInv
      <3> QED
        BY <3>1 DEF KeysCopied, CopiedKeyless, HasRow
    <2> QED
      BY <1>2, <1>6, <2>1, <2>2
  <1>7. SnapshotClosed'
    <2> SUFFICES ASSUME snapshot'.at = 4
                 PROVE  SnapshotClosed'
      BY FourTables DEF SnapshotClosed, Tables
    <2>1. snapshot.at = 3 /\ UNCHANGED <<snapshot.users, snapshot.apps, snapshot.keys>>
          /\ snapshot'.todos = todos
      BY <1>2
    <2>2. KeysCopied(snapshot) /\ UsersCopied(snapshot)
      BY <1>1, <2>1 DEF SnapshotInv
    <2>3. ASSUME NEW i \in DOMAIN snapshot.apps, snapshot.apps[i].status = "Active",
                 NEW t \in DOMAIN todos, todos[t].title = AppTodo(snapshot.apps[i].name)
          PROVE  todos[t].status = "Resolved"
      BY <1>1, <1>5, <2>1, <2>3, NobodyWaits
    <2>4. ASSUME NEW u \in DOMAIN snapshot.users, snapshot.users[u].status = "Active",
                 NEW t \in DOMAIN todos, todos[t].title = UserTodo(snapshot.users[u].email)
          PROVE  todos[t].status = "Resolved"
      <3>1. /\ u \in DOMAIN users /\ users[u].email = snapshot.users[u].email
            /\ users[u].status = "Active"
        BY <2>2, <2>4 DEF UsersCopied
      <3>2. users[u].email \in Emails
        <4>1. users[u] \in UserRow
          BY <1>1, <3>1, Typed
        <4> QED
          BY <4>1 DEF UserRow
      <3>3. ~Invited(users[u].email)
        BY <1>1, <3>1 DEF ListedInv, Unique, Invited
      <3> QED
        BY <1>1, <2>4, <3>1, <3>2, <3>3, NobodyWaits
    <2> QED
      BY <2>1, <2>2, <2>3, <2>4 DEF SnapshotClosed, KeysCopied, CopiedKeyless, HasRow
  <1> QED
    BY <1>1, <1>3, <1>4, <1>6, <1>7 DEF SnapshotInv

LEMMA TakeSnapshotCloses ==
    ASSUME ControlInv, ListedInv, PendingOwned, TakeSnapshot
    PROVE  SnapshotInv'
  <1>1. /\ AccessTypeOK /\ store = "memory" /\ UNCHANGED store
        /\ snapshot'.users = users /\ snapshot'.apps = apps /\ snapshot'.keys = keys
        /\ snapshot'.todos = todos
    BY DEF ControlInv, AccessInv, TakeSnapshot, accessVars
  <1>2. ASSUME NEW i \in DOMAIN apps
        PROVE  CopiedKeyless(apps[i]) \/ HasRow(keys, apps[i].key, apps[i].name)
    BY DEF ListedInv, KeyListed, Keyless, CopiedKeyless, HasRow
  <1>3. ASSUME NEW i \in DOMAIN apps, apps[i].status = "Active",
               \A o \in DOMAIN apps \ {i} : apps[o].name # apps[i].name
        PROVE  /\ \A j \in DOMAIN keys :
                     keys[j].project = apps[i].name => keys[j].status # "Provisioning"
               /\ \A t \in DOMAIN todos :
                     todos[t].title = AppTodo(apps[i].name) => todos[t].status = "Resolved"
    <2>1. apps[i].name \in AppNames
      BY <1>1, AppFields
    <2>2. ~Awaited(apps[i].name)
      BY <1>3 DEF Awaited
    <2> QED
      BY <1>1, <2>1, <2>2, NobodyWaits
  <1>4. ASSUME NEW u \in DOMAIN users, users[u].status = "Active",
               \A o \in DOMAIN users \ {u} : users[o].email # users[u].email
        PROVE  \A t \in DOMAIN todos :
                  todos[t].title = UserTodo(users[u].email) => todos[t].status = "Resolved"
    <2>1. users[u] \in UserRow
      BY <1>1, Typed
    <2>2. users[u].email \in Emails
      BY <2>1 DEF UserRow
    <2>3. ~Invited(users[u].email)
      BY <1>4 DEF Invited
    <2> QED
      BY <1>1, <2>2, <2>3, NobodyWaits
  <1>5. SnapshotClosed'
    BY <1>1, <1>2, <1>3, <1>4 DEF SnapshotClosed, CopiedKeyless, HasRow
  <1> QED
    BY <1>1, <1>5 DEF SnapshotInv

\* A snapshot that has not begun promises nothing.
LEMMA NoSnapshotCloses ==
    ASSUME snapshot = NoSnapshot
    PROVE  SnapshotInv
  <1>1. snapshot.at = 0
    BY DEF NoSnapshot
  <1> QED
    BY <1>1, FourTables DEF SnapshotInv, SnapshotClosed

\* The tables as the services change them, and the snapshot read from them.
TablesInv == ControlInv /\ ListedInv /\ PendingOwned /\ SnapshotInv

LEMMA TablesInit == ControlInit => TablesInv
  BY ControlInitEstablishes, ListedInit, NoSnapshotCloses DEF ControlInit, TablesInv

LEMMA TablesKeep ==
    ASSUME TablesInv, [ControlNext]_vars
    PROVE  TablesInv'
  <1>1. ControlInv' /\ ControlInv /\ AccessInv /\ ListedInv /\ PendingOwned /\ SnapshotInv
    BY ControlKeeps DEF TablesInv, ControlInv
  <1>2. CASE Call \/ Rest
    <2>1. (AccessCall \/ AccessRest) /\ UNCHANGED snapshot
      BY <1>2 DEF Call, Rest
    <2>2. ListedInv' /\ PendingOwned' /\ Grow
      BY <1>1, <2>1, ListedKept, PendingKept, StepsGrow
    <2>3. UNCHANGED store
      BY <2>1 DEF AccessCall, AccessRest, CreateApplication, ActivateApplication, RotateInMemory,
         WriteRotation, ReadForRotation, CommitRotation, AbortRotation, RevokeAPIKey, CreateUser,
         ActivateUser, ResolveTodo, SeedAccessKeys, SeedApplications, StopSeeding, NextSecond
    <2> QED
      BY <1>1, <2>1, <2>2, <2>3, SnapshotStays DEF TablesInv
  <1>3. ASSUME UNCHANGED accessVars
        PROVE  ListedInv' /\ PendingOwned' /\ Grow /\ UNCHANGED store
    BY <1>1, <1>3, ListedRests DEF accessVars
  <1>4. CASE Migrate \/ StartServices \/ UNCHANGED vars
    <2>1. UNCHANGED accessVars /\ UNCHANGED snapshot
      BY <1>4 DEF Migrate, StartServices, vars
    <2> QED
      BY <1>1, <1>3, <2>1, SnapshotStays DEF TablesInv
  <1>5. CASE QueryNext
    BY <1>1, <1>3, <1>5, QueryKeepsSnapshot DEF TablesInv, QueryNext
  <1>6. CASE TakeSnapshot
    BY <1>1, <1>3, <1>6, TakeSnapshotCloses DEF TablesInv, TakeSnapshot
  <1>7. CASE EndSnapshot
    <2>1. snapshot' = NoSnapshot /\ UNCHANGED accessVars
      BY <1>7 DEF EndSnapshot
    <2>2. SnapshotInv'
      <3>1. snapshot'.at = 0
        BY <2>1 DEF NoSnapshot
      <3> QED
        BY <3>1, FourTables DEF SnapshotInv, SnapshotClosed, Tables
    <2> QED
      BY <1>1, <1>3, <2>1, <2>2 DEF TablesInv
  <1> QED
    BY <1>2, <1>4, <1>5, <1>6, <1>7 DEF ControlNext

\* The inductive invariant of the tables and of the snapshot taken from them.
THEOREM TablesInductive == ControlSpec => []TablesInv
  BY TablesInit, TablesKeep, PTL DEF ControlSpec

\* However many rotations, activations, revocations and runs of seed-db
\* overlap, the key an application shows is a row of its own project, and not
\* one that was rotated out.  Excepted are, in memory, applications that share
\* a name or the slug of their keys, be it a demo key's, and a rotation between
\* the two transactions of seed-db.
THEOREM ShownKeysListed == ControlSpec => []KeyListed
  <1>1. TablesInv => KeyListed
    BY DEF TablesInv, ListedInv
  <1> QED
    BY <1>1, TablesInductive, PTL

\* What a page follows through a finished snapshot is in it, though in
\* Postgres each of its tables was read at a moment of its own while the other
\* callers went on.  Excepted are names shared in memory.
THEOREM SnapshotsClosed == ControlSpec => []SnapshotClosed
  <1>1. TablesInv => SnapshotClosed
    BY DEF TablesInv, SnapshotInv
  <1> QED
    BY <1>1, TablesInductive, PTL

-----------------------------------------------------------------------------
(* The sessions: SessionInv is inductive.  One lemma for each group of     *)
(* actions, and in each one step for every part the action can disturb.    *)

\* What a request is made of follows from where it is.
LEMMA Shape ==
    ASSUME SessionTypeOK, NEW r \in Requests
    PROVE  /\ request[r].at \in {"look", "accepted"} => request[r] \in Checks
           /\ request[r].at = "callback" => request[r] \in Callbacks
           /\ request[r] = Idle <=> request[r].at = "idle"
  <1>1. request[r] \in {Idle} \cup Checks \cup Callbacks
    BY DEF SessionTypeOK
  <1>2. \A q \in Checks : q.at \in {"look", "accepted"}
    BY DEF Checks
  <1>3. \A q \in Callbacks : q.at = "callback"
    BY DEF Callbacks
  <1>4. Idle.at = "idle"
    BY DEF Idle
  <1> QED
    BY <1>1, <1>2, <1>3, <1>4

LEMMA CheckFields ==
    ASSUME NEW q \in Checks
    PROVE  /\ q.process \in Processes /\ q.token \in Tokens
           /\ q.clock \in Nat /\ q.late \in BOOLEAN
           /\ q.why \in {"request", "logout", "revoke"}
  BY DEF Checks

LEMMA CallbackFields ==
    ASSUME NEW q \in Callbacks
    PROVE  q.process \in Processes /\ q.state \in States /\ q.clock \in Nat
  BY DEF Callbacks

\* Cleaning a map drops what has expired and keeps the rest.
LEMMA CleanedKeeps ==
    ASSUME now \in Nat, NEW S, NEW map \in [S -> Nat]
    PROVE  /\ Cleaned(map) \in [S -> Nat]
           /\ \A x \in S : /\ Cleaned(map)[x] \in {map[x], Never}
                           /\ map[x] > now => Cleaned(map)[x] = map[x]
  BY DEF Cleaned, Never

-----------------------------------------------------------------------------
LEMMA InitEstablishes == SessionInit => SessionInv
  <1> SUFFICES ASSUME SessionInit PROVE SessionInv
    OBVIOUS
  <1>1. \A r \in Requests : request[r] = Idle /\ request[r].at = "idle"
    BY DEF SessionInit, Idle
  <1>2. SessionTypeOK
    BY BoundsAssumption DEF SessionInit, SessionTypeOK, NotIssued, Never
  <1>3. Remembered /\ OffersKept
    BY DEF SessionInit, Remembered, OffersKept
  <1>4. ChecksBegun /\ RevokedRefused
    BY <1>1 DEF ChecksBegun, RevokedRefused
  <1>5. SpentOnce
    BY <1>1 DEF SessionInit, SpentOnce
  <1> QED
    BY <1>2, <1>3, <1>4, <1>5 DEF SessionInv

-----------------------------------------------------------------------------
\* Making a token, alone or at the end of a callback.
LEMMA LoginKeeps ==
    ASSUME SessionInv, NEW t \in Tokens, Login(t)
    PROVE  SessionInv'
  <1>1. /\ expires[t] = Never
        /\ expires' = [expires EXCEPT ![t] = now + TTL]
        /\ madeFor' = [madeFor EXCEPT ![t] = {}]
        /\ UNCHANGED <<now, revoked, offered, request, restarts, told, issued, spent>>
    BY DEF Login, MakeToken
  <1>2. SessionTypeOK /\ now \in Nat /\ now + TTL \in Nat /\ now + TTL # Never
    BY TTLAssumption DEF SessionInv, SessionTypeOK, Never
  <1>3. SessionTypeOK'
    BY <1>1, <1>2 DEF SessionTypeOK
  <1>4. Remembered'
    BY <1>1, <1>2 DEF SessionInv, Remembered, SessionTypeOK
  <1>5. ChecksBegun'
    <2> SUFFICES ASSUME NEW r \in Requests
                 PROVE  LET q == request[r]
                        IN  /\ q.at = "look" => /\ q.clock < expires'[q.token]
                                                /\ q.late => q.token \in told[q.process]
                            /\ q.at = "accepted" => expires'[q.token] # Never
      BY <1>1 DEF ChecksBegun
    <2>1. CASE request[r].at \in {"look", "accepted"}
      <3>1. request[r] \in Checks
        BY <2>1, <1>2, Shape
      <3>2. request[r].token \in Tokens /\ request[r].clock \in Nat
        BY <3>1, CheckFields
      <3>3. expires[request[r].token] # Never
        BY <2>1, <3>2 DEF SessionInv, ChecksBegun, SessionTypeOK, Never
      <3>4. expires'[request[r].token] = expires[request[r].token]
        BY <1>1, <1>2, <3>2, <3>3 DEF SessionTypeOK
      <3> QED
        BY <3>3, <3>4 DEF SessionInv, ChecksBegun
    <2>2. CASE request[r].at \notin {"look", "accepted"}
      BY <2>2
    <2> QED
      BY <2>1, <2>2
  <1>6. RevokedRefused'
    <2> SUFFICES ASSUME NEW r \in Requests, request[r].at = "accepted", request[r].late
                 PROVE  request[r].clock >= expires'[request[r].token]
      BY <1>1 DEF RevokedRefused
    <2>1. request[r].token \in Tokens
      BY <1>2, Shape, CheckFields
    <2>2. expires[request[r].token] # Never
      BY DEF SessionInv, ChecksBegun
    <2>3. expires'[request[r].token] = expires[request[r].token]
      BY <1>1, <1>2, <2>1, <2>2 DEF SessionTypeOK
    <2> QED
      BY <2>3 DEF SessionInv, RevokedRefused
  <1>7. OffersKept'
    BY <1>1 DEF SessionInv, OffersKept
  <1>8. SpentOnce'
    <2>1. \A o \in Tokens : madeFor'[o] \subseteq madeFor[o]
      BY <1>1, <1>2 DEF SessionTypeOK
    <2> QED
      BY <1>1, <2>1 DEF SessionInv, SpentOnce
  <1> QED
    BY <1>3, <1>4, <1>5, <1>6, <1>7, <1>8 DEF SessionInv

\* A check that begins: it knows what its process has answered so far.
LEMMA CheckKeeps ==
    ASSUME SessionInv, NEW r \in Requests, NEW p \in Processes, NEW t \in Tokens,
           NEW why \in {"request", "logout", "revoke"}, CheckExpiry(r, p, t, why)
    PROVE  SessionInv'
  <1>a. PICK b \in BOOLEAN : b = (t \in told[p])
    <2>1. (t \in told[p]) \in BOOLEAN
      OBVIOUS
    <2> QED
      BY <2>1
  <1> DEFINE new == [at |-> "look", process |-> p, token |-> t, why |-> why, clock |-> now,
                     late |-> b]
  <1>1. /\ now < expires[t]
        /\ request' = [request EXCEPT ![r] = new]
        /\ UNCHANGED <<now, expires, revoked, offered, restarts, told, issued, spent, madeFor>>
    BY <1>a DEF CheckExpiry, history
  <1>2. SessionTypeOK /\ now \in Nat
    BY DEF SessionInv, SessionTypeOK
  <1>b. b => t \in told[p]
    BY <1>a
  <1>3. /\ new \in Checks /\ new.at = "look" /\ new.clock = now /\ new.token = t
        /\ new.process = p /\ new.late = b
    BY <1>2 DEF Checks
  <1> HIDE DEF new
  <1>4. /\ request'[r] = new
        /\ \A o \in Requests \ {r} : request'[o] = request[o]
    BY <1>1, <1>2 DEF SessionTypeOK
  <1>5. SessionTypeOK'
    BY <1>1, <1>2, <1>3 DEF SessionTypeOK
  <1>6. ChecksBegun'
    BY <1>1, <1>3, <1>4, <1>b DEF SessionInv, ChecksBegun
  <1>7. RevokedRefused'
    BY <1>1, <1>3, <1>4 DEF SessionInv, RevokedRefused
  <1>8. Remembered' /\ OffersKept'
    BY <1>1 DEF SessionInv, Remembered, OffersKept
  <1>9. SpentOnce'
    BY <1>1, <1>3, <1>4 DEF SessionInv, SpentOnce
  <1> QED
    BY <1>5, <1>6, <1>7, <1>8, <1>9 DEF SessionInv

\* A request that ends, whatever else happens to it.
LEMMA EndKeeps ==
    ASSUME SessionInv, NEW r \in Requests, request' = [request EXCEPT ![r] = Idle],
           UNCHANGED <<now, expires, revoked, offered, restarts, history>>
    PROVE  SessionInv'
  <1>1. SessionTypeOK /\ UNCHANGED <<told, issued, spent, madeFor>>
    BY DEF SessionInv, history
  <1>2. /\ request'[r] = Idle /\ Idle.at = "idle"
        /\ \A o \in Requests \ {r} : request'[o] = request[o]
    BY <1>1 DEF SessionTypeOK, Idle
  <1>3. SessionTypeOK'
    BY <1>1 DEF SessionTypeOK
  <1>4. ChecksBegun' /\ RevokedRefused'
    BY <1>1, <1>2 DEF SessionInv, ChecksBegun, RevokedRefused
  <1>5. Remembered' /\ OffersKept'
    BY <1>1 DEF SessionInv, Remembered, OffersKept
  <1>6. SpentOnce'
    BY <1>1, <1>2 DEF SessionInv, SpentOnce
  <1> QED
    BY <1>3, <1>4, <1>5, <1>6 DEF SessionInv

\* A check that reads the map: what its process remembers is what it needs.
LEMMA LookUpKeeps ==
    ASSUME SessionInv, NEW r \in Requests, LookUp(r)
    PROVE  SessionInv'
  <1> DEFINE q == request[r]
             new == [q EXCEPT !.at = "accepted", !.clock = now]
  <1>1. /\ q.at = "look"
        /\ UNCHANGED <<now, expires, revoked, offered, restarts, history>>
        /\ request' = [request EXCEPT ![r] =
              IF revoked[q.process][q.token] > q.clock THEN Idle ELSE new]
    BY DEF LookUp
  <1>2. SessionTypeOK /\ now \in Nat
    BY DEF SessionInv, SessionTypeOK
  <1>3. q \in Checks
    BY <1>1, <1>2, Shape
  <1>4. /\ q.process \in Processes /\ q.token \in Tokens /\ q.clock \in Nat
        /\ expires[q.token] \in Nat /\ revoked[q.process][q.token] \in Nat
    BY <1>2, <1>3, CheckFields DEF SessionTypeOK
  <1>5. CASE revoked[q.process][q.token] > q.clock
    BY <1>1, <1>5, EndKeeps
  <1>6. CASE ~(revoked[q.process][q.token] > q.clock)
    <2>1. /\ request' = [request EXCEPT ![r] = new]
          /\ UNCHANGED <<now, expires, revoked, offered, restarts, told, issued, spent, madeFor>>
      BY <1>1, <1>6 DEF history
    <2>2. /\ new \in Checks /\ new.at = "accepted" /\ new.clock = now
          /\ new.token = q.token /\ new.late = q.late
      BY <1>2, <1>3 DEF Checks
    <2>3. q.clock < expires[q.token] /\ (q.late => q.token \in told[q.process])
      BY <1>1 DEF SessionInv, ChecksBegun
    <2>4. q.late => now >= expires[q.token]
      <3> SUFFICES ASSUME q.late PROVE now >= expires[q.token]
        OBVIOUS
      <3>1. \/ revoked[q.process][q.token] = expires[q.token]
            \/ expires[q.token] <= now
        BY <1>4, <2>3 DEF SessionInv, Remembered
      <3> QED
        BY <1>2, <1>4, <1>6, <2>3, <3>1
    <2>5. expires[q.token] # Never
      BY <1>4, <2>3 DEF Never
    <2> HIDE DEF new
    <2>6. /\ request'[r] = new
          /\ \A o \in Requests \ {r} : request'[o] = request[o]
      BY <1>2, <2>1 DEF SessionTypeOK
    <2>7. SessionTypeOK'
      BY <1>2, <2>1, <2>2 DEF SessionTypeOK
    <2>8. ChecksBegun'
      BY <2>1, <2>2, <2>5, <2>6 DEF SessionInv, ChecksBegun
    <2>9. RevokedRefused'
      BY <2>1, <2>2, <2>4, <2>6 DEF SessionInv, RevokedRefused
    <2>10. Remembered' /\ OffersKept'
      BY <2>1 DEF SessionInv, Remembered, OffersKept
    <2>11. SpentOnce'
      BY <2>1, <2>2, <2>6 DEF SessionInv, SpentOnce
    <2> QED
      BY <2>7, <2>8, <2>9, <2>10, <2>11 DEF SessionInv
  <1> QED
    BY <1>5, <1>6

\* A logout: the map is cleaned and takes the token, and the process answers.
LEMMA RevokeKeeps ==
    ASSUME SessionInv, NEW r \in Requests, Revoke(r)
    PROVE  SessionInv'
  <1> DEFINE q == request[r]
             map == [Cleaned(revoked[q.process]) EXCEPT ![q.token] = expires[q.token]]
  <1>1. /\ q.at = "accepted"
        /\ revoked' = [revoked EXCEPT ![q.process] = map]
        /\ told' = [told EXCEPT ![q.process] = @ \cup {q.token}]
        /\ request' = [request EXCEPT ![r] = Idle]
        /\ UNCHANGED <<now, expires, offered, restarts, issued, spent, madeFor>>
    BY DEF Revoke
  <1>2. SessionTypeOK /\ now \in Nat
    BY DEF SessionInv, SessionTypeOK
  <1>3. q \in Checks
    BY <1>1, <1>2, Shape
  <1>4. /\ q.process \in Processes /\ q.token \in Tokens
        /\ revoked[q.process] \in [Tokens -> Nat]
        /\ expires[q.token] \in Nat /\ expires[q.token] # Never
    BY <1>1, <1>2, <1>3, CheckFields DEF SessionTypeOK, SessionInv, ChecksBegun
  <1>5. /\ Cleaned(revoked[q.process]) \in [Tokens -> Nat]
        /\ \A t \in Tokens : revoked[q.process][t] > now =>
              Cleaned(revoked[q.process])[t] = revoked[q.process][t]
    BY <1>2, <1>4, CleanedKeeps
  <1>6. /\ map \in [Tokens -> Nat]
        /\ map[q.token] = expires[q.token]
        /\ \A t \in Tokens : revoked[q.process][t] > now /\ t # q.token =>
              map[t] = revoked[q.process][t]
    BY <1>4, <1>5
  <1>7. /\ request'[r] = Idle /\ Idle.at = "idle"
        /\ \A o \in Requests \ {r} : request'[o] = request[o]
    BY <1>1, <1>2 DEF SessionTypeOK, Idle
  <1>8. /\ told'[q.process] = told[q.process] \cup {q.token}
        /\ \A p \in Processes : told[p] \subseteq told'[p]
        /\ \A p \in Processes \ {q.process} : told'[p] = told[p] /\ revoked'[p] = revoked[p]
        /\ revoked'[q.process] = map
    BY <1>1, <1>2, <1>4 DEF SessionTypeOK
  <1> HIDE DEF map
  <1>9. SessionTypeOK'
    BY <1>1, <1>2, <1>4, <1>6 DEF SessionTypeOK
  <1>10. Remembered'
    <2> SUFFICES ASSUME NEW p \in Processes, NEW t \in told'[p]
                 PROVE  /\ expires[t] # Never
                        /\ revoked'[p][t] = expires[t] \/ expires[t] <= now
      BY <1>1 DEF Remembered
    <2>1. CASE p # q.process
      BY <1>8, <2>1 DEF SessionInv, Remembered
    <2>2. CASE p = q.process /\ t = q.token
      BY <1>4, <1>6, <1>8, <2>2
    <2>3. CASE p = q.process /\ t # q.token
      <3>1. t \in told[p] /\ t \in Tokens
        BY <1>2, <1>4, <1>8, <2>3 DEF SessionTypeOK
      <3>2. /\ expires[t] # Never
            /\ revoked[p][t] = expires[t] \/ expires[t] <= now
        BY <3>1 DEF SessionInv, Remembered
      <3>3. revoked[p][t] \in Nat /\ expires[t] \in Nat
        BY <1>2, <3>1 DEF SessionTypeOK
      <3>4. revoked[p][t] > now => revoked'[p][t] = revoked[p][t]
        BY <1>6, <1>8, <2>3, <3>1
      <3> QED
        BY <1>2, <3>2, <3>3, <3>4
    <2> QED
      BY <2>1, <2>2, <2>3
  <1>11. ChecksBegun'
    <2> SUFFICES ASSUME NEW o \in Requests, o # r
                 PROVE  LET k == request[o]
                        IN  /\ k.at = "look" => /\ k.clock < expires[k.token]
                                                /\ k.late => k.token \in told'[k.process]
                            /\ k.at = "accepted" => expires[k.token] # Never
      BY <1>1, <1>7 DEF ChecksBegun
    <2>1. request[o].at = "look" => request[o].process \in Processes
      BY <1>2, Shape, CheckFields
    <2> QED
      BY <1>8, <2>1 DEF SessionInv, ChecksBegun
  <1>12. RevokedRefused'
    BY <1>1, <1>7 DEF SessionInv, RevokedRefused
  <1>13. OffersKept'
    BY <1>1 DEF SessionInv, OffersKept
  <1>14. SpentOnce'
    BY <1>1, <1>7 DEF SessionInv, SpentOnce
  <1> QED
    BY <1>9, <1>10, <1>11, <1>12, <1>13, <1>14 DEF SessionInv

-----------------------------------------------------------------------------
\* A new state is offered by one process.
LEMMA StartOAuthKeeps ==
    ASSUME SessionInv, NEW p \in Processes, NEW s \in States, StartOAuth(p, s)
    PROVE  SessionInv'
  <1> DEFINE map == [Cleaned(offered[p]) EXCEPT ![s] = StateExpiry]
             offer == [by |-> p, until |-> now + StateTTL]
  <1>1. /\ issued[s] = NotIssued
        /\ offered' = [offered EXCEPT ![p] = map]
        /\ issued' = [issued EXCEPT ![s] = offer]
        /\ UNCHANGED <<now, expires, revoked, request, restarts, told, spent, madeFor>>
    BY DEF StartOAuth
  <1>2. SessionTypeOK /\ now \in Nat /\ offered[p] \in [States -> Nat]
    BY DEF SessionInv, SessionTypeOK
  <1>3. /\ StateExpiry = now + StateTTL /\ StateExpiry \in Nat /\ StateExpiry # Never
        /\ offer.until = StateExpiry /\ offer.by = p
        /\ offer \in [by : Processes \cup {"nobody"}, until : Nat]
        /\ offer # NotIssued
    BY <1>2, TTLAssumption DEF StateExpiry, Never, NotIssued
  <1>4. /\ Cleaned(offered[p]) \in [States -> Nat]
        /\ \A z \in States : Cleaned(offered[p])[z] \in {offered[p][z], Never}
    BY <1>2, CleanedKeeps
  <1>5. /\ map \in [States -> Nat] /\ map[s] = StateExpiry
        /\ \A z \in States \ {s} : map[z] \in {offered[p][z], Never}
    BY <1>3, <1>4
  <1>6. s \notin spent
    BY <1>1 DEF SessionInv, OffersKept
  <1>7. \A o \in Processes : offered[o][s] = Never
    <2>1. \A o \in Processes : offered[o][s] \in {Never, issued[s].until}
      BY <1>2 DEF SessionTypeOK
    <2> QED
      BY <1>1, <2>1 DEF NotIssued, Never
  <1> HIDE DEF map, offer
  <1>8. /\ offered' \in [Processes -> [States -> Nat]]
        /\ offered'[p] = map /\ \A o \in Processes \ {p} : offered'[o] = offered[o]
        /\ issued'[s] = offer /\ \A z \in States \ {s} : issued'[z] = issued[z]
    BY <1>1, <1>2, <1>5 DEF SessionTypeOK
  <1>9. ASSUME NEW o \in Processes, NEW z \in States
        PROVE  /\ offered'[o][z] \in {Never, issued'[z].until}
               /\ offered'[o][z] # Never => o = issued'[z].by /\ z \notin spent
    <2>1. offered[o][z] \in {Never, issued[z].until}
      BY <1>2 DEF SessionTypeOK
    <2>2. offered[o][z] # Never => o = issued[z].by /\ z \notin spent
      BY DEF SessionInv, OffersKept
    <2>3. CASE z = s
      BY <1>3, <1>5, <1>6, <1>7, <1>8, <2>3
    <2>4. CASE z # s
      BY <1>5, <1>8, <2>1, <2>2, <2>4
    <2> QED
      BY <2>3, <2>4
  <1>10. SessionTypeOK'
    <2>1. issued' \in [States -> [by : Processes \cup {"nobody"}, until : Nat]]
      BY <1>1, <1>2, <1>3 DEF SessionTypeOK
    <2> QED
      BY <1>1, <1>2, <1>8, <1>9, <2>1 DEF SessionTypeOK
  <1>11. OffersKept'
    <2>1. \A z \in spent : issued'[z] # NotIssued
      <3> SUFFICES ASSUME NEW z \in spent PROVE issued'[z] # NotIssued
        OBVIOUS
      <3>1. z \in States /\ z # s
        BY <1>2, <1>6 DEF SessionTypeOK
      <3> QED
        BY <1>8, <3>1 DEF SessionInv, OffersKept
    <2> QED
      BY <1>1, <1>9, <2>1 DEF OffersKept
  <1>12. Remembered' /\ ChecksBegun' /\ RevokedRefused'
    BY <1>1 DEF SessionInv, Remembered, ChecksBegun, RevokedRefused
  <1>13. SpentOnce'
    <2>1. \A z \in spent : issued'[z] = issued[z]
      BY <1>2, <1>6, <1>8 DEF SessionTypeOK
    <2> QED
      BY <1>1, <2>1 DEF SessionInv, SpentOnce
  <1> QED
    BY <1>10, <1>11, <1>12, <1>13 DEF SessionInv

\* A callback takes the state away, where it was and so everywhere.
LEMMA ConsumeKeeps ==
    ASSUME SessionInv, NEW r \in Requests, NEW p \in Processes, NEW s \in States,
           Consume(r, p, s)
    PROVE  SessionInv'
  <1> DEFINE map == [Cleaned(offered[p]) EXCEPT ![s] = Never]
             new == [at |-> "callback", process |-> p, state |-> s, clock |-> now]
  <1>1. /\ request[r] = Idle
        /\ offered[p][s] > now
        /\ offered' = [offered EXCEPT ![p] = map]
        /\ request' = [request EXCEPT ![r] = new]
        /\ spent' = spent \cup {s}
        /\ UNCHANGED <<now, expires, revoked, restarts, told, issued, madeFor>>
    BY DEF Consume
  <1>2. SessionTypeOK /\ now \in Nat /\ offered[p] \in [States -> Nat]
    BY DEF SessionInv, SessionTypeOK
  <1>3. /\ Cleaned(offered[p]) \in [States -> Nat]
        /\ \A z \in States : Cleaned(offered[p])[z] \in {offered[p][z], Never}
    BY <1>2, CleanedKeeps
  <1>4. /\ map \in [States -> Nat] /\ map[s] = Never
        /\ \A z \in States \ {s} : map[z] \in {offered[p][z], Never}
    BY <1>3 DEF Never
  <1>5. /\ new \in Callbacks /\ new.at = "callback" /\ new.process = p
        /\ new.state = s /\ new.clock = now
    BY <1>2 DEF Callbacks
  <1>6. offered[p][s] # Never /\ offered[p][s] \in Nat
    BY <1>1, <1>2 DEF Never
  <1>7. p = issued[s].by /\ s \notin spent /\ now < issued[s].until
    <2>1. offered[p][s] \in {Never, issued[s].until}
      BY <1>2 DEF SessionTypeOK
    <2> QED
      BY <1>1, <1>6, <2>1 DEF SessionInv, OffersKept
  <1>8. issued[s] # NotIssued
    <2>1. issued[s].until \in Nat /\ now \in Nat /\ now < issued[s].until
      BY <1>2, <1>7 DEF SessionTypeOK
    <2>2. issued[s].until # Never
      BY <2>1 DEF Never
    <2>3. NotIssued.until = Never
      BY DEF NotIssued
    <2> QED
      BY <2>2, <2>3
  <1>9. \A o \in Requests : request[o].at = "callback" => request[o].state # s
    BY <1>7 DEF SessionInv, SpentOnce
  <1>10. \A t \in Tokens : s \notin madeFor[t]
    BY <1>7 DEF SessionInv, SpentOnce
  <1> HIDE DEF map, new
  <1>11. /\ offered' \in [Processes -> [States -> Nat]]
         /\ offered'[p] = map /\ \A o \in Processes \ {p} : offered'[o] = offered[o]
         /\ request'[r] = new /\ \A o \in Requests \ {r} : request'[o] = request[o]
    BY <1>1, <1>2, <1>4 DEF SessionTypeOK
  <1>12. ASSUME NEW o \in Processes, NEW z \in States
         PROVE  /\ offered'[o][z] \in {Never, issued[z].until}
                /\ offered'[o][z] # Never => o = issued[z].by /\ z \notin spent'
    <2>1. offered[o][z] \in {Never, issued[z].until}
      BY <1>2 DEF SessionTypeOK
    <2>2. offered[o][z] # Never => o = issued[z].by /\ z \notin spent
      BY DEF SessionInv, OffersKept
    <2>3. CASE z = s
      BY <1>4, <1>7, <1>11, <2>1, <2>2, <2>3
    <2>4. CASE z # s
      BY <1>1, <1>4, <1>11, <2>1, <2>2, <2>4
    <2> QED
      BY <2>3, <2>4
  <1>13. SessionTypeOK'
    <2>1. request' \in [Requests -> {Idle} \cup Checks \cup Callbacks]
      BY <1>1, <1>2, <1>5 DEF SessionTypeOK
    <2> QED
      BY <1>1, <1>2, <1>11, <1>12, <2>1 DEF SessionTypeOK
  <1>14. OffersKept'
    <2>1. \A z \in spent' : issued[z] # NotIssued
      BY <1>1, <1>8 DEF SessionInv, OffersKept
    <2> QED
      BY <1>1, <1>12, <2>1 DEF OffersKept
  <1>15. ChecksBegun' /\ RevokedRefused'
    BY <1>1, <1>5, <1>11 DEF SessionInv, ChecksBegun, RevokedRefused
  <1>16. Remembered'
    BY <1>1 DEF SessionInv, Remembered
  <1>17. SpentOnce'
    <2>1. ASSUME NEW o \in Requests, request'[o].at = "callback"
          PROVE  /\ request'[o].state \in spent'
                 /\ request'[o].process = issued[request'[o].state].by
                 /\ request'[o].clock < issued[request'[o].state].until
                 /\ \A z \in Requests :
                       request'[z].at = "callback" /\ request'[z].state = request'[o].state
                           => z = o
                 /\ \A t \in Tokens : request'[o].state \notin madeFor[t]
      <3>1. CASE o = r
        BY <1>1, <1>5, <1>7, <1>9, <1>10, <1>11, <3>1
      <3>2. CASE o # r
        <4>1. request'[o] = request[o] /\ request[o].state # s
          BY <1>9, <1>11, <2>1, <3>2
        <4>2. /\ request[o].state \in spent
              /\ request[o].process = issued[request[o].state].by
              /\ request[o].clock < issued[request[o].state].until
              /\ \A t \in Tokens : request[o].state \notin madeFor[t]
          BY <2>1, <4>1 DEF SessionInv, SpentOnce
        <4>3. ASSUME NEW z \in Requests, request'[z].at = "callback",
                     request'[z].state = request'[o].state
              PROVE  z = o
          BY <1>5, <1>11, <2>1, <4>1, <4>3 DEF SessionInv, SpentOnce
        <4> QED
          BY <1>1, <4>1, <4>2, <4>3
      <3> QED
        BY <3>1, <3>2
    <2>2. \A t \in Tokens : madeFor[t] \subseteq spent'
      BY <1>1 DEF SessionInv, SpentOnce
    <2>3. \A t, o \in Tokens : \A z \in madeFor[t] : z \in madeFor[o] => o = t
      BY DEF SessionInv, SpentOnce
    <2> QED
      BY <1>1, <2>1, <2>2, <2>3 DEF SpentOnce
  <1> QED
    BY <1>13, <1>14, <1>15, <1>16, <1>17 DEF SessionInv

\* The token a callback ends in takes the callback's place.
LEMMA FinishCallbackKeeps ==
    ASSUME SessionInv, NEW r \in Requests, NEW t \in Tokens, FinishCallback(r, t)
    PROVE  SessionInv'
  <1> DEFINE s == request[r].state
  <1>1. /\ request[r].at = "callback"
        /\ expires[t] = Never
        /\ expires' = [expires EXCEPT ![t] = now + TTL]
        /\ madeFor' = [madeFor EXCEPT ![t] = {s}]
        /\ request' = [request EXCEPT ![r] = Idle]
        /\ UNCHANGED <<now, revoked, offered, restarts, told, issued, spent>>
    BY DEF FinishCallback, MakeToken
  <1>2. SessionTypeOK /\ now \in Nat /\ now + TTL \in Nat /\ now + TTL # Never
    BY TTLAssumption DEF SessionInv, SessionTypeOK, Never
  <1>3. s \in States
    BY <1>1, <1>2, Shape, CallbackFields
  <1>4. /\ s \in spent
        /\ \A o \in Requests : request[o].at = "callback" /\ request[o].state = s => o = r
        /\ \A o \in Tokens : s \notin madeFor[o]
    BY <1>1 DEF SessionInv, SpentOnce
  <1> HIDE DEF s
  <1>5. /\ request'[r] = Idle /\ Idle.at = "idle"
        /\ \A o \in Requests \ {r} : request'[o] = request[o]
    BY <1>1, <1>2 DEF SessionTypeOK, Idle
  <1>6. /\ madeFor'[t] = {s} /\ \A o \in Tokens \ {t} : madeFor'[o] = madeFor[o]
        /\ \A o \in Tokens : expires[o] # Never => expires'[o] = expires[o]
    BY <1>1, <1>2 DEF SessionTypeOK
  <1>7. SessionTypeOK'
    BY <1>1, <1>2, <1>3 DEF SessionTypeOK
  <1>8. Remembered'
    BY <1>1, <1>2, <1>6 DEF SessionInv, Remembered, SessionTypeOK
  <1>9. ASSUME NEW o \in Requests, o # r, request[o].at \in {"look", "accepted"}
        PROVE  /\ expires'[request[o].token] = expires[request[o].token]
               /\ expires[request[o].token] # Never
    <2>1. request[o].token \in Tokens /\ request[o].clock \in Nat
      BY <1>2, <1>9, Shape, CheckFields
    <2>2. expires[request[o].token] # Never
      BY <1>9, <2>1 DEF SessionInv, ChecksBegun, SessionTypeOK, Never
    <2> QED
      BY <1>6, <2>1, <2>2
  <1>10. ChecksBegun'
    BY <1>1, <1>5, <1>9 DEF SessionInv, ChecksBegun
  <1>11. RevokedRefused'
    BY <1>1, <1>5, <1>9 DEF SessionInv, RevokedRefused
  <1>12. OffersKept'
    BY <1>1 DEF SessionInv, OffersKept
  <1>13. SpentOnce'
    <2>1. ASSUME NEW o \in Requests, request'[o].at = "callback"
          PROVE  /\ request'[o].state \in spent
                 /\ request'[o].process = issued[request'[o].state].by
                 /\ request'[o].clock < issued[request'[o].state].until
                 /\ \A z \in Requests :
                       request'[z].at = "callback" /\ request'[z].state = request'[o].state
                           => z = o
                 /\ \A k \in Tokens : request'[o].state \notin madeFor'[k]
      <3>1. o # r /\ request'[o] = request[o] /\ request[o].at = "callback"
        BY <1>5, <2>1
      <3>2. request[o].state # s
        BY <1>4, <3>1
      <3>3. /\ request[o].state \in spent
            /\ request[o].process = issued[request[o].state].by
            /\ request[o].clock < issued[request[o].state].until
            /\ \A z \in Requests :
                  request[z].at = "callback" /\ request[z].state = request[o].state => z = o
            /\ \A k \in Tokens : request[o].state \notin madeFor[k]
        BY <3>1 DEF SessionInv, SpentOnce
      <3> QED
        BY <1>5, <1>6, <3>1, <3>2, <3>3
    <2>2. \A k \in Tokens : madeFor'[k] \subseteq spent
      BY <1>4, <1>6 DEF SessionInv, SpentOnce
    <2>3. \A k, o \in Tokens : \A z \in madeFor'[k] : z \in madeFor'[o] => o = k
      BY <1>4, <1>6 DEF SessionInv, SpentOnce
    <2> QED
      BY <1>1, <2>1, <2>2, <2>3 DEF SpentOnce
  <1> QED
    BY <1>7, <1>8, <1>10, <1>11, <1>12, <1>13 DEF SessionInv

-----------------------------------------------------------------------------
\* A process that starts again: its memory and its requests are gone.
LEMMA RestartKeeps ==
    ASSUME SessionInv, NEW p \in Processes, Restart(p)
    PROVE  SessionInv'
  <1>1. /\ restarts < MaxRestarts /\ restarts' = restarts + 1
        /\ revoked' = [revoked EXCEPT ![p] = [t \in Tokens |-> Never]]
        /\ offered' = [offered EXCEPT ![p] = [s \in States |-> Never]]
        /\ told' = [told EXCEPT ![p] = {}]
        /\ request' = [r \in Requests |->
              IF request[r] # Idle /\ request[r].process = p THEN Idle ELSE request[r]]
        /\ UNCHANGED <<now, expires, issued, spent, madeFor>>
    BY DEF Restart
  <1>2. SessionTypeOK /\ restarts \in 0 .. MaxRestarts
    BY DEF SessionInv, SessionTypeOK
  <1>3. /\ told'[p] = {} /\ \A o \in Processes \ {p} : told'[o] = told[o]
        /\ \A o \in Processes \ {p} : revoked'[o] = revoked[o] /\ offered'[o] = offered[o]
        /\ offered'[p] = [s \in States |-> Never]
    BY <1>1, <1>2 DEF SessionTypeOK
  <1>4. ASSUME NEW r \in Requests
        PROVE  \/ request'[r] = Idle /\ request'[r].at = "idle"
               \/ /\ request'[r] = request[r]
                  /\ request[r].at # "idle" => request[r].process # p
    BY <1>1, <1>2, Shape DEF Idle
  <1>5. SessionTypeOK'
    <2>1. request' \in [Requests -> {Idle} \cup Checks \cup Callbacks]
      BY <1>1, <1>2 DEF SessionTypeOK
    <2>2. restarts' \in 0 .. MaxRestarts
      BY <1>1, <1>2, BoundsAssumption
    <2>3. /\ revoked' \in [Processes -> [Tokens -> Nat]]
          /\ offered' \in [Processes -> [States -> Nat]]
          /\ told' \in [Processes -> SUBSET Tokens]
      BY <1>1, <1>2 DEF SessionTypeOK, Never
    <2>4. ASSUME NEW o \in Processes, NEW s \in States
          PROVE  offered'[o][s] \in {Never, issued'[s].until}
      <3>1. issued' = issued /\ offered[o][s] \in {Never, issued[s].until}
        BY <1>1, <1>2 DEF SessionTypeOK
      <3>2. CASE o = p
        BY <1>3, <3>2
      <3>3. CASE o # p
        BY <1>3, <3>1, <3>3
      <3> QED
        BY <3>2, <3>3
    <2> QED
      BY <1>1, <1>2, <2>1, <2>2, <2>3, <2>4 DEF SessionTypeOK
  <1>6. Remembered'
    BY <1>1, <1>3 DEF SessionInv, Remembered
  <1>7. ChecksBegun'
    <2> SUFFICES ASSUME NEW r \in Requests, request'[r] = request[r],
                        request[r].at # "idle" => request[r].process # p
                 PROVE  LET q == request[r]
                        IN  /\ q.at = "look" => /\ q.clock < expires[q.token]
                                                /\ q.late => q.token \in told'[q.process]
                            /\ q.at = "accepted" => expires[q.token] # Never
      BY <1>1, <1>4 DEF ChecksBegun
    <2>1. request[r].at = "look" => request[r].process \in Processes
      BY <1>2, Shape, CheckFields
    <2> QED
      BY <1>3, <2>1 DEF SessionInv, ChecksBegun
  <1>8. RevokedRefused'
    BY <1>1, <1>4 DEF SessionInv, RevokedRefused
  <1>9. OffersKept'
    BY <1>1, <1>3 DEF SessionInv, OffersKept
  <1>10. SpentOnce'
    BY <1>1, <1>4 DEF SessionInv, SpentOnce
  <1> QED
    BY <1>5, <1>6, <1>7, <1>8, <1>9, <1>10 DEF SessionInv

LEMMA TickKeeps ==
    ASSUME SessionInv, Tick
    PROVE  SessionInv'
  <1>1. /\ now' = now + 1
        /\ UNCHANGED <<expires, revoked, offered, request, restarts, told, issued, spent, madeFor>>
    BY DEF Tick, history
  <1>2. SessionTypeOK /\ now \in Nat /\ now' \in Nat
    BY <1>1 DEF SessionInv, SessionTypeOK
  <1>3. SessionTypeOK'
    BY <1>1, <1>2 DEF SessionTypeOK
  <1>4. Remembered'
    BY <1>1, <1>2 DEF SessionInv, Remembered, SessionTypeOK
  <1>5. ChecksBegun' /\ RevokedRefused' /\ OffersKept' /\ SpentOnce'
    BY <1>1 DEF SessionInv, ChecksBegun, RevokedRefused, OffersKept, SpentOnce
  <1> QED
    BY <1>3, <1>4, <1>5 DEF SessionInv

\* A logout whose token has not expired checks it once more.
LEMMA LogOutKeeps ==
    ASSUME SessionInv, NEW r \in Requests, LogOut(r)
    PROVE  SessionInv'
  <1>1. request[r].at = "accepted" /\ SessionTypeOK
    BY DEF LogOut, SessionInv
  <1>2. request[r].process \in Processes /\ request[r].token \in Tokens
    BY <1>1, Shape, CheckFields
  <1>3. CASE now < expires[request[r].token]
    <2>1. CheckExpiry(r, request[r].process, request[r].token, "revoke")
      BY <1>3 DEF LogOut
    <2> QED
      BY <1>2, <2>1, CheckKeeps
  <1>4. CASE ~(now < expires[request[r].token])
    BY <1>4, EndKeeps DEF LogOut
  <1> QED
    BY <1>3, <1>4

-----------------------------------------------------------------------------
LEMMA StepKeeps ==
    ASSUME SessionInv, [SessionNext]_sessionVars
    PROVE  SessionInv'
  <1>1. ASSUME NEW r \in Requests,
               LookUp(r) \/ Serve(r) \/ LogOut(r) \/ Revoke(r) \/ FailCallback(r)
        PROVE  SessionInv'
    <2>1. Serve(r) \/ FailCallback(r) => SessionInv'
      BY EndKeeps DEF Serve, FailCallback
    <2> QED
      BY <1>1, <2>1, LookUpKeeps, LogOutKeeps, RevokeKeeps
  <1>2. ASSUME NEW r \in Requests, NEW p \in Processes, NEW t \in Tokens, Arrive(r, p, t)
        PROVE  SessionInv'
    <2>1. PICK why \in {"request", "logout"} : CheckExpiry(r, p, t, why)
      BY <1>2 DEF Arrive
    <2>2. why \in {"request", "logout", "revoke"}
      BY <2>1
    <2> QED
      BY <2>1, <2>2, CheckKeeps
  <1>3. CASE UNCHANGED sessionVars
    BY <1>3 DEF sessionVars, SessionInv, SessionTypeOK, Remembered, ChecksBegun, RevokedRefused,
                OffersKept, SpentOnce, Cleaned
  <1> QED
    BY <1>1, <1>2, <1>3, LoginKeeps, StartOAuthKeeps, ConsumeKeeps, FinishCallbackKeeps,
       RestartKeeps, TickKeeps DEF SessionNext

\* The inductive invariant of the sessions.
THEOREM SessionsInductive == SessionSpec => []SessionInv
  BY InitEstablishes, StepKeeps, PTL DEF SessionSpec

\* Type correctness.
THEOREM SessionTypeCorrect == SessionSpec => []SessionTypeOK
  <1>1. SessionInv => SessionTypeOK
    BY DEF SessionInv
  <1> QED
    BY <1>1, SessionsInductive, PTL

\* A process that answered a logout refuses the token until it restarts,
\* unless the request's check began before the token expired and ended after.
THEOREM LogoutsRemembered == SessionSpec => []RevokedRefused
  <1>1. SessionInv => RevokedRefused
    BY DEF SessionInv
  <1> QED
    BY <1>1, SessionsInductive, PTL

\* What the invariant says of the callbacks and tokens of one state.
LEMMA AtMostOne ==
    ASSUME NEW A, NEW B,
           \A x, y \in A : x = y, \A x, y \in B : x = y, A = {} \/ B = {}
    PROVE  Cardinality(A) + Cardinality(B) <= 1
  <1>1. ASSUME NEW S, \A x, y \in S : x = y
        PROVE  Cardinality(S) \in {0, 1}
    <2>1. S = {} \/ \E x \in S : S = {x}
      BY <1>1
    <2> QED
      BY <2>1, FS_EmptySet, FS_Singleton
  <1>2. Cardinality(A) \in {0, 1} /\ Cardinality(B) \in {0, 1}
    BY <1>1
  <1>3. Cardinality({}) = 0
    BY FS_EmptySet
  <1> QED
    BY <1>2, <1>3

\* An OAuth state serves one callback, of the process that offered it and in
\* its time, and no process offers it afterwards.
THEOREM StatesServeOnce == SessionSpec => []StateOnce
  <1>1. ASSUME SessionInv PROVE StateOnce
    <2> SUFFICES ASSUME NEW s \in States
                 PROVE  LET callbacks == {r \in Requests :
                                             request[r].at = "callback" /\ request[r].state = s}
                            made == {t \in Tokens : s \in madeFor[t]}
                        IN  /\ Cardinality(callbacks) + Cardinality(made) <= 1
                            /\ \A r \in callbacks :
                                  /\ request[r].process = issued[s].by
                                  /\ request[r].clock < issued[s].until
                            /\ s \in spent => \A p \in Processes : offered[p][s] = Never
      BY DEF StateOnce
    <2> DEFINE callbacks == {r \in Requests :
                                request[r].at = "callback" /\ request[r].state = s}
               made == {t \in Tokens : s \in madeFor[t]}
    <2>1. /\ \A x, y \in callbacks : x = y
          /\ \A x, y \in made : x = y
          /\ callbacks = {} \/ made = {}
      BY <1>1 DEF SessionInv, SpentOnce
    <2>2. Cardinality(callbacks) + Cardinality(made) <= 1
      <3> HIDE DEF callbacks, made
      <3> QED
        BY <2>1, AtMostOne
    <2>3. \A r \in callbacks : request[r].process = issued[s].by
                               /\ request[r].clock < issued[s].until
      BY <1>1 DEF SessionInv, SpentOnce
    <2>4. s \in spent => \A p \in Processes : offered[p][s] = Never
      BY <1>1 DEF SessionInv, OffersKept
    <2> QED
      BY <2>2, <2>3, <2>4
  <1> QED
    BY <1>1, SessionsInductive, PTL
=============================================================================
