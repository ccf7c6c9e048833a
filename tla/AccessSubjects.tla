--------------------------- MODULE AccessSubjects ---------------------------
(***************************************************************************)
(* Who may call the platform, as control-api keeps it: applications with   *)
(* their API keys, users, and the onboarding todos ops-api resolves, in    *)
(* memory (internal/platform/store/store.go) or in Postgres                *)
(* (internal/control/repository.go, internal/ops/repository.go).           *)
(*                                                                         *)
(* The memory store holds a lock over a whole operation. In Postgres an    *)
(* operation is a transaction whose first statement locks the row of its   *)
(* application, user, key or todo, so it takes effect at its commit; only  *)
(* RotateApplicationKey reads first, without a lock, and writes what it    *)
(* computed from that reading. Names are unique in Postgres and not in     *)
(* memory. seed-db writes the demo rows back at any time, the keys in one  *)
(* transaction and the applications in a later one.                        *)
(***************************************************************************)
EXTENDS Naturals, Sequences, FiniteSets

CONSTANTS
    Stores,        \* the stores examined, of "memory" and "postgres"
    AppNames,      \* names of applications
    SeededApps,    \* those of the demo data
    SeededKeys,    \* those of them the demo data has a key row of
    Slug,          \* slugKey: the key the memory store makes of a name
    DemoSlug,      \* what the demo keys are made of
    Emails,        \* addresses of invited users
    Clients,       \* callers that rotate keys in Postgres
    MaxApps,       \* bound: rows of applications
    MaxKeys,       \* bound: rows of API keys
    MaxUsers,      \* bound: rows of users
    MaxSeconds,    \* bound: the last second of the clock
    MaxSeedings    \* bound: how often seed-db runs

ASSUME StoresAssumption == Stores \subseteq {"memory", "postgres"}
ASSUME SeedsAssumption == SeededKeys \subseteq SeededApps /\ SeededApps \subseteq AppNames
ASSUME NamesAssumption == AppNames # {} /\ IsFiniteSet(SeededApps)
\* A name can be such that the key made of it looks like one that was rotated.
ASSUME SlugAssumption == \A n \in AppNames : Slug[n].rotated \in Seq(0 .. MaxSeconds)
ASSUME DemoSlugAssumption ==
    \A n, o \in SeededApps : DemoSlug[n] = DemoSlug[o] => n = o
ASSUME AccessBounds == MaxSeconds \in Nat /\ MaxSeedings \in Nat

VARIABLES
    store,         \* the store this process runs on
    apps,          \* rows of applications, oldest first
    keys,          \* rows of api_keys
    users,         \* rows of users
    todos,         \* onboarding rows of ops_todos
    rotation,      \* what each rotation in Postgres has read
    second,        \* the clock, in the unit of a rotated key's suffix
    seeding,       \* how far seed-db has come
    seedings,
    retired,       \* history: names whose keys a rotation retired since
    crossed        \* history: names rotated while seed-db was half way

accessVars ==
    <<store, apps, keys, users, todos, rotation, second, seeding, seedings,
      retired, crossed>>

-----------------------------------------------------------------------------
\* The name of a key: what it was made from, and the second of each rotation.
\* A demo key is a slug as well, of another text than the name of its
\* application: the memory store can make the same key of another name.
SlugKey(n) == [from |-> "slug", of |-> Slug[n].of, rotated |-> Slug[n].rotated]
SeedKey(n) == [from |-> "slug", of |-> DemoSlug[n], rotated |-> <<>>]
ClockKey(n) == [from |-> "clock", of |-> n, rotated |-> <<>>]
NewKey(n) == IF store = "memory" THEN SlugKey(n) ELSE ClockKey(n)
RotatedKey(k, s) == [k EXCEPT !.rotated = Append(@, s)]

KeyNames ==
    [from : {"slug", "clock"},
     of : AppNames \cup {Slug[n].of : n \in AppNames} \cup {DemoSlug[n] : n \in SeededApps},
     rotated : Seq(0 .. MaxSeconds)]

App(n, k, s, seed) == [name |-> n, key |-> k, status |-> s, seed |-> seed]
Key(k, n, s) == [name |-> k, project |-> n, status |-> s]
AppTodo(n) == <<"application", n>>
UserTodo(e) == <<"user", e>>

AppStatuses == {"Provisioning", "Active", "Warning"}
KeyStatuses == {"Provisioning", "Active", "Rotated", "Revoked"}
NoRotation == [app |-> 0, old |-> ClockKey(CHOOSE n \in AppNames : TRUE), since |-> 0]

SeedStatus(n) == IF n \in SeededKeys THEN "Active" ELSE "Warning"
SeedRows == {App(n, SeedKey(n), SeedStatus(n), TRUE) : n \in SeededApps}
SeedKeyRows == {Key(SeedKey(n), n, "Active") : n \in SeededKeys}

\* A sequence of the members of a set of rows, in any order.
Rows(set) == CHOOSE q \in [1 .. Cardinality(set) -> set] : {q[i] : i \in DOMAIN q} = set

AccessInit ==
    /\ store \in Stores
    /\ apps = IF store = "memory" THEN Rows(SeedRows) ELSE <<>>
    /\ keys = IF store = "memory" THEN Rows(SeedKeyRows) ELSE <<>>
    /\ users = <<>>
    /\ todos = <<>>
    /\ rotation = [c \in Clients |-> NoRotation]
    /\ second = 0
    /\ seeding = "idle"
    /\ seedings = 0
    /\ retired = {}
    /\ crossed = {}

-----------------------------------------------------------------------------
\* update api_keys set status = s where project = n or name = k
Touched(n, k) == {j \in DOMAIN keys : keys[j].project = n \/ keys[j].name = k}
WithStatus(js, s) ==
    [j \in DOMAIN keys |-> IF j \in js THEN [keys[j] EXCEPT !.status = s] ELSE keys[j]]

Resolved(title) ==
    [t \in DOMAIN todos |->
        IF todos[t].title = title THEN [todos[t] EXCEPT !.status = "Resolved"] ELSE todos[t]]
Pending(title) == [title |-> title, status |-> "Pending"]

CreateApplication(n) ==
    /\ Len(apps) < MaxApps /\ Len(keys) < MaxKeys
    /\ store = "postgres" => \A i \in DOMAIN apps : apps[i].name # n
    /\ apps' = Append(apps, App(n, NewKey(n), "Provisioning", FALSE))
    /\ keys' = Append(keys, Key(NewKey(n), n, "Provisioning"))
    /\ todos' = Append(todos, Pending(AppTodo(n)))
    /\ UNCHANGED <<store, users, rotation, second, seeding, seedings, retired, crossed>>

\* Every key of the application's project becomes Active, a retired one too.
ActivateApplication(i) ==
    LET touched == Touched(apps[i].name, apps[i].key)
    IN  /\ apps' = [apps EXCEPT ![i].status = "Active"]
        /\ keys' = WithStatus(touched, "Active")
        /\ todos' = Resolved(AppTodo(apps[i].name))
        /\ retired' = retired \ {keys[j].project : j \in touched}
        /\ UNCHANGED <<store, users, rotation, second, seeding, seedings, crossed>>

\* The writes of a rotation of application i whose key was read as old and
\* whose suffix is the second s.
Retire_ByName(i, old) == WithStatus({j \in DOMAIN keys : keys[j].name = old}, "Rotated")
Retire(i, old) == WithStatus(Touched(apps[i].name, old), "Rotated")

WriteRotation(i, old, s) ==
    /\ Len(keys) < MaxKeys
    /\ apps' = [apps EXCEPT ![i].key = RotatedKey(old, s)]
    /\ keys' = Append(Retire(i, old), Key(RotatedKey(old, s), apps[i].name, "Active"))
    /\ retired' = retired \cup {apps[i].name}
    /\ crossed' = IF seeding = "keys" THEN crossed \cup {apps[i].name}
                                      ELSE crossed \ {apps[i].name}
    /\ UNCHANGED <<store, users, todos, second, seeding, seedings>>

RotateInMemory(i) ==
    /\ store = "memory"
    /\ WriteRotation(i, apps[i].key, second)
    /\ UNCHANGED rotation

\* The select of RotateApplicationKey, which locks nothing.
ReadForRotation(c, i) ==
    /\ store = "postgres"
    /\ rotation[c] = NoRotation
    /\ rotation' = [rotation EXCEPT ![c] = [app |-> i, old |-> apps[i].key, since |-> second]]
    /\ UNCHANGED <<store, apps, keys, users, todos, second, seeding, seedings, retired, crossed>>

\* Its update of the application waits for whoever holds the row, then the
\* rest of the transaction follows; the suffix is a second in between. Key
\* names are unique.
CommitRotation_SkipsInsert(c) ==
    LET r == rotation[c]
        new == RotatedKey(r.old, second)
    IN  /\ r # NoRotation /\ Len(keys) < MaxKeys
        /\ apps' = [apps EXCEPT ![r.app].key = new]
        /\ keys' = IF \E j \in DOMAIN keys : keys[j].name = new
                   THEN Retire(r.app, r.old)
                   ELSE Append(Retire(r.app, r.old), Key(new, apps[r.app].name, "Active"))
        /\ retired' = retired \cup {apps[r.app].name}
        /\ crossed' = IF seeding = "keys" THEN crossed \cup {apps[r.app].name}
                                          ELSE crossed \ {apps[r.app].name}
        /\ rotation' = [rotation EXCEPT ![c] = NoRotation]
        /\ UNCHANGED <<store, users, todos, second, seeding, seedings>>

CommitRotation(c) ==
    /\ rotation[c] # NoRotation
    /\ \E s \in rotation[c].since .. second :
          /\ \A j \in DOMAIN keys : keys[j].name # RotatedKey(rotation[c].old, s)
          /\ WriteRotation(rotation[c].app, rotation[c].old, s)
    /\ rotation' = [rotation EXCEPT ![c] = NoRotation]

\* Its new key has the name of one that exists, or the database or the caller
\* gives up: the transaction rolls back.
AbortRotation(c) ==
    /\ rotation[c] # NoRotation
    /\ rotation' = [rotation EXCEPT ![c] = NoRotation]
    /\ UNCHANGED <<store, apps, keys, users, todos, second, seeding, seedings, retired, crossed>>

RevokeAPIKey(j) ==
    /\ keys' = WithStatus({j}, "Revoked")
    /\ UNCHANGED <<store, apps, users, todos, rotation, second, seeding, seedings,
                   retired, crossed>>

CreateUser(e) ==
    /\ Len(users) < MaxUsers
    /\ store = "postgres" => \A u \in DOMAIN users : users[u].email # e
    /\ users' = Append(users, [email |-> e, status |-> "Invited"])
    /\ todos' = Append(todos, Pending(UserTodo(e)))
    /\ UNCHANGED <<store, apps, keys, rotation, second, seeding, seedings, retired, crossed>>

ActivateUser(u) ==
    /\ users' = [users EXCEPT ![u].status = "Active"]
    /\ todos' = Resolved(UserTodo(users[u].email))
    /\ UNCHANGED <<store, apps, keys, rotation, second, seeding, seedings, retired, crossed>>

ResolveTodo(t) ==
    /\ todos' = [todos EXCEPT ![t].status = "Resolved"]
    /\ UNCHANGED <<store, apps, keys, users, rotation, second, seeding, seedings,
                   retired, crossed>>

-----------------------------------------------------------------------------
\* 005_demo_access_credentials.sql: the demo keys, inserted or made Active.
SeedAccessKeys ==
    LET present == {j \in DOMAIN keys : keys[j].name \in {SeedKey(n) : n \in SeededKeys}}
        missing == {k \in SeedKeyRows : \A j \in DOMAIN keys : keys[j].name # k.name}
    IN  /\ store = "postgres" /\ seeding = "idle"
        /\ seedings < MaxSeedings
        /\ seedings' = seedings + 1
        /\ seeding' = "keys"
        /\ keys' = WithStatus(present, "Active") \o Rows(missing)
        /\ retired' = retired \ SeededKeys
        /\ UNCHANGED <<store, apps, users, todos, rotation, second, crossed>>

\* 010_demo_applications.sql: the demo applications, inserted or set back to
\* their demo key and status; an application somebody else created under one
\* of their names fails it.
SeedApplications ==
    LET present == {i \in DOMAIN apps : apps[i].seed}
        missing == {r \in SeedRows : \A i \in present : apps[i].name # r.name}
    IN  /\ seeding = "keys"
        /\ \A i \in DOMAIN apps : apps[i].name \in SeededApps => apps[i].seed
        /\ seeding' = "idle"
        /\ apps' = [i \in DOMAIN apps |->
                       IF i \in present
                       THEN [apps[i] EXCEPT !.key = SeedKey(apps[i].name),
                                            !.status = SeedStatus(apps[i].name)]
                       ELSE apps[i]] \o Rows(missing)
        /\ retired' = retired \ SeededApps
        /\ UNCHANGED <<store, keys, users, todos, rotation, second, seedings, crossed>>

\* seed-db fails or is stopped after the keys.
StopSeeding ==
    /\ seeding = "keys"
    /\ seeding' = "idle"
    /\ UNCHANGED <<store, apps, keys, users, todos, rotation, second, seedings,
                   retired, crossed>>

NextSecond ==
    /\ second < MaxSeconds
    /\ second' = second + 1
    /\ UNCHANGED <<store, apps, keys, users, todos, rotation, seeding, seedings,
                   retired, crossed>>

\* What a caller of control-api or ops-api asks for.
AccessCall ==
    \/ \E n \in AppNames : CreateApplication(n)
    \/ \E i \in DOMAIN apps : ActivateApplication(i)
    \/ \E i \in DOMAIN apps : RotateInMemory(i)
    \/ \E c \in Clients, i \in DOMAIN apps : ReadForRotation(c, i)
    \/ \E j \in DOMAIN keys : RevokeAPIKey(j)
    \/ \E e \in Emails : CreateUser(e)
    \/ \E u \in DOMAIN users : ActivateUser(u)
    \/ \E t \in DOMAIN todos : ResolveTodo(t)

\* The rest of what happens: the end of rotations, seed-db, time.
AccessRest ==
    \/ \E c \in Clients : CommitRotation(c)
    \/ \E c \in Clients : AbortRotation(c)
    \/ SeedAccessKeys
    \/ SeedApplications
    \/ StopSeeding
    \/ NextSecond

-----------------------------------------------------------------------------
AccessTypeOK ==
    /\ store \in Stores
    /\ apps \in Seq([name : AppNames, key : KeyNames, status : AppStatuses, seed : BOOLEAN])
    /\ keys \in Seq([name : KeyNames, project : AppNames, status : KeyStatuses])
    /\ users \in Seq([email : Emails, status : {"Invited", "Active"}])
    /\ todos \in Seq([title : {"application", "user"} \X (AppNames \cup Emails),
                      status : {"Pending", "Resolved"}])
    /\ rotation \in [Clients -> [app : Nat, old : KeyNames, since : Nat]]
    /\ second \in 0 .. MaxSeconds
    /\ seeding \in {"idle", "keys"}
    /\ seedings \in 0 .. MaxSeedings
    /\ retired \subseteq AppNames
    /\ crossed \subseteq AppNames

\* After a rotation, and however many rotations of the application overlap,
\* no key of its name but one is Active, and that one is the key the
\* application shows, until seed-db writes it back, or somebody activates it,
\* or another application that shows the name of one of its keys.
RotatedOut ==
    \A n \in retired :
        LET active == {j \in DOMAIN keys : keys[j].project = n /\ keys[j].status = "Active"}
        IN  /\ Cardinality(active) <= 1
            /\ \A j \in active : \E i \in DOMAIN apps :
                   apps[i].name = n /\ apps[i].key = keys[j].name

\* The demo application without a key row shows a key nobody can find.
Keyless(i) == apps[i].seed /\ apps[i].name \notin SeededKeys /\ apps[i].key.rotated = <<>>

\* No other application has this one's name, or in memory a key made of the
\* same slug.
Alone(i) ==
    \A o \in DOMAIN apps \ {i} :
        /\ apps[o].name # apps[i].name
        /\ store = "memory" => apps[o].key.of # apps[i].key.of

\* The key an application shows is a row of its own project, and not one that
\* was rotated out: overlapping rotations never leave it with the loser's key.
\* Excepted are applications that in memory share a name, or the slug their
\* keys were made of (a new one called "customer" has the key of the demo
\* application customer-service-agent, and a rotation of either retires it),
\* and a rotation between the two transactions of seed-db.
KeyListed ==
    \A i \in DOMAIN apps : ~Keyless(i) =>
        \E j \in DOMAIN keys :
            /\ keys[j].name = apps[i].key
            /\ keys[j].project = apps[i].name
            /\ Alone(i) /\ apps[i].name \notin crossed => keys[j].status # "Rotated"

-----------------------------------------------------------------------------
(* The parts that make RotatedOut inductive.                               *)

\* RotatedOut without counting.
ActiveShown ==
    \A n \in retired :
        \A j \in DOMAIN keys : keys[j].project = n /\ keys[j].status = "Active" =>
            /\ \A k \in DOMAIN keys :
                  keys[k].project = n /\ keys[k].status = "Active" => k = j
            /\ \E i \in DOMAIN apps : apps[i].name = n /\ apps[i].key = keys[j].name

\* What seed-db writes back, in Postgres, are the keys and applications of its
\* own names.
SeedsKept ==
    /\ store = "postgres" =>
          \A j \in DOMAIN keys, n \in SeededKeys :
             keys[j].name = SeedKey(n) => keys[j].project = n
    /\ \A i \in DOMAIN apps : apps[i].seed => apps[i].name \in SeededApps

\* A rotation under way has read an application that is there.
RotationsRead ==
    \A c \in Clients : rotation[c] # NoRotation => rotation[c].app \in DOMAIN apps

AccessInv ==
    /\ AccessTypeOK
    /\ ActiveShown
    /\ SeedsKept
    /\ RotationsRead
=============================================================================
