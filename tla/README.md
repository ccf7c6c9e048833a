# Verification of anjing-ai-platform

TLA+ models of the platform's gateway, billing service, access data and sessions,
the TLC runs that check them on small instances, and theorems about them that
TLAPS has checked. Everything is translated from the Go sources under
`src/internal`, the commands under `src/cmd`, and the SQL under
`src/infra/postgres`. Run in this directory:

    tlc -workers 2 -config MCRedisLimiter.cfg MCRedisLimiter.tla
    tlapm LimiterProofs.tla

`PROJECT.json` maps every definition to the lines it stands for, and lists
components, runs, findings, hazards, mutants and theorems. A definition called
`X_Something` is a plausible mistake in `X`; no specification uses it. It shows
that the property named beside it in `PROJECT.json` can fail.

## 1. Inventory

The platform is a set of Go HTTP services (`cmd/*-api`, or all in one as
`platform-all`). Each handler runs in a goroutine of its own. Data live either in
one in-memory `store.Store`, whose mutex makes each operation atomic, or in
PostgreSQL, where an operation is a READ COMMITTED transaction of several
statements. Limiter, breaker, strategy cursor and sessions live in the memory of
the process.

| component | state | operations | what is hard | what makes it correct |
|---|---|---|---|---|
| route limiter, memory (`gateway/ratelimit.go`) | bucket per route and limit | `Allow` | the clock is read before the mutex is taken | bounded excess of a window; no early 429 |
| route limiter, Redis (`ratelimit_redis.go`, `ratelimit_config.go`) | counter per route, limit and window in Redis | `Allow`, fallback to the replica's memory limiter | increment applied, answer lost or late; resends; several replicas, each with its own clock, and Redis with another; Redis loses its data | one window shared by all replicas; nobody refused early; always decided |
| circuit breaker (`circuitbreaker.go`) | failures and open-until per route and upstream | `Allow`, `Record` | reports of calls admitted long ago | opens for failures in a row only; reopens |
| gateway proxy (`proxy.go`) | locals of each handler | resolve, limit, breaker, attempts, stream, report, log, answer | retries, streams cut off, disconnects, clients that stay and stop reading, log failures | one answer; a truthful log; no replay; each `Allow` reported |
| upstream selection (`proxy.go` 478-778) | one atomic cursor for all routes | ordered, round robin, weighted, canary, fallback | cursor shared by routes; weights | each upstream once; shares exact |
| route registry (`gateway/routes.go`) | routes, Draft or Active, with policies | create, update, publish, preflight, health check | edits under running requests | only published routes are proxied |
| LLM gateway (`llm.go`) | model routes | create, update, publish, invoke, stream | fallback, stream after the charge, edits meanwhile | answer, log and charge agree |
| Skill gateway (`skill.go`, `skill_schema.go`) | bindings, input schemas | create, update, publish, invoke | two queries, edits in between, drafts | nothing unpublished is in force |
| recorders (`gateway/repository.go` 1262-1412) | request logs, usage, audit | record a proxy, LLM or Skill call | failing or unsure commit | rows say what happened |
| usage billing (`billing/*`, `store.go`) | usage rows, plans, alerts | usage event, create/activate plan, resolve alert | repeated event ids, concurrent sums, alert rows locked one by one, credits | booked once; alerts follow cost; every transaction ends |
| applications, users, keys (`control/*`, `ops/*`) | applications, API keys, users, onboarding todos | create, activate, rotate, revoke, resolve | rotation reads without a lock and writes later; seed-db writes demo rows back in two transactions; in memory two names can make one key | one Active key after a rotation, the one shown; the shown key exists |
| sessions, login, OAuth (`control/auth.go`, `oauth.go`, `platform/session`, `access.go`) | revoked tokens and OAuth states, in the memory of each process | login, check, logout, OAuth start and callback | the check reads clock and map apart; cleaning; replicas; restarts; repeated callbacks | a logout is remembered; a state serves one callback |
| snapshot (`platform/snapshot`) | none; reads all tables | assemble the console's snapshot | 17 queries in no transaction | what a page follows through it is there |
| migrations, seeds (`platform/db`, `cmd/migrate-db`, `cmd/seed-db`) | `schema_migrations` | migrate, seed | overlapping commands, a crash in between | each file once, in order; success means all |
| credentials (`store.go`) | credentials of users | rotate | twice | see section 7 |
| request logs, retention (`platform/retention`) | request logs, audit | query, purge | purge against writers | only old rows go |
| operations (`ops/*`) | todos (above), health, audit lists | list | | |
| access control, config, httpjson, csvexport, commands, consoles | none of their own | | | |

How they interact: a proxied request takes its candidates from the route registry
and the selection, asks limiter and breaker, calls the upstreams over HTTP, reports
to the breaker and hands a row to the recorder, all in one handler. LLM and Skill
handlers read their registry, call an adapter, hand the outcome to the recorder and
then answer. Administrators write the registries from other handlers at any time.
Billing is driven by upstream systems that post usage events and repeat them when
they are unsure, and by the recorder's charges, which are rows of the same table.
migrate-db must have completed before the services of the Postgres store start;
seed-db may run beside them. control-api issues the tokens that every other
service checks by itself, with the secret they share and a memory of its own.

## 2. Modules

| module | models | state and actions |
|---|---|---|
| `RouteLimiter` | `ratelimit.go` | `bucket` is the map, `now` each process's clock. `ReadClock` is the part of `Allow` before the mutex, `Admit` and `Deny` the critical section, `AllowUngoverned` its early returns. `admitted` is history |
| `RedisLimiter` | `ratelimit_redis.go`, `ratelimit_config.go` | extends `RouteLimiter`, which is each replica's fallback. `ask` is where a caller stands with Redis, `counter` its keys with their expiry, `orphans` the increments nobody waits for. `ReadRedisClock`, `Execute` (the script), `Grant`/`Refuse`, `Fail`, `FallBack`; Redis resends, loses commands and its data. A replica reads windows by its own clock, Redis times keys by `RedisClock`; `PassTime` keeps them as near as `MaxAhead` and `MaxBehind` say. `granted`, `untold` are history |
| `CircuitBreaker` | `circuitbreaker.go` | `states` is the map, with openUntil as the time left until then. `Admit`/`Reject` are `Allow`, `RecordSuccess`/`RecordFailure` are `Record`. `streak` is history |
| `GatewayProxy` | `proxy.go` | `proc` holds each handler's locals; one action per stretch between two calls out. It instantiates `CircuitBreaker` and takes its steps jointly |
| `UpstreamLists` | `appendGatewayProxyUpstreams`, the rotation | lists of upstreams as operators: joined without repetition, rotated; `GatewayProxy` and `UpstreamSelection` use it |
| `UpstreamSelection` | `orderGatewayProxyUpstreams` and below | `cursor`; one action per way a list is ordered. `first` is history |
| `RouteRegistry` | `routes.go` 137-630, the route repositories | `routes` is what `ListRoutes` returns, in order; create, update, publish; preflight and health check as operators. `live` is history |
| `RouteResolution` | `resolveProxyRoute`, `mergeGatewayRouteRoutingOptions` | composes the two: finds the route of a request, merges its policy and hands it to the selection; properties |
| `InvocationRecorder` | what LLM and Skill handlers share | `proc`; `Record`, `RecordFails`, `Answer`, `Disconnect`; `approved` is history |
| `SkillInvocation` | `skill.go`, `skill_schema.go`, their registry | `skills`, `schemas`; create, update, publish, find, validate, call |
| `ModelInvocation` | `llm.go`, its registry | `models`; create, update, publish, find, try, stream |
| `Invocations` | both in one process | composes the two; properties |
| `UsageLedger` | what the usage endpoint promises | abstract: `ledger`, `reply` |
| `BudgetAlerts` | `ReconcileBudgetAlertFromUsage` and the plans, which both stores call | operators only |
| `UsageBilling` | billing on the memory store | one action per `Store` operation; implements `UsageLedger` |
| `UsageBillingPg` | billing on Postgres | one action per statement or commit; an event updates the alerts of its project one row at a time, and Postgres breaks deadlocks; implements `UsageLedger`. `basis` is history |
| `UsageBillingStores` | the billing service as `cmd/billing-service` starts it | composes the two stores: the choice is made once; implements `UsageLedger` |
| `SchemaMigration` | `db/migrate.go`, `cmd/migrate-db` | `recorded` is `schema_migrations`; `pc` and `file` say where each command is; one action per statement outside a transaction or per transaction. `effects` is history |
| `AccessSubjects` | applications, keys, users and todos in `store.go`, `control/repository.go`, `ops/repository.go`; the demo seeds | one action per `Store` operation or transaction, but two for a rotation on Postgres, which reads before it locks. `retired`, `crossed` are history |
| `ControlDatabase` | the database of control-api and ops-api; `snapshot.go` | composes the two above: commands first, then the services, seed-db and the snapshot, one query at a time |
| `Sessions` | `session.go`, `auth.go`, `oauth.go`, `authenticate` of `access.go` | `revoked` and `offered` are the maps of each process; a check is `Arrive` (parse reads the clock) and `LookUp` (it reads the map); `Restart` empties both maps. `told`, `issued`, `spent`, `madeFor` are history |
| `MC*` | instances for TLC | constants only |
| `*Proofs` | theorems | see section 6 |

What is abstracted. Messages, names and models are model values or members of small
sets; a cost is an integer, a credit or a charge, in the smallest unit that is
displayed. A skill schema is the set of inputs it accepts, because `validateSkillInput`
is a function of the schema and the input alone. Of the limiter the proxy sees both
verdicts at any time; `RouteLimiter` says which occur when. Of a rotating request the
proxy may start at any target; `UpstreamSelection` says which is next. A key's name is
what it was made from and the second of each rotation, because two rotations in one
second collide; in memory it is made of a slug, which may be that of a demo key or look
like a rotated one. Tokens and OAuth states are random, so each is a member of a set and
made once. Requests refused before they touch any state (wrong method, malformed body,
missing field) and updates of ids that do not exist change nothing and have no action.
Timestamps, latencies and wording are left out. Upstreams, adapters and clients are
nondeterministic: any answer, a failure, a cut, a disconnect. Postgres is modelled by
what the code relies on: unique indexes that make a second insert wait, row locks held
to the end, READ COMMITTED reads that see committed rows and one's own, statements that
may fail, and commits that may be done although their answer is an error.

## 3. Runs

| run | instance | asks | distinct states |
|---|---|---|---|
| `limiter` | 2 replicas, 2 handlers that may share the local limiter of one; a clock for Redis and the first replica and one that may run a window ahead of it for the second; a route with a Redis counter and local limiters, an unlimited route; 6 calls in memory, 4 calls, resends and faults with Redis; 1 orphan, 1 restart; both backends; fair | type; `OvershootBounded` and `DenialJustified` of each local limiter; `SharedWindow`; `RefusalJustified`; `Decided` | 400 000 |
| `limiter_fixed` | 3 handlers, 1 route | the documented fixed window; **violated** | |
| `breaker` | 3 handlers, 2 circuits, threshold 3, cooldown 2; fair | type; `TripJustified`; `FailuresBounded`; `Reopens` | 13 000 |
| `proxy` | 2 handlers, one route that a retrying and a streamed request share, a canary, explicit upstreams, fallbacks, both recorders | type; `OneAnswer`; `LogTruthful`; `AnswerLogged`; `NoReplay` | 661 000 |
| `proxy_live` | 2 handlers, a stream and a request that cannot be sent, disconnects, threshold 1; fair | `BreakerKept` (refinement), `Served` | 238 000 |
| `routing` | 7 kinds of requests, 6 forms under 3 overlapping patterns, 2 routes, 3 operations, 8 turns; both stores | type; `EachUpstreamOnce`; `ShareExact`; `RoutedAsPublished`; `ReadyRouteServes` | 336 000 |
| `invocations` | skills with two forms and a namesake, schemas that differ in case, model routes with and without a usable fallback, with one model or none; both stores | type; `AnsweredAsCharged`; `RunAsLogged`; `RunsAsApproved` | 597 000 |
| `skill_draft` | the same | that inputs are judged by published schemas; **violated** | |
| `billing` | 2 clients, 2 submitted events and a charge of the gateway, a project under two spellings, a demo alert of it and the alert of a plan, a charge and a credit; both stores; fair | type; `AuditPerRow`; `AlertsFollow`; `LedgerKept` (refinement); `Settles` | 353 000 |
| `billing_pg_lost` | 2 clients, 2 events | that an event refreshes the alert to the accumulated cost; **violated** | |
| `control_db` | 2 commands, 3 files, 2 breaks; 3 names, two of them demo ones, a third of which memory makes a demo key, one of which it makes a key that looks rotated; 1 user, 2 rotating callers, 3 calls, 2 seedings, 2 seconds; both stores; commands fair | type; `SchemaExact`; `RotatedOut`; `KeyListed`; `SnapshotClosed`; `MigrationsFinish` | 968 000 |
| `sessions` | 2 processes, 2 requests, 2 tokens that live 2 ticks, a state that lives 1, 3 ticks, 1 restart | type; `RevokedRefused`; `StateOnce` | 1 980 000 |

What the properties say is written above each of them. In short:

- The memory limiter does not keep a fixed window once two handlers read the clock
  on both sides of a window's edge. With N handlers a window admits at most
  `N * limit + N - 1` calls, and nobody is denied early.
- The Redis limiter keeps one window over all replicas only as far as their clocks
  agree with Redis's: with clocks up to `Apart` windows apart it lets up to `Apart` more
  limits through, as a counter that a fast replica makes early expires inside the
  window of a slow one. Beyond that, it is exceeded by up to one limit for each restart
  of Redis and, once the window is over, one call for each handler whose increment
  arrives after the counter has expired. A call whose increment was executed but whose answer
  was lost is counted in Redis and again by its replica's own limiter; that never
  loosens the shared window, and each local window keeps its own bound. A refusal
  means that the limit of this window was used. Redis may be silent for ever: the
  deadline of each call decides it.
- The breaker opens for `FailureThreshold` failures in a row and for nothing else,
  its count is bounded although stragglers keep counting, and a circuit that is asked
  for again and again is not open for ever, even if some calls let through never end.
- A proxied request gets exactly one answer, however its stream breaks or its log
  fails; its log row tells what happened; an upstream that has answered is not
  asked again. It is answered in the end and reported to the breaker, unless its client
  stays connected and stops reading, or the log transaction never ends: nothing in the
  code bounds these two.
- A proxied request goes through a route only as it was published, although edits
  overwrite the published policy in place. A route that preflight can call ready
  serves every request that brings no weights and no canary rule of its own,
  whatever strategy it asks for: what is validated on saving and merged on use fits.
- An LLM or Skill client that was told 200, or has seen the first event of a
  stream, is charged once; one that was refused is not charged.
- A usage event is booked once, with the payload of the caller that was told 201, on
  either store, while the gateway charges rows of its own. An alert shows, in memory,
  the cost of its project up to its last event, and on Postgres the cost of a set of
  booked rows: those its last event found booked and its own, while rows of
  concurrent events may be missing. Since a missing row may be a credit, the alert may
  show less than was spent or more. Its status is that of the cost it shows until
  somebody resolves it. Every transaction ends, although two events of a project with
  a demo alert and a plan's may deadlock.
- Files of the migrations are committed once each and in order, however commands
  overlap or die; a command that loses a file to another one fails, but the other
  goes on, so that only a break leaves the database half migrated.
- After a rotation, one key of the application is Active and it is the key shown,
  although rotations read without a lock: their updates of all keys of the project
  make the last one win. Activation is the way back: it makes retired keys Active
  again, also that of another application which shows a key of that name. The key an
  application shows is a row of its project and not a rotated one, but for the
  exceptions above `KeyListed`: a rotation between the two transactions of seed-db, and
  in memory applications that share a name or what their keys are made of. An
  application created as "customer" has the key of the demo application
  customer-service-agent, and a rotation of either retires the other's.
- The snapshot pairs tables of different moments, and what a page follows through it
  is there all the same, because of the order in which its queries are issued; its
  mutant reads keys before applications.
- A process that answered a logout refuses the token until it restarts. One kind of
  request slips through: it read the clock before the token expired and the map
  after another logout had cleaned it. An OAuth state serves one callback, at the
  process that made it and within its time, also when the callback fails.

### Bounds

- Handlers: two in `limiter`, both of which may be in the first replica's local limiter,
  so that one reads the clock before and enters after the other. `limiter_fixed` has the
  three that the worst overshoot of a memory limiter needs: one that enters early, one
  that holds an old reading and one that fills the window again. The bounds of both
  limiters are proved for any number. Two handlers in the proxy, since each property is
  about one request and what one other does to the breaker, the routes or the log in
  between. `Invocations` has one: its handlers write nothing another one reads, so a
  second would only repeat the first; the theorems are about any number.
- `MaxNow` and `MaxDraws` cap the clock and the cursor (constants of their modules, in
  the guards of `Tick` and `TakeTurn`). The clocks of the limiters cross a window's edge
  (`MaxTime` says how far, by backend), one a window ahead of the other; 8 turns are two
  cycles or more of every plan; 3 ticks of the sessions are one more than a token lives.
  The clock of the breaker needs no bound: it is kept as time left.
- `MaxCalls`, `MaxOrphans` and `MaxRestarts` of `RedisLimiter`: calls, resends and faults
  count together. Six calls of the memory limiter with limit 1 reach its bound of 3 with
  two handlers, the clock read on both sides of an edge; four with Redis use the limit,
  exceed it and come again; one orphan is executed late or lost; one restart forgets a
  window. The theorems hold without fixing them.
- The proxy's threshold of 2, or 1 in `proxy_live`, and cooldown of 1 (3 and 30 s in the
  code) make the circuit open within the two requests the instance can interleave.
  `breaker` has the threshold of the code.
- `MaxEdits` caps the operations on routes. Three are enough to withdraw, change and
  publish a route, or to create and publish one beside it and edit either;
  the properties are proved without the bound.
- `WarnAt` 3 and 1 with costs 2 and -1: one event warns one alert and not the other, two
  charges warn both, and a credit takes the warning back.
- `MaxFailures` 2 lets both commands break, or one twice. `MaxApps`, `MaxKeys`,
  `MaxUsers`, `MaxSeconds`, `MaxSeedings` and `MaxCalls` of `ControlDatabase`: three
  calls reach two overlapping rotations and an activation after them; two seconds
  give colliding and distinct suffixes; two seedings run before and after a
  rotation. No command overlaps the services: it would find every file recorded.
- `MaxRestarts` 1 of `Sessions` empties one process while the other remembers.
- `Chunks` 2: a stream has a first, a middle and a last event, and a delta in a row.

Symmetry is used in safety runs only, for handlers, processes and tokens.

### Fairness

`RedisLimiter!FairRedisSpec`: a handler inside `Allow` goes on (the context's deadline
ends its wait); Redis is never obliged. `CircuitBreaker!FairSpec`: time passes, and
nothing else is obliged; that a circuit is asked for again and again is the premise of
`Reopens`. `GatewayProxy!FairSpec`: time passes, and a handler goes on where the code
bounds its wait: attempts end by the client timeout and a limiter's verdict by its own.
Three waits have no bound while the client stays connected (`Held`): writing a stream or
an answer to a client that stops reading, as `http.ListenAndServe` sets no write timeout
and the timeout of the upstream call covers reads alone; and the log transaction, which
runs under the request's context. They are never obliged to end, so `Served` and
`BreakerKept` except a handler that is held for ever, and only such a one; a client that
goes ends each of them. `UsageBillingStores!FairStoresSpec`: strong fairness of a
transaction's next statement, since Postgres queues those that wait for a row, and weak
fairness of `BreakDeadlock`: who has waited for `deadlock_timeout` in a ring of
transactions is aborted. Beginning a transaction and failing otherwise are never
obliged. `ControlDatabase!FairControlSpec`: a migrate-db command that is running goes
on, as it ends after 30 s by itself; nobody is obliged to run one, and the services are
not fair. Routing, invocations and sessions are safety only.

Deadlock is checked in every run but `limiter`, `control_db` and `sessions`, whose
instances stop when their bounded calls, failures or ticks are used up.

## 4. Findings

Each is a violation run that checks what a document promises against the code.

- `limiter_fixed`: `ratelimit.go:56` truncates the clock outside the mutex and
  resets a bucket whose window differs in either direction. The documents promise
  fixed-window limiting (`docs/architecture/backend-services.md:313`).
- `billing_pg_lost`: `billing/repository.go:335` sums without a lock; two concurrent
  events miss each other's row, and the alert stays below the accumulated cost
  until the project's next event.
- `skill_draft`: `FindSkillSchema` ignores the status of a schema
  (`gateway/repository.go:968`, `store.go:858`) and `UpdateSkillSchema` overwrites
  the published fields, so a saved draft is in force before it is published.

## 5. Instances and mutants

Each property of a passing run is paired with a mutant of the code's model that it
refutes (`PROJECT.json`, "mutants"), such as a counter that expires in half its
window, an off-by-one in the retry limit, a failure that is not reported to the
breaker, an event streamed before it is recorded, an insert that does not wait for
its namesake, a rotation that retires only the key it read, or a state that is
checked without being consumed. Refinements are checked as properties: `LedgerKept`
is `UsageLedger`'s specification with `ledger` mapped to the usage rows, `BreakerKept`
the breaker's fair one inside the proxy.

## 6. What is proved

For every value of the constants under their named assumptions (limits are natural
numbers, windows, thresholds, cooldowns, lifetimes and budget shares positive, handlers
finite and at least one, the clocks of replicas and Redis no further apart than `Apart`
windows, costs integers, demo alerts as the seeds write them, alerts finite in number,
`NoRow` no cost, `NoOne` no client, bounds natural, demo applications finite in number and
their keys distinct, the stores memory and Postgres, callers of one Redis counter agree on
its limit, and the registries a process starts from hold distinct ids and known statuses):

| theorem | says |
|---|---|
| `LimiterProofs!TypeCorrect`, `Overshoot`, `NoEarlyDenial` | the invariants of a memory limiter |
| `LimiterProofs!ExactAlone` | with one handler the documented fixed window does hold |
| `LimiterProofs!FallbackImplements`, `FallbackOvershoot`, `FallbackDenial` | the replicas' limiters under `RedisSpec` implement `RouteLimiter`, and so keep its invariants |
| `LimiterProofs!RedisTypeCorrect`, `RefusedInTurn`, `WindowShared` | the other invariants of `limiter` |
| `CircuitBreakerProofs!TypeCorrect`, `Justified`, `Bounded` | the three invariants of `breaker` |
| `GatewayProxyProofs!TypeCorrect`, `AnsweredOnce`, `LogAgrees`, `NeverReplayed`, `LogsTruthfully` | the five invariants of `proxy` |
| `GatewayProxyProofs!BreakerUsed` | the handlers use the breaker as `CircuitBreaker!Spec` says, the safety part of `BreakerKept` |
| `InvocationsProofs!TypeCorrect`, `ApprovedRuns`, `ChargedAsAnswered`, `LoggedRuns` | the four invariants of `invocations` |
| `RouteResolutionProofs!RegistryInOrder`, `PublishedOnly`, `ReadyServes` | the registry's inductive invariant; `RoutedAsPublished` and `ReadyRouteServes` of `routing` |
| `RouteResolutionProofs!TypeCorrect`, `TriesEachOnce`, `SharesExact` | the other three invariants of `routing`, for lists and weights of any size |
| `UsageBillingProofs!AuditedOnce`, `Implements` | on Postgres each booked event is audited once, and `Spec => Ledger!Spec` |
| `UsageBillingProofs!StoresAudited`, `StoresImplement` | the same for the service on either store |
| `UsageBillingProofs!StoresTypeCorrect`, `StoresAlertsFollow` | the other two invariants of `billing`: alerts show the cost of their project |
| `ControlProofs!SessionTypeCorrect`, `LogoutsRemembered`, `StatesServeOnce` | the three invariants of `sessions` |
| `ControlProofs!ControlTypeCorrect`, `SchemaAlwaysExact`, `RotationsRetire`, `ShownKeysListed`, `SnapshotsClosed` | the five invariants of `control_db` |

*Memory limiter.* `OvershootBounded` is not inductive: it does not say how many old
readings are left to throw a bucket away. `IInv` adds that starts read have been
reached (`StartsReached`) and that a bucket counts no more than it let through
(`BucketCounted`). For the running window it adds that each refill but the last has
used up one stale reading, so that admissions are at most
`limit * (N - 1 - stale) + count` (`CurrentBounded`). For a past window there are
two cases: its bucket is as the clock left it, or it has been thrown away, and then
only those who still hold its start can add to it (`PastBounded`). `Tick` carries
the first form into the second; `Admit` has one lemma for each. `NoEarlyDenial`
needs only `IInv`'s bucket part and that `admitted` never decreases.

*Redis limiter.* Every step of `RedisNext` is a step of `RouteLimiter` or leaves its
variables alone, so its theorems carry over. A refusal is justified because a
counter never runs ahead of the increments within the limit (`Accounted`), whatever
became of their callers: granted, about to be, or untold. `SharedWindow` needs that a
window no clock has reached is untouched (`Untouched`), and it counts the counters a
window has had: while some replica can still read it, all but the running one have let a
limit through and lived for a window, which the drift allows `Apart` times
(`Generation`). Once it is over for every clock only handlers that still hold it can be
granted (`WindowOK`, `WindowsBounded`). The clocks carry one form into the other.

*Breaker.* `FailuresBounded` becomes inductive as `OpenCounted`: what an open circuit
has counted and the calls still running on it stay below the bound together, for
while it is open nobody is let in, and a closed one counts less than the threshold.
The proof follows the running handlers through `Cardinality` lemmas.

*Proxy.* `HandlersSound` says of each handler what holds at its stage (`Stage`): who has
been tried and in what outcome (`Trying`, `Ended`, `Streaming`), what it has concluded
(`Concluded`), and what the client and the log were told (`Told`, which depends on
whether a lost log is an error). The attempts are in one order: the k-th is of the
candidate `Turn` gives, the first one for all its retries and then each other once
(`InTurn`), and each but the last was in vain. `NoReplay` and `LogTruthful` count and
compare along this order; candidates are distinct because lists of upstreams are
joined without repetition (`Appended`). One lemma for each step shows that the handler
it moves stays sound; the others are untouched. The breaker's half is a step of
`CircuitBreaker!Next` whenever a handler asks or reports (`BreakerMoves`).

*Invocations.* A handler's stages are that it has told nobody anything (`Untold`), that
the run has ended with the status of its targets (`Ends`; a model route that names no
model ends at once), that it has charged (`Charged`) and that its client was told
(`Told`). Registries keep distinct ids and vouch for what is in force: an entry that is
no draft was published in this form (`Vouched`). What is found is the published entry of
the smallest index, so it was vouched for when it was read, and `approved` only grows;
so edits made afterwards cannot make `RunsAsApproved` false. Assumed: the forms that are
saved bring neither id nor status.

*Routes.* `RegistryInv` says that ids are distinct, that saved policies were accepted
and that an active route has the form it was published with. It is inductive
wherever a write puts its row, which is what Postgres's order by time of change
comes to; two lemmas say what `RemoveAt` and `InsertAt` do to a list. `PublishedOnly`
follows, since a resolution takes an active route and reads it at once.
`ReadyServes` needs the accepted policies: merged with a plain request they are
unchanged, part by part, and preflight blocks candidates that are no addresses.
Assumed: the lists a process starts from have distinct ids and accepted policies,
those of Postgres distinct patterns too (`001_core.sql:45`), and a header that is left
empty is not the name of one that is sent.

*Order and shares.* `UpstreamListsProofs` says of joined and rotated lists what they
hold, in which order, and that nothing is named twice; the positions of first mentions
are ranked by counting those before them (`Ranked`). Each way of ordering yields the
candidates and the canary once (`IsOrder`), and joining the fallbacks keeps them in
front. `ShareExact` speaks of whole cycles only, so it is strengthened to every turn
(`Shared`): while one plan alone draws, the cursor is at n cycles and r turns, and each
candidate was first n times its weight plus its part of the first r turns (`Within`).
That the turn goes to the candidate in whose part r lies needs the sums of weights
before each candidate (`Seen`), which are a fold over a list: `SeenSteps` unfolds it to
a recursive function on sets of positions, shown to exist, and two of them to agree, by
their least counterexample. Assumed: `Requests` holds what clients' requests come to.

*Billing.* On Postgres, `IInv` says that an uncommitted insert is the only one of its
id and its id is not booked, that a row found booked stays as found, and that a client
with a transaction has no answer. Then a commit is a `Book`, its lost answer or an
abort a `Fail`, a repeated submission a `Repeat`, a charge of the gateway a `Charge`,
and every other step leaves the ledger alone (`LedgerStep`). The memory store does
each of these in one step; a store is chosen once, so the service is one or the other.

*Alerts.* A cost is a sum of integers over a set of events, a fold of the library defined
by a recursive function on sets. `SumStep`, `SumInt` and `SumSame` state what is needed of
it; where they need induction over a finite set, the proof takes a counterexample with the
fewest elements (`LeastBad`) and leaves out one. Costs may be negative, so nothing is
monotone: on Postgres (`PgAlerts`) a transaction's total is the cost of the booked rows it
saw and its own (`TotalsSeen`, `Counts`), rows that are booked stay as they are, and a
locked alert is held by a transaction of its project, so the update it publishes is the
cost of rows that are booked when it commits. In memory (`MemAlerts`) an alert that an
event has reconciled shows the cost of all booked events but those the gateway has charged
since.

*Sessions.* `SessionInv` says that a process that answered a logout has the token in
its map with its expiry, or the token has expired (`Remembered`; cleaning removes
expired ones only), that a check under way found its token alive (`ChecksBegun`), that
a state is offered only by the process that made it and until it is consumed
(`OffersKept`), and that a consumed state belongs to one callback or one token
(`SpentOnce`). `StateOnce` counts; `SpentOnce` is its form without counting.

*Control database.* `SchemaInv` adds to `SchemaExact` that a running command has come
to its file past recorded ones (`InOrder`), so that the file it commits is the next
one. For `RotatedOut`, `AccessInv` says that an Active key of a retired name is the
only such and the one shown (`ActiveShown`), that on Postgres the demo keys
belong to the demo applications (`SeedsKept`), so that writing them back touches no other
retired name, and that a
rotation under way has read an application that is there (`RotationsRead`). One lemma
(`Kept`) covers all steps that make no key of a retired name Active; the writes of a
rotation have their own.

*Shown keys.* `KeyListed` fails to be inductive in two places. A rotation on Postgres
retires the key it has read before it locked anything: `OldListed` says that this key is
a row of the rotating application, or the bare key of a demo application that has no
row, and as names are unique (`Unique`) it retires no other application's row
(`OthersUntouched`). An application that is created must bring a name no row has:
`FirstKeys` says that on Postgres a row no rotation made is a demo key or the first of
an application that exists. Between the two transactions of seed-db the demo keys are
rows, retired by a rotation in between only (`SeedsListed`). In memory names and keys are
shared, demo keys included; a rotation there is one step (`InMemory`), and what a key was
made from tells which applications it can touch.

*Snapshot.* Rows only come (`KeysGrow` and its like for the other tables), so what a
query has copied stays true of the tables until the next query: the users copied are
still there (`UsersCopied`), so are the applications and the keys they showed
(`AppsCopied`), and the keys are copied after the applications that show them
(`KeysCopied`). That a page finds nobody pending for an application or a user it shows
as active needs that keys in provisioning and pending todos have somebody who waits for
them (`PendingOwned`), and that activation does not go back. The order of the queries is
part of the argument.

Model-checked only: liveness (`Decided`, `Reopens`, `Served`, `Settles`,
`MigrationsFinish`) and the fairness half of `BreakerKept`, which are out of the prover's
reach. Every invariant that a passing run checks is a theorem, and so is the
refinement `LedgerKept`.

## 7. Not modelled

- Credentials: a rotation updates one row and inserts another in one transaction;
  nothing else refers to a credential, and no document says what the status of its
  predecessor must be.
- Request logs and retention: rows are appended, and one transaction deletes by age and
  writes its audit row; no other step reads or writes by age. What a row says is
  modelled with the handler that writes it.
- Operations: health and audit are lists that are read. The todos are in
  `AccessSubjects`.
- Access control: the role check is a pure function of a static table of methods and
  paths; the session check in front of it is in `Sessions`.
- Which user may log in with which role, and what an OAuth provider answers: lookups
  whose outcome is a choice in `Sessions`.
- Snapshot queries of tables that no page relates to another one; invoices, queries and
  exports, which are derived lists; seeds of other tables, which are upserts of
  rows nothing here depends on.
- Ids are made from the clock; every row of the models has an id of its own.
- Configuration, HTTP serving, encoding, commands' wiring, contracts, scripts and the
  consoles keep no state of their own.
