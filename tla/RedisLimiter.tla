---------------------------- MODULE RedisLimiter ----------------------------
(***************************************************************************)
(* The route limiter of a gateway that several replicas run                *)
(* (internal/gateway/ratelimit_redis.go, ratelimit_config.go): with the    *)
(* redis backend the replicas count a window together, in one Redis        *)
(* counter per limiter key and window start, and every replica keeps a     *)
(* RouteLimiter of its own as the fallback for calls Redis does not answer *)
(* within their deadline.  With the memory backend only the latter exists. *)
(*                                                                         *)
(* Keys of RouteLimiter are the keys of the replicas' own limiters here;   *)
(* CounterOf says which of them share a Redis counter.  The increments a   *)
(* caller no longer waits for stay on the wire, and may still be executed. *)
(*                                                                         *)
(* A replica finds the window by its own clock, Redis times the counter by *)
(* its own.  They may differ: a replica's clock is ahead of Redis's by at  *)
(* most MaxAhead and behind it by at most MaxBehind.                       *)
(***************************************************************************)
EXTENDS RouteLimiter

CONSTANTS
    Counters,     \* redisRateLimitKey without its window: pattern and limit
    CounterOf,    \* the counter of a replica's limiter key
    LocalKeys,    \* the keys of the replica a caller runs in
    RedisClock,   \* the clock of Redis
    MaxAhead,     \* how far a replica's clock may be ahead of it, in ticks
    MaxBehind,    \* how far it may be behind
    Apart,        \* how many windows of a counter that comes to, rounded up
    MaxCalls,     \* bound by backend: calls, resends and faults so far
    MaxTime,      \* bound by backend: clocks stop at this tick, or before
    MaxOrphans,   \* bound: increments on the wire nobody waits for
    MaxRestarts   \* bound: restarts of Redis that lose its counters

ASSUME CountersAssumption ==
    /\ CounterOf \in [Keys -> Counters]
    /\ \A k, l \in Keys : CounterOf[k] = CounterOf[l] =>
                              Limit[k] = Limit[l] /\ Window[k] = Window[l]
    /\ LocalKeys \in [Callers -> SUBSET Keys]
ASSUME DriftAssumption ==
    /\ RedisClock \in Clocks
    /\ MaxAhead \in Nat /\ MaxBehind \in Nat
    /\ Apart \in [Counters -> Nat]
    /\ \A k \in Keys : MaxAhead + MaxBehind <= Apart[CounterOf[k]] * Window[k]
ASSUME FaultsAssumption ==
    /\ MaxCalls \in [{"memory", "redis"} -> Nat]
    /\ MaxTime \in [{"memory", "redis"} -> Nat]
    /\ MaxOrphans \in Nat /\ MaxRestarts \in Nat

VARIABLES
    backend,   \* the limiter NewRouteLimiter made: "memory" or "redis"
    calls,     \* how many calls, resends and faults there were
    ask,       \* where each caller stands with Redis, before any fallback
    counter,   \* Redis: the counter per key and window, with its expiry
    orphans,   \* increments on the wire whose caller has given up
    granted,   \* history: calls Redis let through, per counter and window
    untold,    \* history: increments executed whose caller never learnt of it
    restarts   \* how often Redis lost its counters

redisVars == <<backend, calls, ask, counter, orphans, granted, untold, restarts>>
allVars == <<vars, redisVars>>

-----------------------------------------------------------------------------
NoAsk == [phase |-> "idle"]
AskPhases == {"sent", "answered", "refused", "failed"}
Ask == [phase : AskPhases, key : Keys, start : Ticks, count : Nat]

Absent == [count |-> 0, until |-> 0]   \* no such key in Redis

\* What Redis's clock shows, and the bound on what the others do.
Time == now[RedisClock]
Synchronised ==
    \A r \in Clocks : now[r] <= Time + MaxAhead /\ Time <= now[r] + MaxBehind

\* Redis drops a key when its time to live is over.
Live(e) == Time < e.until

\* redisRateLimitWindowMillis: the time to live given with the first increment.
Lifetime_Halved(k) == Window[k] \div 2
Lifetime(k) == Window[k]

\* The script: INCR, and PEXPIRE when that made the key.
Incremented(e, k) ==
    IF Live(e) THEN [e EXCEPT !.count = @ + 1]
               ELSE [count |-> 1, until |-> Time + Lifetime(k)]

\* count > config.Limit
OverLimit_OffByOne(n, k) == n >= Limit[k]
OverLimit(n, k) == n > Limit[k]

CounterTypeOK ==
    /\ backend \in {"memory", "redis"}
    /\ calls \in Nat
    /\ ask \in [Callers -> {NoAsk} \cup Ask]
    /\ counter \in [Counters -> [Ticks -> [count : Nat, until : Nat]]]
    /\ orphans \in [Counters -> [Ticks -> Nat]]
    /\ granted \in [Counters -> [Ticks -> Nat]]
    /\ untold \in [Counters -> [Ticks -> Nat]]
    /\ restarts \in 0 .. MaxRestarts

\* The types, those of the replicas' own limiters included; a caller is never
\* in both limiters, and only governed keys reach Redis.
RedisTypeOK ==
    /\ TypeOK
    /\ CounterTypeOK
    /\ \A c \in Callers : ask[c] # NoAsk =>
          /\ call[c] = NoCall
          /\ backend = "redis"
          /\ ask[c].key \in Governed
          /\ ask[c].start <= CurrentWindow(ask[c].key)

RedisInit ==
    /\ Init
    /\ backend \in {"memory", "redis"}
    /\ calls = 0
    /\ ask = [c \in Callers |-> NoAsk]
    /\ counter = [n \in Counters |-> [w \in Ticks |-> Absent]]
    /\ orphans = [n \in Counters |-> [w \in Ticks |-> 0]]
    /\ granted = [n \in Counters |-> [w \in Ticks |-> 0]]
    /\ untold = [n \in Counters |-> [w \in Ticks |-> 0]]
    /\ restarts = 0

-----------------------------------------------------------------------------
\* Allow with a limit value that does not parse: allowed, Redis is not asked.
PassUngoverned(c) ==
    /\ calls < MaxCalls[backend]
    /\ calls' = calls + 1
    /\ ask[c] = NoAsk
    /\ \E k \in LocalKeys[c] : AllowUngoverned(c, k)
    /\ UNCHANGED <<backend, ask, counter, orphans, granted, untold, restarts>>

\* The memory backend goes straight to the replica's own limiter.
MemoryAllow(c) ==
    /\ backend = "memory"
    /\ calls < MaxCalls[backend]
    /\ calls' = calls + 1
    /\ \E k \in LocalKeys[c] : ReadClock(c, k)
    /\ UNCHANGED <<backend, ask, counter, orphans, granted, untold, restarts>>

\* The clock is read and truncated once, and the script sent for that window;
\* the handler may be held up in between for as long as it likes.
ReadRedisClock(c) ==
    /\ backend = "redis"
    /\ calls < MaxCalls[backend]
    /\ calls' = calls + 1
    /\ call[c] = NoCall
    /\ ask[c] = NoAsk
    /\ \E k \in LocalKeys[c] \cap Governed :
          ask' = [ask EXCEPT ![c] = [phase |-> "sent", key |-> k,
                                     start |-> WindowStart(k, Clock(k)), count |-> 0]]
    /\ UNCHANGED <<vars, backend, counter, orphans, granted, untold, restarts>>

\* Redis executes the script and its answer reaches the caller's connection.
Execute(c) ==
    LET n == CounterOf[ask[c].key]
        w == ask[c].start
        e == Incremented(counter[n][w], ask[c].key)
    IN  /\ ask[c].phase = "sent"
        /\ counter' = [counter EXCEPT ![n][w] = e]
        /\ ask' = [ask EXCEPT ![c].phase = "answered", ![c].count = e.count]
        /\ UNCHANGED <<vars, backend, calls, orphans, granted, untold, restarts>>

Grant(c) ==
    /\ ask[c].phase = "answered"
    /\ ~OverLimit(ask[c].count, ask[c].key)
    /\ ask' = [ask EXCEPT ![c] = NoAsk]
    /\ granted' = [granted EXCEPT ![CounterOf[ask[c].key]][ask[c].start] = @ + 1]
    /\ UNCHANGED <<vars, backend, calls, counter, orphans, untold, restarts>>

Refuse(c) ==
    /\ ask[c].phase = "answered"
    /\ OverLimit(ask[c].count, ask[c].key)
    /\ ask' = [ask EXCEPT ![c].phase = "refused"]
    /\ UNCHANGED <<vars, backend, calls, counter, orphans, granted, untold, restarts>>

\* The deadline passes, the client goes away or the connection breaks: an
\* increment not executed yet is lost or stays on the wire, one that was
\* executed is never heard of.  The call turns to the replica's own limiter.
Fail_KeepsWaiting(c) ==
    /\ ask[c].phase = "sent"
    /\ UNCHANGED allVars
Fail(c) ==
    LET n == CounterOf[ask[c].key]
        w == ask[c].start
    IN  /\ \/ /\ ask[c].phase = "sent"
              /\ UNCHANGED <<orphans, untold, calls>>
           \/ /\ ask[c].phase = "sent"
              /\ calls < MaxCalls[backend]
              /\ calls' = calls + 1
              /\ orphans[n][w] < MaxOrphans
              /\ orphans' = [orphans EXCEPT ![n][w] = @ + 1]
              /\ UNCHANGED untold
           \/ /\ ask[c].phase = "answered"
              /\ untold' = IF OverLimit(ask[c].count, ask[c].key) THEN untold
                           ELSE [untold EXCEPT ![n][w] = @ + 1]
              /\ UNCHANGED <<orphans, calls>>
        /\ ask' = [ask EXCEPT ![c].phase = "failed"]
        /\ UNCHANGED <<vars, backend, counter, granted, restarts>>

\* The client library sends the script once more on another connection.
Resend(c) ==
    LET n == CounterOf[ask[c].key]
        w == ask[c].start
    IN  /\ ask[c].phase = "sent"
        /\ calls < MaxCalls[backend]
        /\ calls' = calls + 1
        /\ orphans[n][w] < MaxOrphans
        /\ orphans' = [orphans EXCEPT ![n][w] = @ + 1]
        /\ UNCHANGED <<vars, backend, ask, counter, granted, untold, restarts>>

\* limiter.fallback.Allow reads the clock again, for the local bucket.
FallBack(c) ==
    /\ ask[c].phase = "failed"
    /\ ReadClock(c, ask[c].key)
    /\ ask' = [ask EXCEPT ![c] = NoAsk]
    /\ UNCHANGED <<backend, calls, counter, orphans, granted, untold, restarts>>

\* The rest of the local limiter's Allow, and the handler's own end.
AdmitLocally(c) == Admit(c) /\ UNCHANGED redisVars
DenyLocally(c) == Deny(c) /\ UNCHANGED redisVars
FinishLocal(c) == Finish(c) /\ UNCHANGED redisVars
FinishRedis(c) ==
    /\ ask[c].phase = "refused"
    /\ ask' = [ask EXCEPT ![c] = NoAsk]
    /\ UNCHANGED <<vars, backend, calls, counter, orphans, granted, untold, restarts>>

\* An increment nobody waits for is executed after all, or never.
ExecuteOrphan(k, w) ==
    LET n == CounterOf[k]
        e == Incremented(counter[n][w], k)
    IN  /\ orphans[n][w] > 0
        /\ orphans' = [orphans EXCEPT ![n][w] = @ - 1]
        /\ counter' = [counter EXCEPT ![n][w] = e]
        /\ untold' = IF OverLimit(e.count, k) THEN untold
                     ELSE [untold EXCEPT ![n][w] = @ + 1]
        /\ UNCHANGED <<vars, backend, calls, ask, granted, restarts>>

DropOrphan(n, w) ==
    /\ orphans[n][w] > 0
    /\ orphans' = [orphans EXCEPT ![n][w] = @ - 1]
    /\ UNCHANGED <<vars, backend, calls, ask, counter, granted, untold, restarts>>

\* Redis comes back empty.
RestartRedis ==
    /\ backend = "redis"
    /\ restarts < MaxRestarts
    /\ calls < MaxCalls[backend]
    /\ calls' = calls + 1
    /\ restarts' = restarts + 1
    /\ counter' = [n \in Counters |-> [w \in Ticks |-> Absent]]
    /\ UNCHANGED <<vars, backend, ask, orphans, granted, untold>>

\* A clock advances.
PassTime(r) ==
    /\ now[r] < MaxTime[backend]
    /\ Tick(r)
    /\ Synchronised'
    /\ UNCHANGED redisVars

\* What a handler does by itself, whatever Redis does.
Proceed(c) ==
    \/ Grant(c) \/ Refuse(c) \/ Fail(c) \/ FallBack(c)
    \/ AdmitLocally(c) \/ DenyLocally(c)

RedisNext ==
    \/ \E c \in Callers :
          \/ PassUngoverned(c) \/ MemoryAllow(c) \/ ReadRedisClock(c)
          \/ Proceed(c) \/ Execute(c) \/ Resend(c)
          \/ FinishLocal(c) \/ FinishRedis(c)
    \/ \E k \in Keys, w \in Ticks : ExecuteOrphan(k, w)
    \/ \E n \in Counters, w \in Ticks : DropOrphan(n, w)
    \/ RestartRedis
    \/ \E r \in Clocks : PassTime(r)

RedisSpec == RedisInit /\ [][RedisNext]_allVars

FairRedisSpec == RedisSpec /\ \A c \in Callers : WF_allVars(Proceed(c))

-----------------------------------------------------------------------------
\* Callers inside Redis's Allow with window w of counter n; those of them whose
\* increment is within the limit and who have not been told yet.
HoldsWindow(c, n, w) == ask[c] # NoAsk /\ CounterOf[ask[c].key] = n /\ ask[c].start = w
Pending(n, w) ==
    {c \in Callers : /\ HoldsWindow(c, n, w)
                     /\ ask[c].phase = "answered"
                     /\ ~OverLimit(ask[c].count, ask[c].key)}

\* By Redis's clock: a replica may read window w already; none can any more.
Begun(w) == w <= Time + MaxAhead
Over(k, w) == w + Window[k] + MaxBehind <= Time

\* The replicas share one window: while it can be read, Redis lets no more
\* calls through than the limit, plus one limit for each window the clocks may
\* be apart (a counter that a replica makes early expires before the window of
\* a later one ends), plus one for each time Redis lost its counters.  Once the
\* window is over, one more call for each handler that still held it (its late
\* increment may find the counter expired).  Retries, orphaned increments and
\* calls that turned to a local limiter never loosen it.
SharedWindow ==
    \A k \in Governed, w \in Ticks :
        LET n == CounterOf[k]
        IN  granted[n][w] <= Limit[k] * (1 + Apart[n] + restarts)
                                + (IF Over(k, w) THEN Cardinality(Callers) ELSE 0)

\* The shared limiter never refuses too early: when Redis refuses a call, the
\* limit of this very window has been used by calls that were granted, are
\* about to be, or had their increment executed without learning of it.
\* Refused calls, though counted, do not keep the window shut.
RefusalJustified ==
    \A c \in Callers : ask[c].phase = "refused" =>
        LET n == CounterOf[ask[c].key]
            w == ask[c].start
        IN  granted[n][w] + untold[n][w] + Cardinality(Pending(n, w))
                >= Limit[ask[c].key]

\* Redis may be down or silent for ever: every call is decided all the same.
Decided ==
    \A c \in Callers :
        ask[c].phase = "sent" ~>
            \/ ask[c].phase = "refused"
            \/ ask[c] = NoAsk /\ call[c].phase # "clocked"
-----------------------------------------------------------------------------
(* The strengthenings of RefusalJustified and SharedWindow that are        *)
(* inductive.                                                              *)

\* Increments within the limit, whatever became of their callers.
Used(n, w) == granted[n][w] + untold[n][w] + Cardinality(Pending(n, w))

\* Callers Redis answered with more than the limit.
Turned(c) ==
    \/ ask[c].phase = "refused"
    \/ ask[c].phase = "answered" /\ OverLimit(ask[c].count, ask[c].key)

\* The counter never runs ahead of what was used of the limit, and whoever
\* was answered with more than the limit found it used up.
Accounted ==
    /\ \A k \in Governed, w \in Ticks :
          \/ counter[CounterOf[k]][w].count <= Used(CounterOf[k], w)
          \/ Used(CounterOf[k], w) >= Limit[k]
    /\ \A c \in Callers :
          Turned(c) => Used(CounterOf[ask[c].key], ask[c].start) >= Limit[ask[c].key]

\* Callers that may yet be granted a call of this window.
Hopeful(n, w) ==
    {c \in Callers : HoldsWindow(c, n, w) /\ ask[c].phase = "sent"} \cup Pending(n, w)

\* A window that has not begun is untouched.
Untouched ==
    \A k \in Governed, w \in Ticks :
        LET n == CounterOf[k]
        IN  /\ ~Begun(w) => orphans[n][w] = 0 /\ counter[n][w] = Absent
            /\ counter[n][w] # Absent => counter[n][w].count > 0

\* While the window can be read, g of its counters have expired: every one
\* but the running one let a limit through, and lived for a window.
Generation(k, w, g) ==
    LET n == CounterOf[k]
        p == granted[n][w] + Cardinality(Pending(n, w))
        r == Limit[k] * restarts + Limit[k] * g
    IN  /\ p <= r + counter[n][w].count /\ p <= r + Limit[k]
        /\ g > 0 => w + g * Window[k] <= Time + MaxAhead
        /\ counter[n][w] # Absent =>
              w + g * Window[k] + Window[k] <= counter[n][w].until + MaxAhead

\* Once it is over, only callers that still hold it can be granted.
WindowOK(k, w) ==
    LET n == CounterOf[k]
    IN  IF ~Over(k, w)
        THEN \E g \in 0 .. Apart[n] : Generation(k, w, g)
        ELSE granted[n][w] + Cardinality(Hopeful(n, w))
                <= Limit[k] * restarts + Limit[k] * (1 + Apart[n]) + Cardinality(Callers)
WindowsBounded == \A k \in Governed, w \in Ticks : WindowOK(k, w)

RedisInv ==
    /\ RedisTypeOK
    /\ Synchronised
    /\ Accounted
    /\ Untouched
    /\ WindowsBounded
=============================================================================
