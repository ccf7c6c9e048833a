---------------------------- MODULE RouteLimiter ----------------------------
(***************************************************************************)
(* The in-process fixed-window limiter of the gateway proxy                *)
(* (internal/gateway/ratelimit.go).                                        *)
(*                                                                         *)
(* A bucket is kept per key "<route pattern>|<limit value>".  A call first *)
(* reads the clock and truncates it to the start of its window, WITHOUT    *)
(* the limiter's mutex; only then does it lock the mutex, find the bucket  *)
(* and decide.  Calls can therefore enter the critical section in another  *)
(* order than the one in which they read the clock, and a bucket is reset  *)
(* whenever its window differs from the caller's, in either direction.     *)
(*                                                                         *)
(* Callers are the handlers that can be inside Allow at the same time. One *)
(* process has one clock; keys of several processes, each with a limiter   *)
(* and a clock of its own, can be looked at together (RedisLimiter).       *)
(***************************************************************************)
EXTENDS Integers, FiniteSets

CONSTANTS
    Keys,     \* limiter keys: a route pattern together with its limit value
    Callers,  \* concurrent request handlers
    Limit,    \* requests per window of a key; 0 when the value names no limit
    Window,   \* length of a key's window, in ticks
    Clocks,   \* wall clocks, one for each process
    ClockOf,  \* the clock of the process that keeps a key's bucket
    MaxNow    \* bound: clocks stop at this tick

ASSUME LimitAssumption == Limit \in [Keys -> Nat]
ASSUME WindowAssumption == Window \in [Keys -> Nat \ {0}]
ASSUME ClocksAssumption == ClockOf \in [Keys -> Clocks]
ASSUME CallersAssumption == IsFiniteSet(Callers) /\ Callers # {}
ASSUME MaxNowAssumption == MaxNow \in Nat

VARIABLES
    now,      \* what each wall clock shows
    bucket,   \* gatewayRouteLimiter.buckets
    call,     \* where each caller stands in Allow, with its local windowStart
    admitted  \* history: calls admitted per key and per window they read

vars == <<now, bucket, call, admitted>>

-----------------------------------------------------------------------------
Ticks == 0 .. MaxNow
NoWindow == -1           \* the zero time of a bucket that does not exist yet
NoCall == [phase |-> "idle"]

Phases == {"clocked", "admitted", "denied"}
Call == [phase : Phases, key : Keys, start : Ticks \cup {NoWindow}]
Bucket == [start : Ticks \cup {NoWindow}, count : Nat]

\* The keys whose limit value parses to a positive number per window.
Governed == {k \in Keys : Limit[k] > 0}

\* time.Truncate: the start of the window of key k that contains tick t.
WindowStart_RoundsUp(k, t) == t - (t % Window[k]) + Window[k]
WindowStart(k, t) == t - (t % Window[k])

\* A bucket as a call of window w finds it: a bucket of another window is
\* replaced by an empty one.
Fresh(w) == [start |-> w, count |-> 0]
Current_KeepsOld(b, w) == IF b.start = NoWindow THEN Fresh(w) ELSE b
Current_Forgets(b, w) == Fresh(w)
Current(b, w) == IF b.start = w THEN b ELSE Fresh(w)

\* time.Now, in the process of key k.
Clock(k) == now[ClockOf[k]]

Exhausted(b, limit) == b.count >= limit

TypeOK ==
    /\ now \in [Clocks -> Ticks]
    /\ bucket \in [Keys -> Bucket]
    /\ call \in [Callers -> {NoCall} \cup Call]
    /\ admitted \in [Keys -> [Ticks -> Nat]]

Init ==
    /\ now = [r \in Clocks |-> 0]
    /\ bucket = [k \in Keys |-> [start |-> NoWindow, count |-> 0]]
    /\ call = [c \in Callers |-> NoCall]
    /\ admitted = [k \in Keys |-> [w \in Ticks |-> 0]]

-----------------------------------------------------------------------------
\* No pattern, or a limit value that does not parse: admitted, no bucket.
AllowUngoverned(c, k) ==
    /\ call[c].phase = "idle"
    /\ k \notin Governed
    /\ call' = [call EXCEPT ![c] =
                    [phase |-> "admitted", key |-> k, start |-> NoWindow]]
    /\ UNCHANGED <<now, bucket, admitted>>

\* The clock is read and truncated before the mutex is taken.
ReadClock(c, k) ==
    /\ call[c].phase = "idle"
    /\ k \in Governed
    /\ call' = [call EXCEPT ![c] =
                    [phase |-> "clocked", key |-> k, start |-> WindowStart(k, Clock(k))]]
    /\ UNCHANGED <<now, bucket, admitted>>

\* The critical section, when the caller's window has room.
Admit(c) ==
    /\ call[c].phase = "clocked"
    /\ LET k == call[c].key
           w == call[c].start
           b == Current(bucket[k], w)
       IN /\ ~Exhausted(b, Limit[k])
          /\ bucket' = [bucket EXCEPT ![k] = [start |-> b.start, count |-> b.count + 1]]
          /\ admitted' = [admitted EXCEPT ![k][w] = @ + 1]
    /\ call' = [call EXCEPT ![c].phase = "admitted"]
    /\ UNCHANGED now

\* The critical section, when it has not: the bucket is written back too.
Deny(c) ==
    /\ call[c].phase = "clocked"
    /\ LET k == call[c].key
           b == Current(bucket[k], call[c].start)
       IN /\ Exhausted(b, Limit[k])
          /\ bucket' = [bucket EXCEPT ![k] = b]
    /\ call' = [call EXCEPT ![c].phase = "denied"]
    /\ UNCHANGED <<now, admitted>>

\* The handler that asked goes on, and later serves another request.
Finish(c) ==
    /\ call[c].phase \in {"admitted", "denied"}
    /\ call' = [call EXCEPT ![c] = NoCall]
    /\ UNCHANGED <<now, bucket, admitted>>

Tick(r) ==
    /\ now[r] < MaxNow
    /\ now' = [now EXCEPT ![r] = @ + 1]
    /\ UNCHANGED <<bucket, call, admitted>>

Next ==
    \/ \E c \in Callers, k \in Keys : AllowUngoverned(c, k) \/ ReadClock(c, k)
    \/ \E c \in Callers : Admit(c) \/ Deny(c) \/ Finish(c)
    \/ \E r \in Clocks : Tick(r)

Spec == Init /\ [][Next]_vars

-----------------------------------------------------------------------------
\* The documented promise of a fixed window: no window of a published route
\* lets more calls through than its limit.  Two calls that enter the mutex in
\* another order than they read the clock across a window's edge break it.
FixedWindow ==
    \A k \in Governed, w \in Ticks : admitted[k][w] <= Limit[k]

\* What the code does guarantee.  With N handlers at work the bucket of a
\* window can be thrown away and refilled at most N - 1 times while the clock
\* is in that window (each time needs a handler that still holds an older
\* reading), and once the clock has left it at most N - 1 more handlers can
\* re-create it.  With one handler the bound is the limit itself.
OvershootBound(k) ==
    Limit[k] * Cardinality(Callers) + Cardinality(Callers) - 1

OvershootBounded ==
    \A k \in Governed, w \in Ticks : admitted[k][w] <= OvershootBound(k)

\* The other side: a call is turned away with 429 only when its own window,
\* on its own key, has really let `limit` calls through.  Discarding counts
\* may admit too many, but never denies too early, and traffic on one route
\* never uses up another route's window.
DenialJustified ==
    \A c \in Callers :
        call[c].phase = "denied" =>
            admitted[call[c].key][call[c].start] >= Limit[call[c].key]

-----------------------------------------------------------------------------
(* The strengthening of OvershootBounded that is inductive.                *)

CurrentWindow(k) == WindowStart(k, Clock(k))

\* Callers on key k that read the clock before window w, or in it, and have
\* not entered the critical section yet.
Stale(k, w) ==
    {c \in Callers : call[c].phase = "clocked" /\ call[c].key = k /\ call[c].start < w}
Holding(k, w) ==
    {c \in Callers : call[c].phase = "clocked" /\ call[c].key = k /\ call[c].start = w}

CountIn(k, w) == IF bucket[k].start = w THEN bucket[k].count ELSE 0

\* Nobody has read a window that has not begun.
StartsReached ==
    /\ \A c \in Callers :
          call[c].phase \in {"clocked", "denied"} =>
              /\ call[c].key \in Governed
              /\ call[c].start \in 0 .. CurrentWindow(call[c].key)
    /\ \A k \in Keys : bucket[k].start <= CurrentWindow(k)
    /\ \A k \in Keys, w \in Ticks : w > CurrentWindow(k) => admitted[k][w] = 0

\* A bucket never holds more than the limit, nor more than it let through.
BucketCounted ==
    \A k \in Governed :
        /\ bucket[k].count <= Limit[k]
        /\ bucket[k].start \in Ticks => bucket[k].count <= admitted[k][bucket[k].start]

\* The running window: every refill but the last used up one stale reading.
RunningOK(k, w) ==
    LET spent == Cardinality(Callers) - 1 - Cardinality(Stale(k, w))
    IN  \/ admitted[k][w] = 0
        \/ admitted[k][w] <= Limit[k] * spent + CountIn(k, w)

\* A past window: as it was when the clock left it, or its bucket was thrown
\* away since, and only the callers still holding it can add to it.
LeftOK(k, w) ==
    LET N == Cardinality(Callers)
        q == Cardinality(Holding(k, w))
    IN  \/ admitted[k][w] <= Limit[k] * (N - 1) + CountIn(k, w)
        \/ /\ q <= N - 1
           /\ admitted[k][w] <= Limit[k] * N + (N - 1 - q)

CurrentBounded == \A k \in Governed : RunningOK(k, CurrentWindow(k))
PastBounded ==
    \A k \in Governed, w \in Ticks : w < CurrentWindow(k) => LeftOK(k, w)

IInv ==
    /\ TypeOK
    /\ StartsReached
    /\ BucketCounted
    /\ CurrentBounded
    /\ PastBounded
=============================================================================
