--------------------------- MODULE CircuitBreaker ---------------------------
(***************************************************************************)
(* The route-level circuit breaker of the gateway proxy                    *)
(* (internal/gateway/circuitbreaker.go).                                   *)
(*                                                                         *)
(* A handler asks Allow before it calls the upstreams of a key ("<route>   *)
(* -> <upstream>") and reports the outcome with Record when it is done.    *)
(* Both take the breaker's mutex, but nothing is held in between: reports  *)
(* of calls admitted long ago arrive while the circuit is closed, open or  *)
(* cooled down, in any order.                                              *)
(*                                                                         *)
(* OpenUntil is kept as the time left until it, which stays at 0 once it   *)
(* has passed, so the clock needs no bound; Unset is its zero value.  A    *)
(* key without an entry in the map behaves as the zero entry.              *)
(***************************************************************************)
EXTENDS Integers, FiniteSets

CONSTANTS
    Keys,              \* circuit keys: a route pattern and its first upstream
    Callers,           \* concurrent request handlers
    FailureThreshold,  \* consecutive failures that open a circuit (3)
    Cooldown           \* ticks an open circuit turns calls away (30 s)

ASSUME CallersAssumption == IsFiniteSet(Callers) /\ Callers # {}
ASSUME FailureThresholdAssumption == FailureThreshold \in Nat \ {0}
ASSUME CooldownAssumption == Cooldown \in Nat \ {0}

VARIABLES
    states,   \* memoryRouteCircuitBreaker.states
    call,     \* what each handler is doing
    streak    \* history: failures reported on a key since its last success,
              \* counted up to FailureThreshold

vars == <<states, call, streak>>

-----------------------------------------------------------------------------
Unset == -1
State == [failures : Nat, openUntil : {Unset} \cup 0 .. Cooldown]
Closed == [failures |-> 0, openUntil |-> Unset]

NoCall == [phase |-> "idle"]
Call == [phase : {"running", "rejected"}, key : Keys]

IsOpen(s) == s.openUntil # Unset

\* An open circuit whose cooldown is not over turns calls away.
Rejects_NoClock(s) == IsOpen(s)
Rejects(s) == IsOpen(s) /\ s.openUntil > 0

\* What Allow leaves behind when it lets a call through: a circuit that has
\* cooled down is closed again, one failure away from opening.
AfterAllow_Forgets(s) == IF IsOpen(s) THEN Closed ELSE s
AfterAllow_Keeps(s) == [s EXCEPT !.openUntil = Unset]
AfterAllow(s) ==
    IF IsOpen(s) THEN [failures |-> FailureThreshold - 1, openUntil |-> Unset] ELSE s

\* What Record leaves behind after a failure: at the threshold, and at every
\* failure past it, the cooldown starts anew.
AfterFailure(s) ==
    [failures  |-> s.failures + 1,
     openUntil |-> IF s.failures + 1 >= FailureThreshold THEN Cooldown ELSE s.openUntil]

Elapsed_Unclamped(s) == [s EXCEPT !.openUntil = @ - 1]
Elapsed(s) == [s EXCEPT !.openUntil = IF @ > 0 THEN @ - 1 ELSE @]

TypeOK ==
    /\ states \in [Keys -> State]
    /\ call \in [Callers -> {NoCall} \cup Call]
    /\ streak \in [Keys -> 0 .. FailureThreshold]

Init ==
    /\ states = [k \in Keys |-> Closed]
    /\ call = [c \in Callers |-> NoCall]
    /\ streak = [k \in Keys |-> 0]

-----------------------------------------------------------------------------
\* Allow, when the circuit is closed or has cooled down: every call that asks
\* from then on is let through, not one probe only.
Admit(c, k) ==
    /\ call[c].phase = "idle"
    /\ ~Rejects(states[k])
    /\ states' = [states EXCEPT ![k] = AfterAllow(@)]
    /\ call' = [call EXCEPT ![c] = [phase |-> "running", key |-> k]]
    /\ UNCHANGED streak

\* Allow, while it cools down.
Reject(c, k) ==
    /\ call[c].phase = "idle"
    /\ Rejects(states[k])
    /\ call' = [call EXCEPT ![c] = [phase |-> "rejected", key |-> k]]
    /\ UNCHANGED <<states, streak>>

\* Record(key, false): the entry is deleted, whatever it was.
RecordSuccess(c) ==
    /\ call[c].phase = "running"
    /\ states' = [states EXCEPT ![call[c].key] = Closed]
    /\ streak' = [streak EXCEPT ![call[c].key] = 0]
    /\ call' = [call EXCEPT ![c] = NoCall]

\* Record(key, true).
RecordFailure(c) ==
    /\ call[c].phase = "running"
    /\ states' = [states EXCEPT ![call[c].key] = AfterFailure(@)]
    /\ streak' = [streak EXCEPT ![call[c].key] =
                      IF @ < FailureThreshold THEN @ + 1 ELSE @]
    /\ call' = [call EXCEPT ![c] = NoCall]

Record(c) == RecordSuccess(c) \/ RecordFailure(c)

\* A rejected handler answers 503 and is free again.
Return(c) ==
    /\ call[c].phase = "rejected"
    /\ call' = [call EXCEPT ![c] = NoCall]
    /\ UNCHANGED <<states, streak>>

Tick ==
    /\ \E k \in Keys : states[k].openUntil > 0
    /\ states' = [k \in Keys |-> Elapsed(states[k])]
    /\ UNCHANGED <<call, streak>>

Next ==
    \/ \E c \in Callers, k \in Keys : Admit(c, k) \/ Reject(c, k)
    \/ \E c \in Callers : RecordSuccess(c) \/ RecordFailure(c) \/ Return(c)
    \/ Tick

Spec == Init /\ [][Next]_vars

\* Time passes.  A call that was let through need not end: its copy may wait
\* for ever for a client that has stopped reading.
Fairness == WF_vars(Tick)

FairSpec == Spec /\ Fairness

-----------------------------------------------------------------------------
\* A circuit opens for failures in a row and for nothing else, and forgets
\* none of them but by a success: open, the key's last FailureThreshold
\* reports were failures; closed, its count is the failures since the last
\* success, held one short of the threshold once it has cooled down, so that
\* a suspect route stays one failure away from opening again.  Reports that
\* arrive late, on a circuit opened or cooled down since, keep this.
TripJustified ==
    \A k \in Keys :
        IF IsOpen(states[k])
        THEN streak[k] = FailureThreshold
        ELSE states[k].failures = IF streak[k] < FailureThreshold
                                  THEN streak[k] ELSE FailureThreshold - 1

\* Handlers let in before the circuit opened go on reporting failures; each
\* adds one and starts the cooldown again.  They are at most N - 1, whatever
\* number of times the circuit cools down, so the count and the number of
\* times a cooldown is extended are bounded.
FailuresBounded ==
    \A k \in Keys :
        states[k].failures <= FailureThreshold + Cardinality(Callers) - 1

\* The strengthening that is inductive: what an open circuit has counted and
\* what those still running can add stay below the bound together.
Running(k) == {c \in Callers : call[c].phase = "running" /\ call[c].key = k}

OpenCounted ==
    \A k \in Keys :
        IF IsOpen(states[k])
        THEN states[k].failures + Cardinality(Running(k))
                 <= FailureThreshold + Cardinality(Callers) - 1
        ELSE states[k].failures < FailureThreshold

IInv == TypeOK /\ TripJustified /\ OpenCounted

-----------------------------------------------------------------------------
\* No circuit stays open for ever on a route that is still asked for: the
\* failures that extend its cooldown run out, whether or not every call let
\* through ever reports, the cooldown ends, and a call is let through (or a
\* late success closes it first).
Asks(k) == \E c \in Callers : Admit(c, k) \/ Reject(c, k)

Reopens ==
    \A k \in Keys :
        []<><<Asks(k)>>_vars => []<>(~IsOpen(states[k]))
=============================================================================
