---------------------------- MODULE GatewayProxy ----------------------------
(***************************************************************************)
(* POST /api/gateway/proxy (internal/gateway/proxy.go): handlers that take *)
(* a request through route resolution, the rate limiter, the circuit       *)
(* breaker, the attempts on its candidate upstreams, the report to the     *)
(* breaker, the request log and the answer, while other handlers do the    *)
(* same, routes are published and edited, and clients disconnect.          *)
(*                                                                         *)
(* The breaker is the module CircuitBreaker, its steps taken jointly with  *)
(* the handler's.  Of the limiter only the verdict is seen here; which     *)
(* verdicts are possible is the subject of RouteLimiter.  How a candidate  *)
(* list is ordered is the subject of UpstreamSelection: here a strategy     *)
(* that rotates starts at any of the upstreams.                            *)
(***************************************************************************)
EXTENDS UpstreamLists, SequencesExt

CONSTANTS
    Handlers,          \* request goroutines
    Routes,            \* route patterns
    Upstreams,         \* upstream addresses
    Targets,           \* the candidates a published route declares
    Limited,           \* routes whose limit value names a limit
    Requests,          \* the requests clients send, see Request
    FailureThreshold,  \* of the circuit breaker
    Cooldown,          \* of the circuit breaker, in ticks
    Recorders          \* the recorders deployed: "postgres", "memory"

\* A request for a route.  `explicit` are the upstreams it names itself, if
\* any; `fallback` those it adds; `canary` the one that its canary rule, or
\* else the route's, puts in front, if the rule matches; it `rotates` when its
\* strategy, or else the route's, is round_robin or weighted; a request whose
\* path cannot be joined to an upstream URL is not well-formed.
Request ==
    [route : Routes, explicit : Seq(Upstreams), fallback : Seq(Upstreams),
     canary : Seq(Upstreams), rotates : BOOLEAN,
     retries : 0 .. 3, stream : BOOLEAN, wellFormed : BOOLEAN]

ASSUME TargetsAssumption ==
    \A r \in Routes : Targets[r] \in Seq(Upstreams) /\ Targets[r] # <<>>
ASSUME RequestsAssumption == Requests \subseteq Request
ASSUME RecorderAssumption == Recorders \subseteq {"postgres", "memory"}
ASSUME BreakerAssumption == FailureThreshold \in Nat \ {0} /\ Cooldown \in Nat \ {0}

VARIABLES
    recorder, \* the ProxyRecorder, chosen when the process starts
    active,   \* routes whose status is Active
    proc,     \* each handler and its local variables
    states, call, streak   \* the circuit breaker

breaker == <<states, call, streak>>
vars == <<recorder, active, proc, breaker>>

Durable == recorder = "postgres"

CircuitKeys == Routes \X Upstreams
Breaker == INSTANCE CircuitBreaker WITH Keys <- CircuitKeys, Callers <- Handlers

-----------------------------------------------------------------------------
(* The candidates of a request.                                            *)

Declared(q) ==
    IF q.explicit # <<>> THEN AppendUpstreams(q.explicit, <<>>) ELSE Targets[q.route]

Ordered(q) ==
    LET s == Declared(q)
    IN  CASE q.canary # <<>> -> {AppendUpstreams(q.canary, s)}
          [] q.canary = <<>> /\ q.rotates -> {Rotated(s, i) : i \in 1 .. Len(s)}
          [] OTHER -> {s}

Candidates(q) == {AppendUpstreams(s, q.fallback) : s \in Ordered(q)}

CircuitKey(p) == <<p.req.route, p.ups[1]>>

-----------------------------------------------------------------------------
(* Outcomes of one attempt, and what a request comes to.                   *)

UpstreamFailures == {"fault", "broken"}   \* 5xx or no answer in time; cut off mid-stream
OwnFailures == {"unbuilt", "cancelled"}   \* no URL; the client went away
Failures == UpstreamFailures \cup OwnFailures
Answers == {"ok", "refused"}                      \* below 400; 4xx
Outcomes == Failures \cup Answers

Statuses == {"RateLimited", "CircuitOpen", "Success", "Fallback", "Failed"}

\* The first candidate is tried retries + 1 times, the others once.
AttemptLimit_All(p) == p.req.retries + 1
AttemptLimit(p) == IF p.index = 1 THEN p.req.retries + 1 ELSE 1

Outcome(p) == Last(p.tried)[2]
Failed(p) == Outcome(p) \in Failures

LogStatus(p) ==
    CASE Failed(p)              -> "Failed"
      [] ~Failed(p) /\ p.index > 1 -> "Fallback"
      [] ~Failed(p) /\ p.index = 1 ->
             IF Outcome(p) = "refused" THEN "Failed" ELSE "Success"

-----------------------------------------------------------------------------
Idle == [pc |-> "idle", gone |-> FALSE]

\* What a handler has done so far: the attempts made, rows logged, response
\* headers written and the last answer.
Started(q, ups) ==
    [pc |-> "resolved", gone |-> FALSE, req |-> q, ups |-> ups,
     index |-> 1, attempt |-> 1, tried |-> <<>>, streamed |-> FALSE,
     status |-> "none", rows |-> 0, answers |-> <<>>]

Answered(p, code) == [p EXCEPT !.pc = "done", !.answers = Append(@, code)]

Init ==
    /\ recorder \in Recorders
    /\ active = {}
    /\ proc = [h \in Handlers |-> Idle]
    /\ Breaker!Init

\* A step of handler h that touches neither the breaker nor the routes.
Local(h, p) ==
    /\ proc' = [proc EXCEPT ![h] = p]
    /\ UNCHANGED <<recorder, active, breaker>>

-----------------------------------------------------------------------------
(* Routes, from the control side.                                          *)

PublishRoute(r) ==
    /\ r \notin active
    /\ active' = active \cup {r}
    /\ UNCHANGED <<recorder, proc, breaker>>

\* Any edit takes the route back to Draft until it is published again.
UpdateRoute(r) ==
    /\ r \in active
    /\ active' = active \ {r}
    /\ UNCHANGED <<recorder, proc, breaker>>

-----------------------------------------------------------------------------
(* A handler.                                                              *)

\* resolveProxyRoute, with upstreams of the request or of an Active route.
Resolve(h, q) ==
    /\ proc[h].pc = "idle"
    /\ q.explicit # <<>> \/ q.route \in active
    /\ \E ups \in Candidates(q) : Local(h, Started(q, ups))

\* No such route: 404, and nothing is logged.
NotFound(h, q) ==
    /\ proc[h].pc = "idle"
    /\ q.explicit = <<>> /\ q.route \notin active
    /\ Local(h, Answered(Started(q, Targets[q.route]), 404))

\* The limiter governs published routes only.
OverLimit(h) ==
    LET p == proc[h]
    IN  /\ p.pc = "resolved"
        /\ p.req.explicit = <<>> /\ p.req.route \in Limited
        /\ Local(h, [p EXCEPT !.pc = "logging", !.status = "RateLimited"])

WithinLimit(h) ==
    /\ proc[h].pc = "resolved"
    /\ Local(h, [proc[h] EXCEPT !.pc = "admitted"])

CircuitOpen(h) ==
    /\ proc[h].pc = "admitted"
    /\ Breaker!Reject(h, CircuitKey(proc[h]))
    /\ proc' = [proc EXCEPT ![h].pc = "logging", ![h].status = "CircuitOpen"]
    /\ UNCHANGED <<recorder, active>>

CircuitClosed(h) ==
    /\ proc[h].pc = "admitted"
    /\ Breaker!Admit(h, CircuitKey(proc[h]))
    /\ proc' = [proc EXCEPT ![h].pc = "calling"]
    /\ UNCHANGED <<recorder, active>>

\* After a failed attempt: again, the next candidate, or give up.
Retry_SkipsLast(p) ==
    IF p.attempt < AttemptLimit(p) THEN [p EXCEPT !.attempt = @ + 1]
    ELSE IF p.index + 1 < Len(p.ups)
         THEN [p EXCEPT !.index = @ + 1, !.attempt = 1]
         ELSE [p EXCEPT !.pc = "called"]
Retry_PastEnd(p) ==
    IF p.attempt < AttemptLimit(p) THEN [p EXCEPT !.attempt = @ + 1]
    ELSE IF p.index <= Len(p.ups)
         THEN [p EXCEPT !.index = @ + 1, !.attempt = 1]
         ELSE [p EXCEPT !.pc = "called"]
Retry(p) ==
    IF p.attempt < AttemptLimit(p) THEN [p EXCEPT !.attempt = @ + 1]
    ELSE IF p.index < Len(p.ups)
         THEN [p EXCEPT !.index = @ + 1, !.attempt = 1]
         ELSE [p EXCEPT !.pc = "called"]

Tried(p, outcome) == [p EXCEPT !.tried = Append(@, <<p.ups[p.index], outcome>>)]

\* What an attempt can come to: no URL, a cancelled context, or the upstream.
Possible(p) ==
    CASE ~p.req.wellFormed -> {"unbuilt"}
      [] p.req.wellFormed /\ p.gone -> {"cancelled"}
      [] OTHER -> {"fault"} \cup Answers

AttemptFails(h) ==
    /\ proc[h].pc = "calling"
    /\ \E o \in Possible(proc[h]) \cap Failures : Local(h, Retry(Tried(proc[h], o)))

AttemptAnswered(h) ==
    /\ proc[h].pc = "calling"
    /\ ~proc[h].req.stream
    /\ \E o \in Possible(proc[h]) \cap Answers :
           Local(h, [Tried(proc[h], o) EXCEPT !.pc = "called"])

\* The upstream's own status, which a streamed response carries.
PassedOn(outcome) == IF outcome = "refused" THEN 400 ELSE 200

\* An answer to be streamed: its header and status go out at once.
StreamStarts(h) ==
    /\ proc[h].pc = "calling"
    /\ proc[h].req.stream
    /\ \E o \in Possible(proc[h]) \cap Answers :
           Local(h, [Tried(proc[h], o) EXCEPT
                        !.pc = "streaming", !.answers = Append(@, PassedOn(o))])

\* The copy ends, at the upstream's end of file or at a failed read or write;
\* there is no other attempt after it.
Copied(p, outcome) ==
    [p EXCEPT !.pc = "called", !.streamed = TRUE, !.tried[Len(p.tried)][2] = outcome]

StreamEnds_WhileThere(h) ==
    LET p == proc[h]
    IN  /\ p.pc = "streaming" /\ ~p.gone
        /\ Local(h, Copied(p, Outcome(p))) \/ Local(h, Copied(p, "broken"))
StreamEnds(h) ==
    LET p == proc[h]
    IN  /\ p.pc = "streaming"
        /\ \/ ~p.gone /\ Local(h, Copied(p, Outcome(p)))
           \/ Local(h, Copied(p, IF p.gone THEN "cancelled" ELSE "broken"))

ReportTo_SuccessOnly(h, failed) ==
    IF failed THEN UNCHANGED breaker ELSE Breaker!RecordSuccess(h)
ReportTo(h, failed) ==
    IF failed THEN Breaker!RecordFailure(h) ELSE Breaker!RecordSuccess(h)

\* breaker.Record, with what the log row will say.
Report(h) ==
    LET p == proc[h]
    IN  /\ p.pc = "called"
        /\ ReportTo(h, Failed(p))
        /\ proc' = [proc EXCEPT ![h].pc = "logging", ![h].status = LogStatus(p)]
        /\ UNCHANGED <<recorder, active>>

\* recordProxyRequest: the row and its audit event are one transaction, run
\* under the request's context.
Log(h) ==
    /\ proc[h].pc = "logging"
    /\ ~(Durable /\ proc[h].gone)
    /\ Local(h, [proc[h] EXCEPT !.pc = "answering", !.rows = @ + 1])

\* It fails, or its commit's answer is lost.  A response that has started is
\* left as it is, any other request is answered 500.
NotLogged_StillAnswers(p) == [p EXCEPT !.pc = "answering"]
NotLogged(p) ==
    IF p.streamed THEN [p EXCEPT !.pc = "answering"] ELSE [p EXCEPT !.pc = "unlogged"]

LogFails(h) ==
    /\ Durable
    /\ proc[h].pc = "logging"
    /\ \E written \in {0, 1} :
           Local(h, [NotLogged(proc[h]) EXCEPT !.rows = @ + written])

\* The JSON answer; a rejected handler also leaves the breaker's books.
Code(p) ==
    IF p.pc = "unlogged" THEN 500
    ELSE CASE p.status = "RateLimited" -> 429
           [] p.status = "CircuitOpen" -> 503
           [] OTHER -> IF Failed(p) THEN 502 ELSE 200

Reply_AlsoStreamed(p) == Answered(p, Code(p))
Reply(p) == IF p.streamed THEN [p EXCEPT !.pc = "done"] ELSE Answered(p, Code(p))

Answer(h) ==
    /\ proc[h].pc \in {"answering", "unlogged"}
    /\ proc' = [proc EXCEPT ![h] = Reply(@)]
    /\ IF call[h].phase = "rejected" THEN Breaker!Return(h) ELSE UNCHANGED breaker
    /\ UNCHANGED <<recorder, active>>

\* The goroutine is free for the next request.
Finish(h) ==
    /\ proc[h].pc = "done"
    /\ Local(h, Idle)

\* The client closes its connection: the request's context is cancelled.
Disconnect(h) ==
    /\ proc[h].pc \notin {"idle", "done"}
    /\ ~proc[h].gone
    /\ Local(h, [proc[h] EXCEPT !.gone = TRUE])

Tick == Breaker!Tick /\ UNCHANGED <<recorder, active, proc>>

Step(h) ==
    \/ OverLimit(h) \/ WithinLimit(h) \/ CircuitOpen(h) \/ CircuitClosed(h)
    \/ AttemptFails(h) \/ AttemptAnswered(h) \/ StreamStarts(h) \/ StreamEnds(h)
    \/ Report(h) \/ Log(h) \/ LogFails(h) \/ Answer(h)

Next ==
    \/ \E h \in Handlers : Step(h) \/ Finish(h) \/ Disconnect(h)
    \/ \E h \in Handlers, q \in Requests : Resolve(h, q) \/ NotFound(h, q)
    \/ \E r \in Routes : PublishRoute(r) \/ UpdateRoute(r)
    \/ Tick

Spec == Init /\ [][Next]_vars

\* What a goroutine may wait for without end: a write to a client that stays
\* connected and stops reading (the server sets no write timeout, and that of
\* the upstream call covers reads alone), and the log transaction, which has no
\* deadline but the request's context.  A client that goes ends both waits.
Held(h) ==
    LET p == proc[h]
    IN  /\ ~p.gone
        /\ \/ p.pc = "streaming"
           \/ p.pc = "logging" /\ Durable
           \/ p.pc \in {"answering", "unlogged"} /\ ~p.streamed

Unheld(h) == ~Held(h) /\ Step(h)

\* Any other step of a goroutine comes: attempts end by the client timeout, a
\* verdict of the limiter by its own.  Nothing obliges a client to read, to
\* leave or to send a request, or the control side to touch a route.
FairSpec == Spec /\ WF_vars(Tick) /\ \A h \in Handlers : WF_vars(Unheld(h))

-----------------------------------------------------------------------------
TypeOK ==
    /\ recorder \in Recorders
    /\ active \subseteq Routes
    /\ Breaker!TypeOK
    /\ \A h \in Handlers :
          \/ proc[h].pc = "idle"
          \/ /\ proc[h].req \in Requests
             /\ proc[h].ups \in Seq(Upstreams) /\ proc[h].ups # <<>>
             /\ proc[h].index \in 1 .. Len(proc[h].ups)
             /\ proc[h].attempt \in 1 .. AttemptLimit(proc[h])
             /\ proc[h].tried \in Seq(Upstreams \X Outcomes)
             /\ proc[h].status \in Statuses \cup {"none"}

Working(h) == proc[h].pc # "idle"
Done(h) == proc[h].pc = "done"

\* Whatever way a request takes, its response is begun exactly once: no JSON
\* error is written after a stream has started, and no path ends without one.
OneAnswer ==
    \A h \in Handlers :
        /\ Working(h) => Len(proc[h].answers) <= 1
        /\ Done(h) => Len(proc[h].answers) = 1

\* How often upstream u failed this request.
FailedOn(p, u) ==
    Cardinality({i \in DOMAIN p.tried : p.tried[i][1] = u /\ p.tried[i][2] \in Failures})

\* Every candidate has had all the tries the request allows it, in vain.
Exhausted(p) ==
    \A i \in DOMAIN p.ups :
        FailedOn(p, p.ups[i]) = IF i = 1 THEN p.req.retries + 1 ELSE 1

\* A row of the request log tells what happened: a turned-away request
\* reached no upstream; Success is an answer of the first candidate below
\* 400; Fallback is an answer of another one, after the first failed every
\* try; Failed is a 4xx of the first, a stream cut off, or all tries in vain.
LogTruthful ==
    \A h \in Handlers :
        Done(h) /\ proc[h].rows > 0 =>
            LET p == proc[h]
            IN  CASE p.status \in {"RateLimited", "CircuitOpen"} -> p.tried = <<>>
                  [] p.status = "Success" -> Last(p.tried) = <<p.ups[1], "ok">>
                  [] p.status = "Fallback" ->
                         /\ Last(p.tried)[1] # p.ups[1]
                         /\ Last(p.tried)[2] \in Answers
                         /\ FailedOn(p, p.ups[1]) = p.req.retries + 1
                  [] p.status = "Failed" ->
                         \/ Last(p.tried) = <<p.ups[1], "refused">>
                         \/ p.streamed /\ Last(p.tried)[2] \in Failures
                         \/ Exhausted(p)

\* The answer and the log agree: with the memory recorder every request that
\* found a route has its row; with the database, a client that was told how
\* its request went has one, unless the answer was already streaming, and a
\* 500 is the one answer that says nothing of the upstream.
AnswerLogged ==
    \A h \in Handlers :
        Done(h) =>
            LET p == proc[h]
            IN  CASE p.answers = <<404>> -> p.rows = 0 /\ p.tried = <<>>
                  [] p.answers = <<500>> -> Durable /\ ~p.streamed
                  [] OTHER -> \/ p.rows = 1
                              \/ Durable /\ p.streamed

\* An upstream that answered is not asked again, nor another one after it,
\* and a request costs at most retries + (number of candidates) attempts.
NoReplay ==
    \A h \in Handlers :
        Working(h) =>
            LET p == proc[h]
            IN  /\ Len(p.tried) <= p.req.retries + Len(p.ups)
                /\ \A i \in DOMAIN p.tried :
                       p.tried[i][2] \notin OwnFailures \cup {"fault"} => i = Len(p.tried)

\* The handlers use the breaker as it expects: each call let through is
\* reported once, each turned away leaves, and each of them in the end unless
\* its handler is held for ever.  What is proved of the breaker therefore
\* holds in the gateway.
BreakerKept ==
    /\ Breaker!FairSpec
    /\ \A h \in Handlers :
           call[h].phase # "idle" ~> call[h].phase = "idle" \/ []Held(h)

\* Every request that found a route is answered, however its upstreams, the
\* other handlers and the log behave, unless its client stays without reading
\* or the database without answering; even then it ends once the client goes.
Served == \A h \in Handlers : proc[h].pc = "resolved" ~> Done(h) \/ []Held(h)
=============================================================================
