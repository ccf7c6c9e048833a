------------------------- MODULE GatewayProxyProofs -------------------------
(***************************************************************************)
(* Proofs about the proxied request of GatewayProxy, for any number of     *)
(* handlers, routes, upstreams and requests and any retries a request may  *)
(* ask for: one answer to each, a truthful log row, no replay, and the     *)
(* breaker used as CircuitBreaker expects it.                              *)
(***************************************************************************)
EXTENDS GatewayProxy, UpstreamListsProofs, FiniteSetTheorems, SequenceTheorems, TLAPS

-----------------------------------------------------------------------------
(* What is true of a handler at each point of its way.                     *)

Phases == {"resolved", "admitted", "calling", "streaming", "called", "logging",
           "answering", "unlogged", "done"}
Codes == {200, 400, 404, 429, 500, 502, 503}
Turned == {"RateLimited", "CircuitOpen"}
Rows == {0, 1}
Marks == Statuses \cup {"none"}

\* The outcomes after which a handler tries on.
Vain == OwnFailures \cup {"fault"}

Handling ==
    [pc : Phases, gone : BOOLEAN, req : Requests, ups : Seq(Upstreams),
     index : Nat, attempt : Nat, tried : Seq(Upstreams \X Outcomes),
     streamed : BOOLEAN, status : Marks, rows : Rows,
     answers : Seq(Codes)]

Placed(p) ==
    /\ p.ups # <<>>
    /\ p.index \in 1 .. Len(p.ups)
    /\ p.attempt \in 1 .. AttemptLimit(p)

\* The candidate whose turn the k-th attempt is, with r retries.
Turn(r, k) == IF k <= r + 1 THEN 1 ELSE k - r

\* Every attempt went to the candidate whose turn it was, and all but the
\* last were in vain.
InTurn(p) ==
    \A k \in 1 .. Len(p.tried) :
        /\ p.tried[k][1] = p.ups[Turn(p.req.retries, k)]
        /\ k # Len(p.tried) => p.tried[k][2] \in Vain

Untold(p) == p.status = "none" /\ p.rows = 0 /\ IsInjective(p.ups)

\* A stream's header is all that is sent before the answer.
Begun(p) ==
    IF p.streamed THEN p.answers = <<200>> \/ p.answers = <<400>> ELSE p.answers = <<>>

Fresh(p) ==
    /\ Untold(p) /\ ~p.streamed /\ Begun(p)
    /\ p.index = 1 /\ p.attempt = 1 /\ p.tried = <<>>

\* In the middle of the attempts.
Trying(p) ==
    /\ Untold(p) /\ ~p.streamed /\ Begun(p)
    /\ \A k \in 1 .. Len(p.tried) : p.tried[k][2] \in Vain
    /\ p.index = Turn(p.req.retries, Len(p.tried) + 1)
    /\ p.index = 1 => p.attempt = Len(p.tried) + 1

\* The attempts are over: with an answer, possibly cut off, or all in vain.
Ended(p) ==
    /\ Len(p.tried) # 0
    /\ p.index = Turn(p.req.retries, Len(p.tried))
    /\ \/ p.streamed
       \/ Outcome(p) \in Answers
       \/ /\ Outcome(p) \in Vain
          /\ p.index = Len(p.ups)
          /\ Len(p.tried) = p.req.retries + p.index

Streaming(p) ==
    /\ Untold(p) /\ ~p.streamed /\ p.answers \in {<<200>>, <<400>>}
    /\ Ended(p) /\ Outcome(p) \in Answers

\* What the log row says, or would say.
Concluded(p) ==
    /\ IsInjective(p.ups)
    /\ \/ p.status \in Turned /\ p.tried = <<>> /\ ~p.streamed
       \/ p.status \notin Turned /\ Ended(p) /\ p.status = LogStatus(p)

\* The response of a request that found a route, and what it says of the row.
Told(durable, p) ==
    IF p.streamed
    THEN /\ p.answers = <<200>> \/ p.answers = <<400>>
         /\ p.rows = 1 \/ durable
    ELSE \/ p.answers = <<500>> /\ durable
         \/ p.answers \in {<<200>>, <<429>>, <<502>>, <<503>>} /\ p.rows = 1

Unrouted(p) == p.answers = <<404>> /\ p.rows = 0 /\ p.tried = <<>> /\ ~p.streamed

Stage(durable, p) ==
    \/ p.pc \in {"resolved", "admitted"} /\ Fresh(p)
    \/ p.pc = "calling" /\ Trying(p)
    \/ p.pc = "streaming" /\ Streaming(p)
    \/ p.pc = "called" /\ Untold(p) /\ Begun(p) /\ Ended(p)
    \/ p.pc = "logging" /\ p.rows = 0 /\ Begun(p) /\ Concluded(p)
    \/ /\ p.pc = "answering" /\ Begun(p) /\ Concluded(p)
       /\ p.rows = 1 \/ (durable /\ p.streamed)
    \/ p.pc = "unlogged" /\ ~p.streamed /\ durable /\ Begun(p) /\ Concluded(p)
    \/ p.pc = "done" /\ (Unrouted(p) \/ (Told(durable, p) /\ Concluded(p)))

Sound(durable, p) ==
    \/ p = Idle
    \/ p \in Handling /\ Placed(p) /\ InTurn(p) /\ Stage(durable, p)

HandlersSound ==
    /\ recorder \in Recorders
    /\ active \subseteq Routes
    /\ proc \in [Handlers -> {Idle} \cup Handling]
    /\ \A h \in Handlers : Sound(Durable, proc[h])

-----------------------------------------------------------------------------
(* The start of a request.                                                 *)

LEMMA RequestFields ==
    ASSUME NEW q \in Requests
    PROVE  /\ q.route \in Routes /\ q.explicit \in Seq(Upstreams)
           /\ q.fallback \in Seq(Upstreams) /\ q.retries \in Nat
           /\ q.canary \in Seq(Upstreams)
           /\ q.stream \in BOOLEAN /\ q.wellFormed \in BOOLEAN
           /\ Targets[q.route] \in Seq(Upstreams) /\ Targets[q.route] # <<>>
  <1>1. q \in Request
    BY RequestsAssumption
  <1>2. /\ q.route \in Routes /\ q.explicit \in Seq(Upstreams)
        /\ q.fallback \in Seq(Upstreams) /\ q.retries \in Nat
        /\ q.canary \in Seq(Upstreams)
        /\ q.stream \in BOOLEAN /\ q.wellFormed \in BOOLEAN
    BY <1>1 DEF Request
  <1> QED
    BY <1>2, TargetsAssumption

\* A request never tries an upstream as two candidates.
LEMMA CandidateLists ==
    ASSUME NEW q \in Requests, NEW ups \in Candidates(q)
    PROVE  ups \in Seq(Upstreams) /\ ups # <<>> /\ IsInjective(ups)
  <1>1. PICK s \in Ordered(q) : ups = AppendUpstreams(s, q.fallback)
    BY DEF Candidates
  <1>2. Declared(q) \in Seq(Upstreams) /\ Declared(q) # <<>>
    <2>1. CASE q.explicit # <<>>
      <3>1. q.explicit \in Seq(Upstreams) /\ <<>> \in Seq(Upstreams)
        BY RequestFields, EmptySeq
      <3> QED
        BY <2>1, <3>1, Appended DEF Declared
    <2>2. CASE q.explicit = <<>>
      BY <2>2, RequestFields DEF Declared
    <2> QED
      BY <2>1, <2>2
  <1>3. s \in Seq(Upstreams) /\ s # <<>>
    <2>1. CASE q.canary # <<>>
      <3>1. s = AppendUpstreams(q.canary, Declared(q))
        BY <1>1, <2>1 DEF Ordered
      <3> QED
        BY <1>2, <2>1, <3>1, RequestFields, Appended
    <2>2. CASE q.canary = <<>> /\ q.rotates
      <3>1. PICK i \in 1 .. Len(Declared(q)) : s = Rotated(Declared(q), i)
        BY <1>1, <2>2 DEF Ordered
      <3> QED
        BY <1>2, <3>1, TurnedList
    <2>3. CASE q.canary = <<>> /\ ~q.rotates
      <3>1. s = Declared(q)
        BY <1>1, <2>3 DEF Ordered
      <3> QED
        BY <1>2, <3>1
    <2> QED
      BY <2>1, <2>2, <2>3
  <1> QED
    BY <1>1, <1>3, RequestFields, Appended

LEMMA StartedIsHandling ==
    ASSUME NEW q \in Requests, NEW ups \in Seq(Upstreams), ups # <<>>
    PROVE  /\ Started(q, ups) \in Handling
           /\ Placed(Started(q, ups)) /\ InTurn(Started(q, ups))
  <1> DEFINE p == Started(q, ups)
  <1>1. p \in Handling
    BY EmptySeq DEF Started, Handling, Phases, Marks, Rows
  <1>2. Len(ups) \in Nat \ {0}
    BY EmptySeq
  <1>3. Placed(p)
    BY <1>2, RequestFields DEF Placed, Started, AttemptLimit
  <1>4. InTurn(p)
    BY DEF InTurn, Started
  <1> QED
    BY <1>1, <1>3, <1>4

LEMMA ResolveSound ==
    ASSUME NEW q \in Requests, NEW ups \in Candidates(q), NEW durable
    PROVE  Sound(durable, Started(q, ups)) /\ Started(q, ups) \in Handling
  <1>1. Stage(durable, Started(q, ups))
    BY CandidateLists DEF Stage, Fresh, Untold, Begun, Started
  <1> QED
    BY <1>1, CandidateLists, StartedIsHandling DEF Sound

LEMMA NotFoundSound ==
    ASSUME NEW q \in Requests, NEW durable
    PROVE  LET p == Answered(Started(q, Targets[q.route]), 404)
           IN  Sound(durable, p) /\ p \in Handling
  <1> DEFINE s == Started(q, Targets[q.route])
             p == Answered(s, 404)
  <1>1. s \in Handling /\ Placed(s) /\ InTurn(s)
    BY RequestFields, StartedIsHandling
  <1>2. p = [s EXCEPT !.pc = "done", !.answers = <<404>>]
    BY DEF Answered, Started
  <1>3. <<404>> \in Seq(Codes)
    BY DEF Codes
  <1>7. s.rows = 0 /\ s.tried = <<>> /\ ~s.streamed
    BY DEF Started
  <1> HIDE DEF p, s
  <1>4. p \in Handling
    <2>1. "done" \in Phases
      BY DEF Phases
    <2>2. \A pc \in Phases, answers \in Seq(Codes) :
             [s EXCEPT !.pc = pc, !.answers = answers] \in Handling
      BY <1>1, Zenon DEF Handling
    <2> QED
      BY <1>2, <1>3, <2>1, <2>2
  <1>5. Placed(p) /\ InTurn(p)
    BY <1>1, <1>2 DEF Handling, Placed, InTurn, AttemptLimit
  <1>6. Stage(durable, p)
    BY <1>1, <1>2, <1>7 DEF Handling, Stage, Unrouted
  <1> QED
    BY <1>4, <1>5, <1>6 DEF Sound, p, s

-----------------------------------------------------------------------------
(* The steps of a handler.                                                 *)

LEMMA HandlingFields ==
    ASSUME NEW p \in Handling
    PROVE  /\ p.pc \in Phases /\ p.gone \in BOOLEAN /\ p.req \in Requests
           /\ p.ups \in Seq(Upstreams) /\ p.index \in Nat /\ p.attempt \in Nat
           /\ p.tried \in Seq(Upstreams \X Outcomes) /\ p.streamed \in BOOLEAN
           /\ p.status \in Marks /\ p.rows \in Rows
           /\ p.answers \in Seq(Codes) /\ p.req.retries \in Nat
           /\ p # Idle
  <1>1. p # Idle
    <2>1. "idle" \notin Phases
      BY DEF Phases
    <2> QED
      BY <2>1 DEF Handling, Idle
  <1> QED
    BY <1>1, RequestFields DEF Handling

\* What is said of a handler by its attempts alone.
LEMMA Alike ==
    ASSUME NEW p, NEW r,
           r.req = p.req, r.ups = p.ups, r.index = p.index, r.attempt = p.attempt,
           r.tried = p.tried, r.streamed = p.streamed
    PROVE  /\ Placed(r) <=> Placed(p)
           /\ InTurn(r) <=> InTurn(p)
           /\ Ended(r) <=> Ended(p)
           /\ Outcome(r) = Outcome(p)
           /\ LogStatus(r) = LogStatus(p)
  <1>1. Outcome(r) = Outcome(p)
    BY DEF Outcome
  <1>2. LogStatus(r) = LogStatus(p)
    BY <1>1, Zenon DEF LogStatus, Failed
  <1>3. Ended(r) <=> Ended(p)
    BY <1>1, Zenon DEF Ended
  <1>4. Placed(r) <=> Placed(p)
    BY Zenon DEF Placed, AttemptLimit
  <1>5. InTurn(r) <=> InTurn(p)
    BY Zenon DEF InTurn
  <1> QED
    BY <1>1, <1>2, <1>3, <1>4, <1>5

\* A handler that goes on without another attempt.
To(p, pc, status, rows, answers) ==
    [p EXCEPT !.pc = pc, !.status = status, !.rows = rows, !.answers = answers]

LEMMA Moved ==
    ASSUME NEW p \in Handling, Placed(p), InTurn(p),
           NEW pc \in Phases, NEW status \in Marks, NEW rows \in Rows,
           NEW answers \in Seq(Codes),
           NEW r, r = To(p, pc, status, rows, answers)
    PROVE  /\ r \in Handling /\ Placed(r) /\ InTurn(r)
           /\ Ended(r) <=> Ended(p)
           /\ Outcome(r) = Outcome(p)
           /\ LogStatus(r) = LogStatus(p)
           /\ r.pc = pc /\ r.status = status /\ r.rows = rows /\ r.answers = answers
           /\ r.ups = p.ups /\ r.tried = p.tried /\ r.index = p.index
           /\ r.attempt = p.attempt /\ r.streamed = p.streamed /\ r.req = p.req
  <1>1. r \in Handling
    BY Zenon DEF To, Handling
  <1>2. /\ r.pc = pc /\ r.status = status /\ r.rows = rows /\ r.answers = answers
        /\ r.ups = p.ups /\ r.tried = p.tried /\ r.index = p.index
        /\ r.attempt = p.attempt /\ r.streamed = p.streamed /\ r.req = p.req
    BY DEF To, Handling
  <1>4. /\ Placed(r) <=> Placed(p)
        /\ InTurn(r) <=> InTurn(p)
        /\ Ended(r) <=> Ended(p)
        /\ Outcome(r) = Outcome(p)
        /\ LogStatus(r) = LogStatus(p)
    BY <1>2, Alike
  <1> QED
    BY <1>1, <1>2, <1>4

LEMMA Durability == UNCHANGED recorder => Durable' = Durable
  BY DEF Durable

\* A stage determines what can be said.
LEMMA StageFacts ==
    ASSUME NEW p \in Handling, NEW durable, Sound(durable, p)
    PROVE  /\ Placed(p) /\ InTurn(p) /\ Stage(durable, p)
           /\ p.pc \in {"resolved", "admitted"} => Fresh(p)
           /\ p.pc = "calling" => Trying(p)
           /\ p.pc = "streaming" => Streaming(p)
           /\ p.pc = "called" => Untold(p) /\ Begun(p) /\ Ended(p)
           /\ p.pc = "logging" => p.rows = 0 /\ Begun(p) /\ Concluded(p)
           /\ p.pc = "answering" =>
                  Begun(p) /\ Concluded(p) /\ (p.rows = 1 \/ (durable /\ p.streamed))
           /\ p.pc = "unlogged" => ~p.streamed /\ durable /\ Begun(p) /\ Concluded(p)
           /\ p.pc = "done" => Unrouted(p) \/ (Told(durable, p) /\ Concluded(p))
  <1>1. Placed(p) /\ InTurn(p) /\ Stage(durable, p)
    BY HandlingFields DEF Sound
  <1> QED
    BY <1>1 DEF Stage

LEMMA TurnedAwaySound ==
    ASSUME NEW p \in Handling, NEW durable, Sound(durable, p),
           p.pc \in {"resolved", "admitted"}, NEW status \in Turned
    PROVE  LET r == [p EXCEPT !.pc = "logging", !.status = status]
           IN  Sound(durable, r) /\ r \in Handling
  <1>1. PICK r : /\ r = [p EXCEPT !.pc = "logging", !.status = status]
                 /\ r = To(p, "logging", status, p.rows, p.answers)
    BY DEF To, Handling
  <1>2. "logging" \in Phases /\ status \in Marks
    BY DEF Phases, Turned, Statuses, Marks
  <1>3. /\ r \in Handling /\ Placed(r) /\ InTurn(r)
        /\ r.pc = "logging" /\ r.status = status /\ r.rows = p.rows /\ r.answers = p.answers
        /\ r.ups = p.ups /\ r.tried = p.tried /\ r.streamed = p.streamed
    BY <1>1, <1>2, HandlingFields, StageFacts, Moved
  <1>4. Fresh(p)
    BY StageFacts
  <1>5. r.rows = 0 /\ Begun(r) /\ Concluded(r)
    BY <1>3, <1>4 DEF Fresh, Untold, Begun, Concluded
  <1>6. Stage(durable, r)
    BY <1>3, <1>5 DEF Stage
  <1> QED
    BY <1>1, <1>3, <1>6 DEF Sound

LEMMA GoesOnSound ==
    ASSUME NEW p \in Handling, NEW durable, Sound(durable, p)
    PROVE  /\ p.pc = "resolved" =>
                  LET r == [p EXCEPT !.pc = "admitted"]
                  IN  Sound(durable, r) /\ r \in Handling
           /\ p.pc = "admitted" =>
                  LET r == [p EXCEPT !.pc = "calling"]
                  IN  Sound(durable, r) /\ r \in Handling
  <1> SUFFICES ASSUME p.pc \in {"resolved", "admitted"}, NEW pc \in {"admitted", "calling"}
               PROVE  LET r == [p EXCEPT !.pc = pc]
                      IN  Sound(durable, r) /\ r \in Handling
    OBVIOUS
  <1>1. PICK r : /\ r = [p EXCEPT !.pc = pc]
                 /\ r = To(p, pc, p.status, p.rows, p.answers)
    BY DEF To, Handling
  <1>2. /\ pc \in Phases /\ p.status \in Marks /\ p.rows \in Rows
        /\ p.answers \in Seq(Codes)
    BY HandlingFields DEF Phases
  <1>3. /\ r \in Handling /\ Placed(r) /\ InTurn(r)
        /\ r.pc = pc /\ r.status = p.status /\ r.rows = p.rows /\ r.answers = p.answers
        /\ r.ups = p.ups /\ r.tried = p.tried /\ r.index = p.index
        /\ r.attempt = p.attempt /\ r.streamed = p.streamed /\ r.req = p.req
    BY <1>1, <1>2, StageFacts, Moved
  <1>4. Fresh(p)
    BY StageFacts
  <1>5. Fresh(r)
    BY <1>3, <1>4 DEF Fresh, Untold, Begun
  <1>6. Trying(r)
    <2>1. Len(r.tried) = 0
      BY <1>5, EmptySeq DEF Fresh
    <2>2. Turn(r.req.retries, 1) = 1
      BY <1>3, HandlingFields DEF Turn
    <2> QED
      BY <1>5, <2>1, <2>2 DEF Fresh, Trying
  <1>7. Stage(durable, r)
    BY <1>3, <1>5, <1>6 DEF Stage
  <1> QED
    BY <1>1, <1>3, <1>7 DEF Sound

LEMMA DisconnectSound ==
    ASSUME NEW p \in Handling, NEW durable, Sound(durable, p)
    PROVE  LET r == [p EXCEPT !.gone = TRUE]
           IN  Sound(durable, r) /\ r \in Handling
  <1>1. PICK r : r = [p EXCEPT !.gone = TRUE]
    OBVIOUS
  <1>2. r \in Handling
    BY <1>1, Zenon DEF Handling
  <1>3. /\ r.pc = p.pc /\ r.status = p.status /\ r.rows = p.rows /\ r.answers = p.answers
        /\ r.ups = p.ups /\ r.tried = p.tried /\ r.index = p.index
        /\ r.attempt = p.attempt /\ r.streamed = p.streamed /\ r.req = p.req
    BY <1>1 DEF Handling
  <1>4. /\ Placed(r) /\ InTurn(r) /\ (Ended(r) <=> Ended(p))
        /\ Outcome(r) = Outcome(p) /\ LogStatus(r) = LogStatus(p)
    BY <1>3, Alike, StageFacts
  <1>5. /\ Fresh(p) => Fresh(r)
        /\ Trying(p) => Trying(r)
        /\ Streaming(p) => Streaming(r)
        /\ Untold(p) => Untold(r)
        /\ Begun(p) => Begun(r)
        /\ Concluded(p) => Concluded(r)
        /\ Unrouted(p) => Unrouted(r)
        /\ Told(durable, p) => Told(durable, r)
    <2>1. /\ Untold(p) => Untold(r)
          /\ Unrouted(p) => Unrouted(r)
      BY <1>3, Zenon DEF Untold, Unrouted
    <2>6. Begun(p) => Begun(r)
      BY <1>3 DEF Begun
    <2>7. Told(durable, p) => Told(durable, r)
      BY <1>3 DEF Told
    <2>2. Fresh(p) => Fresh(r)
      BY <1>3, <2>1, <2>6, Zenon DEF Fresh
    <2>3. Trying(p) => Trying(r)
      BY <1>3, <2>1, <2>6, Zenon DEF Trying
    <2>4. Streaming(p) => Streaming(r)
      BY <1>3, <1>4, <2>1, Zenon DEF Streaming
    <2>5. Concluded(p) => Concluded(r)
      BY <1>3, <1>4, Zenon DEF Concluded
    <2> QED
      BY <2>1, <2>2, <2>3, <2>4, <2>5, <2>6, <2>7
  <1>6. Stage(durable, p)
    BY StageFacts
  <1>7. Stage(durable, r)
    BY <1>3, <1>4, <1>5, <1>6, Zenon DEF Stage
  <1> QED
    BY <1>1, <1>2, <1>4, <1>7 DEF Sound

LEMMA LogSound ==
    ASSUME NEW p \in Handling, NEW durable, Sound(durable, p), p.pc = "logging"
    PROVE  LET r == [p EXCEPT !.pc = "answering", !.rows = @ + 1]
           IN  Sound(durable, r) /\ r \in Handling
  <1>1. p.rows = 0 /\ Begun(p) /\ Concluded(p)
    BY StageFacts
  <1>0. PICK r : r = To(p, "answering", p.status, 1, p.answers)
    OBVIOUS
  <1>2. r = [p EXCEPT !.pc = "answering", !.rows = @ + 1]
    <2>1. p.rows + 1 = 1
      BY <1>1
    <2> QED
      BY <1>0, <2>1, Zenon DEF To, Handling
  <1>3. /\ "answering" \in Phases /\ p.status \in Marks /\ 1 \in Rows
        /\ p.answers \in Seq(Codes)
    BY HandlingFields DEF Phases, Rows
  <1>4. /\ r \in Handling /\ Placed(r) /\ InTurn(r)
        /\ Ended(r) <=> Ended(p)
        /\ LogStatus(r) = LogStatus(p)
        /\ r.pc = "answering" /\ r.status = p.status /\ r.rows = 1 /\ r.answers = p.answers
        /\ r.ups = p.ups /\ r.tried = p.tried /\ r.streamed = p.streamed
    BY <1>0, <1>3, StageFacts, Moved
  <1>5. Begun(r) /\ Concluded(r)
    BY <1>1, <1>4, Zenon DEF Begun, Concluded
  <1>6. Stage(durable, r)
    BY <1>4, <1>5 DEF Stage
  <1> QED
    BY <1>2, <1>4, <1>6 DEF Sound

LEMMA LogFailsSound ==
    ASSUME NEW p \in Handling, NEW durable, durable, Sound(durable, p), p.pc = "logging",
           NEW written \in Rows
    PROVE  LET r == [NotLogged(p) EXCEPT !.rows = @ + written]
           IN  Sound(durable, r) /\ r \in Handling
  <1>1. p.rows = 0 /\ Begun(p) /\ Concluded(p)
    BY StageFacts
  <1>2. PICK pc \in Phases : pc = IF p.streamed THEN "answering" ELSE "unlogged"
    BY DEF Phases
  <1>0. PICK r : r = To(p, pc, p.status, written, p.answers)
    OBVIOUS
  <1>3. r = [NotLogged(p) EXCEPT !.rows = @ + written]
    <2>1. p.rows + written = written
      BY <1>1 DEF Rows
    <2>2. NotLogged(p) = [p EXCEPT !.pc = pc] /\ NotLogged(p).rows = p.rows
      BY <1>2 DEF NotLogged, Handling
    <2>3. r = [[p EXCEPT !.pc = pc] EXCEPT !.rows = written]
      BY <1>0 DEF To, Handling
    <2> QED
      BY <2>1, <2>2, <2>3
  <1>4. p.status \in Marks /\ p.answers \in Seq(Codes) /\ Placed(p) /\ InTurn(p)
    BY HandlingFields, StageFacts
  <1>5. /\ r \in Handling /\ Placed(r) /\ InTurn(r)
        /\ Ended(r) <=> Ended(p)
        /\ LogStatus(r) = LogStatus(p)
        /\ r.pc = pc /\ r.status = p.status /\ r.answers = p.answers
        /\ r.ups = p.ups /\ r.tried = p.tried /\ r.streamed = p.streamed
    BY <1>0, <1>4, Moved
  <1>6. Begun(r) /\ Concluded(r)
    BY <1>1, <1>5, Zenon DEF Begun, Concluded
  <1>7. Stage(durable, r)
    BY <1>2, <1>5, <1>6 DEF Stage
  <1> QED
    BY <1>3, <1>5, <1>7 DEF Sound

LEMMA ReportSound ==
    ASSUME NEW p \in Handling, NEW durable, Sound(durable, p), p.pc = "called"
    PROVE  LET r == [p EXCEPT !.pc = "logging", !.status = LogStatus(p)]
           IN  Sound(durable, r) /\ r \in Handling
  <1>1. Untold(p) /\ Begun(p) /\ Ended(p) /\ Placed(p)
    BY StageFacts
  <1>2. LogStatus(p) \in {"Failed", "Fallback", "Success"}
    BY <1>1, HandlingFields DEF LogStatus, Placed
  <1>3. PICK r : /\ r = [p EXCEPT !.pc = "logging", !.status = LogStatus(p)]
                 /\ r = To(p, "logging", LogStatus(p), p.rows, p.answers)
    BY DEF To, Handling
  <1>4. /\ "logging" \in Phases /\ LogStatus(p) \in Marks
        /\ p.rows \in Rows /\ p.answers \in Seq(Codes)
    BY <1>2, HandlingFields DEF Phases, Statuses, Marks
  <1>5. /\ r \in Handling /\ Placed(r) /\ InTurn(r)
        /\ Ended(r) <=> Ended(p)
        /\ LogStatus(r) = LogStatus(p)
        /\ r.pc = "logging" /\ r.status = LogStatus(p) /\ r.rows = p.rows
        /\ r.answers = p.answers /\ r.ups = p.ups /\ r.streamed = p.streamed
    BY <1>3, <1>4, StageFacts, Moved
  <1>6. r.rows = 0 /\ Begun(r) /\ Concluded(r)
    BY <1>1, <1>2, <1>5 DEF Begun, Untold, Concluded, Turned
  <1>7. Stage(durable, r)
    BY <1>5, <1>6 DEF Stage
  <1> QED
    BY <1>3, <1>5, <1>7 DEF Sound

LEMMA AnswerSound ==
    ASSUME NEW p \in Handling, NEW durable, Sound(durable, p),
           p.pc \in {"answering", "unlogged"}
    PROVE  Sound(durable, Reply(p)) /\ Reply(p) \in Handling
  <1>1. /\ Placed(p) /\ InTurn(p) /\ Begun(p) /\ Concluded(p)
        /\ p.pc = "answering" => p.rows = 1 \/ (durable /\ p.streamed)
        /\ p.pc = "unlogged" => ~p.streamed /\ durable
    BY StageFacts
  <1>2. /\ Code(p) \in Codes
        /\ p.pc = "unlogged" => Code(p) = 500
        /\ p.pc = "answering" => Code(p) \in {200, 429, 502, 503}
    BY DEF Code, Codes
  <1>3. PICK answers \in Seq(Codes) :
            answers = IF p.streamed THEN p.answers ELSE <<Code(p)>>
    <2>1. p.answers \in Seq(Codes) /\ <<Code(p)>> \in Seq(Codes)
      BY <1>2, HandlingFields
    <2> QED
      BY <2>1, Zenon
  <1>4. PICK r : r = To(p, "done", p.status, p.rows, answers)
    OBVIOUS
  <1>5. r = Reply(p)
    <2>1. CASE p.streamed
      BY <1>3, <1>4, <2>1 DEF Reply, To, Handling
    <2>2. CASE ~p.streamed
      <3>1. Append(p.answers, Code(p)) = answers
        <4>1. p.answers = <<>> /\ answers = <<Code(p)>>
          BY <1>1, <1>3, <2>2 DEF Begun
        <4>2. \A c \in Codes : Append(<<>>, c) = <<c>>
          OBVIOUS
        <4> QED
          BY <1>2, <4>1, <4>2
      <3>2. Reply(p) = [p EXCEPT !.pc = "done", !.answers = answers]
        BY <2>2, <3>1 DEF Reply, Answered
      <3> QED
        BY <1>4, <3>2 DEF To, Handling
    <2> QED
      BY <2>1, <2>2
  <1>6. "done" \in Phases /\ p.status \in Marks /\ p.rows \in Rows
    BY HandlingFields DEF Phases
  <1>7. /\ r \in Handling /\ Placed(r) /\ InTurn(r)
        /\ Ended(r) <=> Ended(p)
        /\ LogStatus(r) = LogStatus(p)
        /\ r.pc = "done" /\ r.status = p.status /\ r.rows = p.rows
        /\ r.answers = answers /\ r.ups = p.ups /\ r.tried = p.tried
        /\ r.streamed = p.streamed
    BY <1>1, <1>4, <1>6, Moved
  <1>8. Concluded(r)
    BY <1>1, <1>7, Zenon DEF Concluded
  <1>9. Told(durable, r)
    <2>1. CASE p.streamed
      BY <1>1, <1>3, <1>7, <2>1 DEF Told, Begun
    <2>2. CASE ~p.streamed
      BY <1>1, <1>2, <1>3, <1>7, <2>2 DEF Told
    <2> QED
      BY <2>1, <2>2
  <1>10. Stage(durable, r)
    BY <1>7, <1>8, <1>9 DEF Stage
  <1> QED
    BY <1>5, <1>7, <1>10 DEF Sound

\* One more attempt, on the candidate whose turn it is.
LEMMA TriedFacts ==
    ASSUME NEW p \in Handling, NEW durable, Sound(durable, p), p.pc = "calling",
           NEW o \in Outcomes
    PROVE  LET t == Tried(p, o)
           IN  /\ t \in Handling /\ Placed(t) /\ InTurn(t) /\ Outcome(t) = o
               /\ t.index = Turn(t.req.retries, Len(t.tried)) /\ Len(t.tried) \in Nat \ {0}
               /\ \A k \in 1 .. Len(t.tried) : k # Len(t.tried) => t.tried[k][2] \in Vain
               /\ t.tried[Len(t.tried)][2] = o
               /\ t.index = 1 => t.attempt = Len(t.tried)
               /\ t.pc = p.pc /\ t.req = p.req /\ Untold(t) /\ ~t.streamed /\ Begun(t)
  <1> DEFINE n == Len(p.tried)
             pair == <<p.ups[p.index], o>>
  <1>1. Trying(p) /\ Placed(p) /\ InTurn(p)
    BY StageFacts
  <1>2. /\ n \in Nat /\ DOMAIN p.tried = 1 .. n /\ p.req.retries \in Nat
        /\ p.tried \in Seq(Upstreams \X Outcomes)
    BY HandlingFields, LenProperties
  <1>3. pair \in Upstreams \X Outcomes
    <2>1. p.ups[p.index] \in Upstreams
      BY <1>1, HandlingFields, ElementOfSeq DEF Placed
    <2> QED
      BY <2>1
  <1>4. PICK tried \in Seq(Upstreams \X Outcomes) : tried = Append(p.tried, pair)
    BY <1>2, <1>3, AppendProperties
  <1>5. /\ Len(tried) = n + 1 /\ tried[n + 1] = pair
        /\ \A k \in 1 .. n : tried[k] = p.tried[k]
    BY <1>2, <1>3, <1>4
  <1>6. PICK t : t = [p EXCEPT !.tried = tried]
    OBVIOUS
  <1>7. t = Tried(p, o)
    BY <1>4, <1>6 DEF Tried
  <1>8. t \in Handling
    BY <1>6, Zenon DEF Handling
  <1>9. /\ t.pc = p.pc /\ t.status = p.status /\ t.rows = p.rows /\ t.answers = p.answers
        /\ t.ups = p.ups /\ t.tried = tried /\ t.index = p.index
        /\ t.attempt = p.attempt /\ t.streamed = p.streamed /\ t.req = p.req
    BY <1>6 DEF Handling
  <1>10. Placed(t)
    BY <1>1, <1>9, Zenon DEF Placed, AttemptLimit
  <1>11. pair[1] = p.ups[p.index] /\ pair[2] = o
    OBVIOUS
  <1> HIDE DEF n, pair
  <1>12. /\ \A k \in 1 .. n : /\ p.tried[k][1] = p.ups[Turn(p.req.retries, k)]
                              /\ p.tried[k][2] \in Vain
         /\ p.index = Turn(p.req.retries, n + 1)
         /\ p.index = 1 => p.attempt = n + 1
    BY <1>1 DEF Trying, InTurn, n
  <1>13. \A k \in 1 .. n + 1 : /\ tried[k][1] = p.ups[Turn(p.req.retries, k)]
                               /\ k # n + 1 => tried[k][2] \in Vain
    <2> SUFFICES ASSUME NEW k \in 1 .. n + 1
                 PROVE  /\ tried[k][1] = p.ups[Turn(p.req.retries, k)]
                        /\ k # n + 1 => tried[k][2] \in Vain
      OBVIOUS
    <2>1. k = n + 1 \/ k \in 1 .. n
      BY <1>2
    <2> QED
      BY <1>2, <1>5, <1>11, <1>12, <2>1
  <1>14. InTurn(t)
    BY <1>5, <1>9, <1>13 DEF InTurn
  <1>15. Outcome(t) = o /\ t.tried[Len(t.tried)][2] = o
    BY <1>5, <1>9, <1>11 DEF Outcome, Last
  <1>16. Untold(t) /\ ~t.streamed /\ Begun(t)
    BY <1>1, <1>9 DEF Trying, Untold, Begun
  <1>17. Len(t.tried) = n + 1 /\ n + 1 \in Nat \ {0}
    BY <1>2, <1>5, <1>9
  <1> QED
    BY <1>7, <1>8, <1>9, <1>10, <1>12, <1>13, <1>14, <1>15, <1>16, <1>17

LEMMA VainOutcomes == Vain \subseteq Outcomes
  BY DEF Vain, Outcomes, OwnFailures, Failures, UpstreamFailures

LEMMA RetrySound ==
    ASSUME NEW p \in Handling, NEW durable, Sound(durable, p), p.pc = "calling",
           NEW o \in Vain
    PROVE  Sound(durable, Retry(Tried(p, o))) /\ Retry(Tried(p, o)) \in Handling
  <1>1. PICK t : t = Tried(p, o)
    OBVIOUS
  <1>2. /\ t \in Handling /\ Placed(t) /\ InTurn(t) /\ Outcome(t) = o
        /\ t.index = Turn(t.req.retries, Len(t.tried)) /\ Len(t.tried) \in Nat \ {0}
        /\ \A k \in 1 .. Len(t.tried) : k # Len(t.tried) => t.tried[k][2] \in Vain
        /\ t.tried[Len(t.tried)][2] = o
        /\ t.index = 1 => t.attempt = Len(t.tried)
        /\ t.pc = "calling" /\ Untold(t) /\ ~t.streamed /\ Begun(t)
    <2>1. o \in Outcomes
      BY VainOutcomes
    <2> QED
      BY <1>1, <2>1, TriedFacts
  <1> DEFINE n == Len(t.tried)
             retries == t.req.retries
  <1>3. /\ retries \in Nat /\ n \in Nat \ {0} /\ Len(t.ups) \in Nat
        /\ t.index \in 1 .. Len(t.ups) /\ t.attempt \in 1 .. AttemptLimit(t)
        /\ AttemptLimit(t) = IF t.index = 1 THEN retries + 1 ELSE 1
        /\ t.index = IF n <= retries + 1 THEN 1 ELSE n - retries
    BY <1>2, HandlingFields, LenProperties DEF Placed, AttemptLimit, Turn
  <1> HIDE DEF n, retries
  <1>4. \A k \in 1 .. n : t.tried[k][2] \in Vain
    BY <1>2 DEF n
  <1>5. CASE t.attempt < AttemptLimit(t)
    <2>1. t.index = 1 /\ t.attempt = n /\ n < retries + 1 /\ t.attempt + 1 \in Nat
      BY <1>2, <1>3, <1>5 DEF n
    <2>2. PICK attempt \in Nat : attempt = t.attempt + 1
      BY <2>1
    <2>3. PICK r : r = [t EXCEPT !.attempt = attempt]
      OBVIOUS
    <2>4. r = Retry(t)
      BY <1>5, <2>2, <2>3 DEF Retry
    <2>5. r \in Handling
      BY <1>2, <2>3, Zenon DEF Handling
    <2>6. /\ r.pc = "calling" /\ r.status = t.status /\ r.rows = t.rows
          /\ r.answers = t.answers /\ r.ups = t.ups /\ r.tried = t.tried
          /\ r.index = t.index /\ r.attempt = attempt /\ r.streamed = t.streamed
          /\ r.req = t.req
      BY <1>2, <2>3 DEF Handling
    <2>7. Placed(r)
      <3>1. attempt \in 1 .. retries + 1
        BY <1>3, <2>1, <2>2
      <3> QED
        BY <1>2, <2>1, <2>6, <3>1 DEF Placed, AttemptLimit, retries
    <2>8. InTurn(r)
      BY <1>2, <2>6, Zenon DEF InTurn
    <2>9. Trying(r)
      <3>1. Turn(retries, n + 1) = 1 /\ attempt = n + 1
        BY <1>3, <2>1, <2>2 DEF Turn
      <3>2. Untold(r) /\ Begun(r) /\ ~r.streamed
        BY <1>2, <2>6 DEF Untold, Begun
      <3> QED
        BY <1>4, <2>1, <2>6, <3>1, <3>2 DEF Trying, n, retries
    <2> QED
      BY <1>1, <2>4, <2>5, <2>6, <2>7, <2>8, <2>9 DEF Sound, Stage
  <1>6. CASE ~(t.attempt < AttemptLimit(t)) /\ t.index < Len(t.ups)
    <2>1. t.attempt = AttemptLimit(t) /\ t.index + 1 \in Nat \ {0}
      BY <1>3, <1>6
    <2>2. PICK index \in Nat : index = t.index + 1
      BY <2>1
    <2>3. PICK r : r = [t EXCEPT !.index = index, !.attempt = 1]
      OBVIOUS
    <2>4. r = Retry(t)
      BY <1>6, <2>2, <2>3 DEF Retry
    <2>5. r \in Handling
      <3>1. \A a \in Nat : [t EXCEPT !.index = index, !.attempt = a] \in Handling
        BY <1>2, Zenon DEF Handling
      <3> QED
        BY <2>3, <3>1
    <2>6. /\ r.pc = "calling" /\ r.status = t.status /\ r.rows = t.rows
          /\ r.answers = t.answers /\ r.ups = t.ups /\ r.tried = t.tried
          /\ r.index = index /\ r.attempt = 1 /\ r.streamed = t.streamed
          /\ r.req = t.req
      BY <1>2, <2>3 DEF Handling
    <2>7. index \in 1 .. Len(t.ups) /\ index # 1 /\ index = Turn(retries, n + 1)
      <3>1. index \in 1 .. Len(t.ups) /\ index # 1
        BY <1>3, <1>6, <2>2
      <3>2. CASE t.index = 1
        <4>1. n = retries + 1
          BY <1>2, <1>3, <2>1, <3>2 DEF n
        <4> QED
          BY <1>3, <2>2, <3>1, <3>2, <4>1 DEF Turn
      <3>3. CASE t.index # 1
        BY <1>3, <2>2, <3>1, <3>3 DEF Turn
      <3> QED
        BY <3>1, <3>2, <3>3
    <2>8. Placed(r)
      BY <1>2, <2>6, <2>7 DEF Placed, AttemptLimit
    <2>9. InTurn(r)
      BY <1>2, <2>6, Zenon DEF InTurn
    <2>10. Trying(r)
      <3>1. Untold(r) /\ Begun(r) /\ ~r.streamed
        BY <1>2, <2>6 DEF Untold, Begun
      <3> QED
        BY <1>4, <2>6, <2>7, <3>1 DEF Trying, n, retries
    <2> QED
      BY <1>1, <2>4, <2>5, <2>6, <2>8, <2>9, <2>10 DEF Sound, Stage
  <1>7. CASE ~(t.attempt < AttemptLimit(t)) /\ ~(t.index < Len(t.ups))
    <2>1. t.attempt = AttemptLimit(t) /\ t.index = Len(t.ups)
      BY <1>3, <1>7
    <2>2. PICK r : r = To(t, "called", t.status, t.rows, t.answers)
      OBVIOUS
    <2>3. r = Retry(t)
      BY <1>2, <1>7, <2>2 DEF Retry, To, Handling
    <2>4. "called" \in Phases /\ t.status \in Marks /\ t.rows \in Rows /\ t.answers \in Seq(Codes)
      BY <1>2, HandlingFields DEF Phases
    <2>5. /\ r \in Handling /\ Placed(r) /\ InTurn(r) /\ (Ended(r) <=> Ended(t))
          /\ r.pc = "called" /\ r.status = t.status /\ r.rows = t.rows
          /\ r.answers = t.answers /\ r.ups = t.ups /\ r.streamed = t.streamed
      BY <1>2, <2>2, <2>4, Moved
    <2>6. n = retries + t.index
      <3>1. CASE t.index = 1
        BY <1>2, <1>3, <2>1, <3>1 DEF n
      <3>2. CASE t.index # 1
        BY <1>3, <3>2
      <3> QED
        BY <3>1, <3>2
    <2>7. Ended(t)
      BY <1>2, <1>3, <2>1, <2>6 DEF Ended, n, retries
    <2>8. Untold(r) /\ Begun(r)
      BY <1>2, <2>5 DEF Untold, Begun
    <2> QED
      BY <1>1, <2>3, <2>5, <2>7, <2>8 DEF Sound, Stage
  <1> QED
    BY <1>5, <1>6, <1>7

LEMMA AttemptAnsweredSound ==
    ASSUME NEW p \in Handling, NEW durable, Sound(durable, p), p.pc = "calling",
           NEW o \in Answers
    PROVE  LET r == [Tried(p, o) EXCEPT !.pc = "called"]
           IN  Sound(durable, r) /\ r \in Handling
  <1>1. PICK t : t = Tried(p, o)
    OBVIOUS
  <1>2. /\ t \in Handling /\ Placed(t) /\ InTurn(t) /\ Outcome(t) = o
        /\ t.index = Turn(t.req.retries, Len(t.tried)) /\ Len(t.tried) \in Nat \ {0}
        /\ Untold(t) /\ ~t.streamed /\ Begun(t)
    BY <1>1, TriedFacts DEF Outcomes
  <1>3. PICK r : r = To(t, "called", t.status, t.rows, t.answers)
    OBVIOUS
  <1>4. r = [Tried(p, o) EXCEPT !.pc = "called"]
    BY <1>1, <1>2, <1>3 DEF To, Handling
  <1>5. "called" \in Phases /\ t.status \in Marks /\ t.rows \in Rows /\ t.answers \in Seq(Codes)
    BY <1>2, HandlingFields DEF Phases
  <1>6. /\ r \in Handling /\ Placed(r) /\ InTurn(r) /\ (Ended(r) <=> Ended(t))
        /\ r.pc = "called" /\ r.status = t.status /\ r.rows = t.rows
        /\ r.answers = t.answers /\ r.ups = t.ups /\ r.streamed = t.streamed
    BY <1>2, <1>3, <1>5, Moved
  <1>7. Ended(t)
    BY <1>2 DEF Ended
  <1>8. Untold(r) /\ Begun(r)
    BY <1>2, <1>6 DEF Untold, Begun
  <1> QED
    BY <1>4, <1>6, <1>7, <1>8 DEF Sound, Stage

LEMMA StreamStartsSound ==
    ASSUME NEW p \in Handling, NEW durable, Sound(durable, p), p.pc = "calling",
           NEW o \in Answers
    PROVE  LET r == [Tried(p, o) EXCEPT
                        !.pc = "streaming", !.answers = Append(@, PassedOn(o))]
           IN  Sound(durable, r) /\ r \in Handling
  <1>1. PICK t : t = Tried(p, o)
    OBVIOUS
  <1>2. /\ t \in Handling /\ Placed(t) /\ InTurn(t) /\ Outcome(t) = o
        /\ t.index = Turn(t.req.retries, Len(t.tried)) /\ Len(t.tried) \in Nat \ {0}
        /\ Untold(t) /\ ~t.streamed /\ Begun(t)
    BY <1>1, TriedFacts DEF Outcomes
  <1>3. PICK code \in Codes : code = PassedOn(o) /\ code \in {200, 400}
    BY DEF PassedOn, Codes
  <1>10. PICK answers : answers = <<code>>
    OBVIOUS
  <1>11. answers \in Seq(Codes) /\ answers \in {<<200>>, <<400>>}
    BY <1>3, <1>10
  <1>12. Append(t.answers, PassedOn(o)) = answers
    <2>1. t.answers = <<>>
      BY <1>2 DEF Begun
    <2>2. Append(<<>>, code) = <<code>>
      OBVIOUS
    <2> QED
      BY <1>3, <1>10, <2>1, <2>2
  <1>4. PICK r : r = To(t, "streaming", t.status, t.rows, answers)
    OBVIOUS
  <1>5. r = [Tried(p, o) EXCEPT !.pc = "streaming", !.answers = Append(@, PassedOn(o))]
    <2>1. r = [t EXCEPT !.pc = "streaming", !.answers = answers]
      BY <1>2, <1>4 DEF To, Handling
    <2> QED
      BY <1>1, <1>12, <2>1
  <1>6. "streaming" \in Phases /\ t.status \in Marks /\ t.rows \in Rows
    BY <1>2, HandlingFields DEF Phases
  <1>7. /\ r \in Handling /\ Placed(r) /\ InTurn(r) /\ (Ended(r) <=> Ended(t))
        /\ Outcome(r) = o
        /\ r.pc = "streaming" /\ r.status = t.status /\ r.rows = t.rows
        /\ r.answers = answers /\ r.ups = t.ups /\ r.streamed = t.streamed
    BY <1>2, <1>4, <1>6, <1>11, Moved
  <1>8. Ended(t)
    BY <1>2 DEF Ended
  <1>9. Streaming(r)
    BY <1>2, <1>7, <1>8, <1>11 DEF Untold, Streaming
  <1> QED
    BY <1>5, <1>7, <1>9 DEF Sound, Stage

LEMMA StreamEndsSound ==
    ASSUME NEW p \in Handling, NEW durable, Sound(durable, p), p.pc = "streaming",
           NEW o \in Outcomes
    PROVE  Sound(durable, Copied(p, o)) /\ Copied(p, o) \in Handling
  <1> DEFINE n == Len(p.tried)
  <1>1. /\ Placed(p) /\ InTurn(p) /\ Untold(p) /\ p.answers \in {<<200>>, <<400>>}
        /\ n # 0 /\ p.index = Turn(p.req.retries, n)
    BY StageFacts DEF Streaming, Ended
  <1>2. n \in Nat /\ p.tried \in Seq(Upstreams \X Outcomes)
    BY HandlingFields, LenProperties
  <1>3. PICK u \in Upstreams, o1 \in Outcomes : p.tried[n] = <<u, o1>>
    <2>1. p.tried[n] \in Upstreams \X Outcomes
      BY <1>1, <1>2, ElementOfSeq
    <2> QED
      BY <2>1
  <1>4. [p.tried[n] EXCEPT ![2] = o] = <<u, o>>
    BY <1>3
  <1>5. PICK tried : tried = [p.tried EXCEPT ![n] = <<u, o>>]
    OBVIOUS
  <1>6. /\ tried \in Seq(Upstreams \X Outcomes) /\ Len(tried) = n
        /\ \A k \in 1 .. n : tried[k] = IF k = n THEN <<u, o>> ELSE p.tried[k]
    <2>1. <<u, o>> \in Upstreams \X Outcomes /\ n \in 1 .. n
      BY <1>1, <1>2
    <2> QED
      BY <1>2, <1>5, <2>1, ExceptSeq
  <1>7. PICK streamed \in BOOLEAN : streamed
    OBVIOUS
  <1>8. PICK r : r = [p EXCEPT !.pc = "called", !.streamed = streamed, !.tried = tried]
    OBVIOUS
  <1>9. r = Copied(p, o)
    <2>1. streamed = TRUE
      BY <1>7
    <2>2. tried = [p.tried EXCEPT ![n] = [@ EXCEPT ![2] = o]]
      BY <1>4, <1>5
    <2>3. Copied(p, o) =
             [p EXCEPT !.pc = "called", !.streamed = TRUE,
                       !.tried = [p.tried EXCEPT ![n] = [@ EXCEPT ![2] = o]]]
      BY DEF Copied, Handling
    <2> QED
      BY <1>8, <2>1, <2>2, <2>3
  <1>10. r \in Handling
    <2>1. \A pc \in Phases : [p EXCEPT !.pc = pc, !.streamed = streamed, !.tried = tried]
                                 \in Handling
      BY <1>6, Zenon DEF Handling
    <2>2. "called" \in Phases
      BY DEF Phases
    <2> QED
      BY <1>8, <2>1, <2>2
  <1>11. /\ r.pc = "called" /\ r.status = p.status /\ r.rows = p.rows
         /\ r.answers = p.answers /\ r.ups = p.ups /\ r.tried = tried
         /\ r.index = p.index /\ r.attempt = p.attempt /\ r.req = p.req
         /\ r.streamed = streamed
    BY <1>8 DEF Handling
  <1>12. Placed(r)
    BY <1>1, <1>11, Zenon DEF Placed, AttemptLimit
  <1>13. InTurn(r)
    <2> SUFFICES ASSUME NEW k \in 1 .. n
                 PROVE  /\ tried[k][1] = p.ups[Turn(p.req.retries, k)]
                        /\ k # n => tried[k][2] \in Vain
      BY <1>6, <1>11 DEF InTurn
    <2>1. /\ p.tried[k][1] = p.ups[Turn(p.req.retries, k)]
          /\ k # n => p.tried[k][2] \in Vain
      BY <1>1 DEF InTurn
    <2>2. CASE k = n
      BY <1>3, <1>6, <2>1, <2>2
    <2>3. CASE k # n
      BY <1>6, <2>1, <2>3
    <2> QED
      BY <2>2, <2>3
  <1>14. Ended(r)
    BY <1>1, <1>6, <1>7, <1>11 DEF Ended
  <1>15. Untold(r) /\ Begun(r)
    BY <1>1, <1>7, <1>11 DEF Untold, Begun
  <1> QED
    BY <1>9, <1>10, <1>11, <1>12, <1>13, <1>14, <1>15 DEF Sound, Stage

-----------------------------------------------------------------------------
(* The invariant.                                                          *)

\* A step that replaces the record of one handler by a sound one.
LEMMA OneHandlerMoves ==
    ASSUME HandlersSound, NEW h \in Handlers, NEW r,
           r = Idle \/ r \in Handling, Sound(Durable, r),
           proc' = [proc EXCEPT ![h] = r], recorder' = recorder, active' = active
    PROVE  HandlersSound'
  <1>1. Durable' = Durable
    BY Durability
  <1>2. proc' \in [Handlers -> {Idle} \cup Handling]
    BY DEF HandlersSound
  <1>3. \A g \in Handlers : Sound(Durable, proc'[g])
    BY DEF HandlersSound
  <1>4. \A g \in Handlers : Sound(Durable', proc'[g])
    BY <1>1, <1>3
  <1> QED
    BY <1>2, <1>4 DEF HandlersSound

LEMMA InitSound == Init => HandlersSound
  BY DEF Init, HandlersSound, Sound

LEMMA WorkingIsSound ==
    ASSUME HandlersSound, NEW h \in Handlers, proc[h].pc # "idle"
    PROVE  proc[h] \in Handling /\ Sound(Durable, proc[h])
  BY DEF HandlersSound, Idle

\* The outcomes of one attempt, sorted by what the handler does next.
LEMMA AttemptOutcomes ==
    ASSUME NEW p
    PROVE  Possible(p) \cap Failures \subseteq Vain
  BY DEF Possible, Failures, UpstreamFailures, OwnFailures, Answers, Vain

LEMMA StepSound ==
    ASSUME HandlersSound, NEW h \in Handlers, Step(h)
    PROVE  HandlersSound'
  <1>1. CASE OverLimit(h)
    <2>1. /\ proc[h].pc = "resolved" /\ UNCHANGED <<recorder, active>>
          /\ proc' = [proc EXCEPT ![h] = [proc[h] EXCEPT !.pc = "logging",
                                                         !.status = "RateLimited"]]
      BY <1>1 DEF OverLimit, Local
    <2>2. "RateLimited" \in Turned
      BY DEF Turned
    <2> QED
      BY <2>1, <2>2, WorkingIsSound, TurnedAwaySound, OneHandlerMoves
  <1>2. CASE WithinLimit(h)
    BY <1>2, WorkingIsSound, GoesOnSound, OneHandlerMoves DEF WithinLimit, Local
  <1>3. CASE CircuitOpen(h)
    <2>1. proc[h].pc = "admitted" /\ UNCHANGED <<recorder, active>>
      BY <1>3 DEF CircuitOpen
    <2>2. "CircuitOpen" \in Turned
      BY DEF Turned
    <2>3. proc' = [proc EXCEPT ![h] = [proc[h] EXCEPT !.pc = "logging",
                                                      !.status = "CircuitOpen"]]
      BY <1>3 DEF CircuitOpen
    <2> QED
      BY <2>1, <2>2, <2>3, WorkingIsSound, TurnedAwaySound, OneHandlerMoves
  <1>4. CASE CircuitClosed(h)
    <2>1. /\ proc[h].pc = "admitted" /\ UNCHANGED <<recorder, active>>
          /\ proc' = [proc EXCEPT ![h] = [proc[h] EXCEPT !.pc = "calling"]]
      BY <1>4 DEF CircuitClosed
    <2> QED
      BY <2>1, WorkingIsSound, GoesOnSound, OneHandlerMoves
  <1>5. CASE AttemptFails(h)
    <2>1. PICK o \in Possible(proc[h]) \cap Failures : Local(h, Retry(Tried(proc[h], o)))
      BY <1>5 DEF AttemptFails
    <2>2. o \in Vain /\ proc[h].pc = "calling"
      BY <1>5, AttemptOutcomes DEF AttemptFails
    <2> QED
      BY <2>1, <2>2, WorkingIsSound, RetrySound, OneHandlerMoves DEF Local
  <1>6. CASE AttemptAnswered(h)
    <2>1. PICK o \in Answers : Local(h, [Tried(proc[h], o) EXCEPT !.pc = "called"])
      BY <1>6 DEF AttemptAnswered
    <2>2. proc[h].pc = "calling"
      BY <1>6 DEF AttemptAnswered
    <2> QED
      BY <2>1, <2>2, WorkingIsSound, AttemptAnsweredSound, OneHandlerMoves DEF Local
  <1>7. CASE StreamStarts(h)
    <2>1. PICK o \in Answers :
             Local(h, [Tried(proc[h], o) EXCEPT
                          !.pc = "streaming", !.answers = Append(@, PassedOn(o))])
      BY <1>7 DEF StreamStarts
    <2>2. proc[h].pc = "calling"
      BY <1>7 DEF StreamStarts
    <2> QED
      BY <2>1, <2>2, WorkingIsSound, StreamStartsSound, OneHandlerMoves DEF Local
  <1>8. CASE StreamEnds(h)
    <2>1. proc[h].pc = "streaming"
      BY <1>8 DEF StreamEnds
    <2>2. proc[h] \in Handling /\ Sound(Durable, proc[h])
      BY <2>1, WorkingIsSound
    <2>3. Outcome(proc[h]) \in Outcomes
      BY <2>1, <2>2, StageFacts DEF Streaming, Outcomes
    <2>4. \E o \in Outcomes : Local(h, Copied(proc[h], o))
      BY <1>8, <2>3 DEF StreamEnds, Outcomes, Failures, UpstreamFailures, OwnFailures
    <2> QED
      BY <2>1, <2>2, <2>4, StreamEndsSound, OneHandlerMoves DEF Local
  <1>9. CASE Report(h)
    <2>1. /\ proc[h].pc = "called" /\ UNCHANGED <<recorder, active>>
          /\ proc' = [proc EXCEPT ![h].pc = "logging", ![h].status = LogStatus(proc[h])]
      BY <1>9 DEF Report
    <2>2. proc' = [proc EXCEPT ![h] = [proc[h] EXCEPT !.pc = "logging",
                                                      !.status = LogStatus(proc[h])]]
      BY <2>1
    <2> QED
      BY <2>1, <2>2, WorkingIsSound, ReportSound, OneHandlerMoves
  <1>10. CASE Log(h)
    BY <1>10, WorkingIsSound, LogSound, OneHandlerMoves DEF Log, Local
  <1>11. CASE LogFails(h)
    <2>1. PICK written \in Rows :
             Local(h, [NotLogged(proc[h]) EXCEPT !.rows = @ + written])
      BY <1>11 DEF LogFails, Rows
    <2>2. Durable /\ proc[h].pc = "logging"
      BY <1>11 DEF LogFails
    <2> QED
      BY <2>1, <2>2, WorkingIsSound, LogFailsSound, OneHandlerMoves DEF Local
  <1>12. CASE Answer(h)
    <2>1. /\ proc[h].pc \in {"answering", "unlogged"} /\ UNCHANGED <<recorder, active>>
          /\ proc' = [proc EXCEPT ![h] = Reply(proc[h])]
      BY <1>12 DEF Answer
    <2> QED
      BY <2>1, WorkingIsSound, AnswerSound, OneHandlerMoves
  <1> QED
    BY <1>1, <1>2, <1>3, <1>4, <1>5, <1>6, <1>7, <1>8, <1>9, <1>10, <1>11, <1>12 DEF Step

LEMMA NextSound == HandlersSound /\ [Next]_vars => HandlersSound'
  <1> SUFFICES ASSUME HandlersSound, [Next]_vars
               PROVE  HandlersSound'
    OBVIOUS
  <1>1. ASSUME NEW h \in Handlers, Finish(h)
        PROVE  HandlersSound'
    BY <1>1, OneHandlerMoves DEF Finish, Local, Sound
  <1>2. ASSUME NEW h \in Handlers, Disconnect(h)
        PROVE  HandlersSound'
    BY <1>2, WorkingIsSound, DisconnectSound, OneHandlerMoves DEF Disconnect, Local
  <1>3. ASSUME NEW h \in Handlers, NEW q \in Requests, Resolve(h, q)
        PROVE  HandlersSound'
    BY <1>3, ResolveSound, OneHandlerMoves DEF Resolve, Local
  <1>4. ASSUME NEW h \in Handlers, NEW q \in Requests, NotFound(h, q)
        PROVE  HandlersSound'
    BY <1>4, NotFoundSound, OneHandlerMoves DEF NotFound, Local
  <1>5. CASE \E r \in Routes : PublishRoute(r) \/ UpdateRoute(r)
    BY <1>5, Durability DEF PublishRoute, UpdateRoute, HandlersSound
  <1>6. CASE Tick \/ UNCHANGED vars
    BY <1>6, Durability DEF Tick, vars, HandlersSound
  <1> QED
    BY <1>1, <1>2, <1>3, <1>4, <1>5, <1>6, StepSound DEF Next

-----------------------------------------------------------------------------
(* The breaker inside the gateway.                                         *)

\* Every step of the gateway is a step of the breaker or leaves it alone.
LEMMA BreakerMoves == HandlersSound /\ [Next]_vars => [Breaker!Next]_(Breaker!vars)
  <1> SUFFICES ASSUME HandlersSound, Next
               PROVE  Breaker!Next \/ UNCHANGED breaker
    BY DEF vars, breaker, Breaker!vars
  <1>1. ASSUME NEW h \in Handlers, proc[h].pc = "admitted"
        PROVE  CircuitKey(proc[h]) \in CircuitKeys
    <2>1. proc[h] \in Handling /\ Placed(proc[h])
      BY <1>1, WorkingIsSound, StageFacts
    <2>2. proc[h].ups[1] \in Upstreams
      BY <2>1, HandlingFields, EmptySeq, ElementOfSeq DEF Placed
    <2> QED
      BY <2>1, <2>2, HandlingFields, RequestFields DEF CircuitKey, CircuitKeys
  <1>2. ASSUME NEW h \in Handlers, CircuitOpen(h) \/ CircuitClosed(h)
        PROVE  Breaker!Next
    BY <1>1, <1>2 DEF CircuitOpen, CircuitClosed, Breaker!Next
  <1>3. ASSUME NEW h \in Handlers, Report(h) \/ Answer(h)
        PROVE  Breaker!Next \/ UNCHANGED breaker
    BY <1>3 DEF Report, ReportTo, Answer, Breaker!Next
  <1>4. ASSUME NEW h \in Handlers, Step(h)
        PROVE  Breaker!Next \/ UNCHANGED breaker
    BY <1>2, <1>3, <1>4 DEF Step, OverLimit, WithinLimit, AttemptFails, AttemptAnswered,
                           StreamStarts, StreamEnds, Log, LogFails, Local
  <1>5. CASE Tick
    BY <1>5 DEF Tick, Breaker!Next
  <1>6. ASSUME NEW h \in Handlers, Finish(h) \/ Disconnect(h)
        PROVE  UNCHANGED breaker
    BY <1>6 DEF Finish, Disconnect, Local
  <1>7. ASSUME NEW h \in Handlers, NEW q \in Requests, Resolve(h, q) \/ NotFound(h, q)
        PROVE  UNCHANGED breaker
    BY <1>7 DEF Resolve, NotFound, Local
  <1>8. CASE \E r \in Routes : PublishRoute(r) \/ UpdateRoute(r)
    BY <1>8 DEF PublishRoute, UpdateRoute
  <1> QED
    BY <1>4, <1>5, <1>6, <1>7, <1>8 DEF Next

LEMMA BreakerInit == Breaker!Init => Breaker!TypeOK
  BY BreakerAssumption DEF Breaker!Init, Breaker!TypeOK, Breaker!State, Breaker!Closed

LEMMA BreakerTypeStep == Breaker!TypeOK /\ [Breaker!Next]_(Breaker!vars) => Breaker!TypeOK'
  <1> SUFFICES ASSUME Breaker!TypeOK, [Breaker!Next]_(Breaker!vars)
               PROVE  Breaker!TypeOK'
    OBVIOUS
  <1> USE DEF Breaker!TypeOK
  <1>0. /\ \A s \in Breaker!State : /\ Breaker!AfterAllow(s) \in Breaker!State
                                    /\ Breaker!AfterFailure(s) \in Breaker!State
                                    /\ Breaker!Elapsed(s) \in Breaker!State
        /\ Breaker!Closed \in Breaker!State
    BY BreakerAssumption DEF Breaker!AfterAllow, Breaker!AfterFailure, Breaker!Elapsed,
                             Breaker!State, Breaker!IsOpen, Breaker!Closed, Breaker!Unset
  <1>1. ASSUME NEW h \in Handlers, NEW k \in CircuitKeys, Breaker!Admit(h, k)
        PROVE  Breaker!TypeOK'
    BY <1>0, <1>1 DEF Breaker!Admit, Breaker!Call
  <1>2. ASSUME NEW h \in Handlers, NEW k \in CircuitKeys, Breaker!Reject(h, k)
        PROVE  Breaker!TypeOK'
    BY <1>2 DEF Breaker!Reject, Breaker!Call
  <1>3. ASSUME NEW h \in Handlers, Breaker!RecordSuccess(h)
        PROVE  Breaker!TypeOK'
    BY <1>0, <1>3, BreakerAssumption DEF Breaker!RecordSuccess, Breaker!Call, Breaker!NoCall
  <1>4. ASSUME NEW h \in Handlers, Breaker!RecordFailure(h)
        PROVE  Breaker!TypeOK'
    <2>1. call[h].key \in CircuitKeys
      BY <1>4 DEF Breaker!RecordFailure, Breaker!Call, Breaker!NoCall
    <2>2. states' \in [CircuitKeys -> Breaker!State]
      BY <1>0, <1>4, <2>1 DEF Breaker!RecordFailure
    <2>3. streak' \in [CircuitKeys -> 0 .. FailureThreshold]
      BY <1>4, <2>1, BreakerAssumption DEF Breaker!RecordFailure
    <2> QED
      BY <1>4, <2>2, <2>3 DEF Breaker!RecordFailure
  <1>5. ASSUME NEW h \in Handlers, Breaker!Return(h)
        PROVE  Breaker!TypeOK'
    BY <1>5 DEF Breaker!Return
  <1>6. CASE Breaker!Tick
    BY <1>0, <1>6 DEF Breaker!Tick
  <1>7. CASE UNCHANGED Breaker!vars
    BY <1>7 DEF Breaker!vars
  <1> QED
    BY <1>1, <1>2, <1>3, <1>4, <1>5, <1>6, <1>7 DEF Breaker!Next

IInv == HandlersSound /\ Breaker!TypeOK

\* What a handler may be doing, candidate by candidate and attempt by attempt,
\* is an invariant of the gateway, and so are the breaker's types.
THEOREM Inductive == Spec => []IInv
  <1>1. Init => IInv
    BY InitSound, BreakerInit DEF Init, IInv
  <1>2. IInv /\ [Next]_vars => IInv'
    BY NextSound, BreakerMoves, BreakerTypeStep DEF IInv
  <1> QED
    BY <1>1, <1>2, PTL DEF Spec

\* Among any number of concurrent requests the gateway takes only steps that
\* the circuit breaker knows: it admits, rejects, reports and returns in the
\* breaker's order.  This is BreakerKept but for fairness.
THEOREM BreakerUsed == Spec => Breaker!Spec
  <1>1. Init => Breaker!Init
    BY DEF Init
  <1>2. IInv /\ [Next]_vars => [Breaker!Next]_(Breaker!vars)
    BY BreakerMoves DEF IInv
  <1> QED
    BY <1>1, <1>2, Inductive, PTL DEF Spec, Breaker!Spec

-----------------------------------------------------------------------------
(* What follows for clients, operators and upstreams.                      *)

LEMMA AnyHandler ==
    ASSUME HandlersSound, NEW h \in Handlers
    PROVE  \/ proc[h] = Idle /\ proc[h].pc = "idle"
           \/ proc[h] \in Handling /\ Sound(Durable, proc[h]) /\ proc[h].pc # "idle"
  <1>1. proc[h] \in Handling => proc[h].pc # "idle"
    BY HandlingFields DEF Phases
  <1> QED
    BY <1>1 DEF HandlersSound, Idle

\* The variables hold what GatewayProxy says they hold.
THEOREM TypeCorrect == Spec => []TypeOK
  <1>1. IInv => TypeOK
    <2> SUFFICES ASSUME IInv PROVE TypeOK
      OBVIOUS
    <2>1. ASSUME NEW h \in Handlers, proc[h].pc # "idle"
          PROVE  /\ proc[h].req \in Requests
                 /\ proc[h].ups \in Seq(Upstreams) /\ proc[h].ups # <<>>
                 /\ proc[h].index \in 1 .. Len(proc[h].ups)
                 /\ proc[h].attempt \in 1 .. AttemptLimit(proc[h])
                 /\ proc[h].tried \in Seq(Upstreams \X Outcomes)
                 /\ proc[h].status \in Statuses \cup {"none"}
      <3>1. proc[h] \in Handling /\ Placed(proc[h])
        BY <2>1, AnyHandler, StageFacts DEF IInv
      <3> QED
        BY <3>1, HandlingFields DEF Placed, Marks
    <2> QED
      BY <2>1 DEF IInv, TypeOK, HandlersSound
  <1> QED
    BY <1>1, Inductive, PTL

LEMMA AnswerCount ==
    ASSUME NEW p \in Handling, NEW durable, Sound(durable, p)
    PROVE  /\ Len(p.answers) <= 1
           /\ p.pc = "done" => Len(p.answers) = 1
  <1>1. Len(<<>>) = 0 /\ Len(<<200>>) = 1 /\ Len(<<400>>) = 1
    OBVIOUS
  <1>2. Begun(p) => Len(p.answers) = 0 \/ Len(p.answers) = 1
    BY <1>1, Zenon DEF Begun
  <1>3. Streaming(p) => Len(p.answers) = 1
    BY <1>1 DEF Streaming
  <1>4. /\ Unrouted(p) => Len(p.answers) = 1
        /\ Told(durable, p) => Len(p.answers) = 1
    <2>1. Unrouted(p) => Len(p.answers) = 1
      BY DEF Unrouted
    <2>2. Told(durable, p) => Len(p.answers) = 1
      BY DEF Told
    <2> QED
      BY <2>1, <2>2
  <1>5. Len(p.answers) = 0 \/ Len(p.answers) = 1
    BY <1>2, <1>3, <1>4, StageFacts, Zenon DEF Stage, Fresh, Trying
  <1>6. Len(p.answers) <= 1
    <2>1. CASE Len(p.answers) = 0
      BY <2>1
    <2>2. CASE Len(p.answers) = 1
      BY <2>2
    <2> QED
      BY <1>5, <2>1, <2>2
  <1>7. p.pc = "done" => Len(p.answers) = 1
    BY <1>4, StageFacts
  <1> QED
    BY <1>6, <1>7

\* However often a request is retried, turned away, cut off or left without
\* its log row, its client gets one response and no second one.
THEOREM AnsweredOnce == Spec => []OneAnswer
  <1>1. IInv => OneAnswer
    BY AnyHandler, AnswerCount DEF IInv, OneAnswer, Working, Done, Idle
  <1> QED
    BY <1>1, Inductive, PTL

\* The log row of a request that found a route and its answer say the same.
THEOREM LogAgrees == Spec => []AnswerLogged
  <1>1. ASSUME NEW p \in Handling, NEW durable, Sound(durable, p), p.pc = "done"
        PROVE  CASE p.answers = <<404>> -> p.rows = 0 /\ p.tried = <<>>
                 [] p.answers = <<500>> -> durable /\ ~p.streamed
                 [] OTHER -> p.rows = 1 \/ (durable /\ p.streamed)
    <2>1. Unrouted(p) \/ Told(durable, p)
      BY <1>1, StageFacts
    <2> QED
      BY <2>1 DEF Unrouted, Told
  <1>2. IInv => AnswerLogged
    <2> SUFFICES ASSUME IInv, NEW h \in Handlers, proc[h].pc = "done"
                 PROVE  CASE proc[h].answers = <<404>> -> proc[h].rows = 0 /\ proc[h].tried = <<>>
                          [] proc[h].answers = <<500>> -> Durable /\ ~proc[h].streamed
                          [] OTHER -> proc[h].rows = 1 \/ (Durable /\ proc[h].streamed)
      BY DEF AnswerLogged, Done
    <2> QED
      BY <1>1, AnyHandler DEF IInv
  <1> QED
    BY <1>2, Inductive, PTL

LEMMA TurnFacts ==
    ASSUME NEW r \in Nat, NEW n \in Nat, NEW m \in Nat, Turn(r, n) \in 1 .. m,
           NEW k \in 1 .. n
    PROVE  /\ Turn(r, k) \in 1 .. m
           /\ Turn(r, k) = 1 <=> k <= r + 1
           /\ \A c \in 2 .. m : Turn(r, k) = c <=> k = r + c
  BY DEF Turn

LEMMA AttemptsMade ==
    ASSUME NEW p \in Handling, NEW durable, Sound(durable, p)
    PROVE  /\ p.req.retries \in Nat /\ Len(p.tried) \in Nat /\ Len(p.ups) \in Nat
           /\ DOMAIN p.tried = 1 .. Len(p.tried) /\ DOMAIN p.ups = 1 .. Len(p.ups)
           /\ p.index \in 1 .. Len(p.ups)
           /\ \/ Len(p.tried) = 0
              \/ p.index = Turn(p.req.retries, Len(p.tried))
              \/ p.index = Turn(p.req.retries, Len(p.tried) + 1)
  <1>1. p.index \in 1 .. Len(p.ups)
    BY StageFacts DEF Placed
  <1>2. p.tried = <<>> => Len(p.tried) = 0
    BY EmptySeq
  <1>3. /\ Ended(p) => p.index = Turn(p.req.retries, Len(p.tried))
        /\ Trying(p) => p.index = Turn(p.req.retries, Len(p.tried) + 1)
    BY DEF Ended, Trying
  <1>4. \/ Len(p.tried) = 0
        \/ p.index = Turn(p.req.retries, Len(p.tried))
        \/ p.index = Turn(p.req.retries, Len(p.tried) + 1)
    <2>1. Stage(durable, p)
      BY StageFacts
    <2> QED
      BY <1>2, <1>3, <2>1, Zenon DEF Stage, Fresh, Streaming, Concluded, Unrouted
  <1> QED
    BY <1>1, <1>4, HandlingFields, LenProperties

LEMMA AttemptsBounded ==
    ASSUME NEW p \in Handling, NEW durable, Sound(durable, p)
    PROVE  /\ Len(p.tried) <= p.req.retries + Len(p.ups)
           /\ \A i \in DOMAIN p.tried :
                  p.tried[i][2] \notin OwnFailures \cup {"fault"} => i = Len(p.tried)
  <1>1. Len(p.tried) <= p.req.retries + Len(p.ups)
    BY AttemptsMade DEF Turn
  <1>2. InTurn(p) /\ DOMAIN p.tried = 1 .. Len(p.tried)
    BY StageFacts, AttemptsMade
  <1> QED
    BY <1>1, <1>2 DEF InTurn, Vain

\* An upstream that answered is the last one asked, and no request is sent
\* more often than its retries and its candidates allow.
THEOREM NeverReplayed == Spec => []NoReplay
  <1>1. IInv => NoReplay
    BY AttemptsBounded, AnyHandler DEF IInv, NoReplay, Working, Idle
  <1> QED
    BY <1>1, Inductive, PTL

LEMMA TurnsTaken ==
    ASSUME NEW p \in Handling, NEW durable, Sound(durable, p),
           p.index = Turn(p.req.retries, Len(p.tried)),
           NEW k \in 1 .. Len(p.tried)
    PROVE  /\ p.tried[k][1] = p.ups[Turn(p.req.retries, k)]
           /\ Turn(p.req.retries, k) \in 1 .. Len(p.ups)
           /\ Turn(p.req.retries, k) = 1 <=> k <= p.req.retries + 1
           /\ \A c \in 2 .. Len(p.ups) :
                  Turn(p.req.retries, k) = c <=> k = p.req.retries + c
  <1>1. p.tried[k][1] = p.ups[Turn(p.req.retries, k)]
    BY StageFacts DEF InTurn
  <1>2. PICK r \in Nat, n \in Nat, m \in Nat :
            r = p.req.retries /\ n = Len(p.tried) /\ m = Len(p.ups)
    BY AttemptsMade
  <1>3. Turn(r, n) \in 1 .. m
    BY <1>2, AttemptsMade
  <1>4. k \in 1 .. n
    BY <1>2
  <1>5. /\ Turn(r, k) \in 1 .. m
        /\ Turn(r, k) = 1 <=> k <= r + 1
        /\ \A c \in 2 .. m : Turn(r, k) = c <=> k = r + c
    BY <1>3, <1>4, TurnFacts
  <1> QED
    BY <1>1, <1>2, <1>5

\* How often the first candidate, and any other one, has failed.
LEMMA FailuresOfFirst ==
    ASSUME NEW p \in Handling, NEW durable, Sound(durable, p), IsInjective(p.ups),
           p.index = Turn(p.req.retries, Len(p.tried)),
           Len(p.tried) >= p.req.retries + 1,
           \A k \in 1 .. p.req.retries + 1 : p.tried[k][2] \in Failures
    PROVE  FailedOn(p, p.ups[1]) = p.req.retries + 1
  <1> DEFINE n == Len(p.tried)
             m == p.req.retries + 1
             F == {i \in DOMAIN p.tried : p.tried[i][1] = p.ups[1] /\ p.tried[i][2] \in Failures}
  <1>1. /\ m \in Nat \ {0} /\ n \in Nat /\ n >= m /\ DOMAIN p.tried = 1 .. n
        /\ Len(p.ups) \in Nat /\ DOMAIN p.ups = 1 .. Len(p.ups) /\ p.index \in 1 .. Len(p.ups)
    BY AttemptsMade
  <1>2. ASSUME NEW i \in 1 .. n
        PROVE  i \in F <=> i <= m
    <2>1. p.tried[i][1] = p.ups[Turn(p.req.retries, i)]
      BY TurnsTaken
    <2>2. /\ Turn(p.req.retries, i) \in 1 .. Len(p.ups)
          /\ Turn(p.req.retries, i) = 1 <=> i <= m
      BY TurnsTaken
    <2>3. 1 \in 1 .. Len(p.ups)
      BY <1>1
    <2>4. p.tried[i][1] = p.ups[1] <=> i <= m
      BY <1>1, <2>1, <2>2, <2>3 DEF IsInjective
    <2>5. i <= m => i \in 1 .. m
      BY <1>1
    <2> QED
      BY <1>1, <2>4, <2>5
  <1>3. F \subseteq 1 .. n
    BY <1>1
  <1>4. F = 1 .. m
    <2>1. \A i \in 1 .. n : i \in F <=> i <= m
      BY <1>2
    <2> HIDE DEF F, n, m
    <2>2. \A i \in 1 .. m : i \in 1 .. n /\ i <= m
      BY <1>1
    <2>3. \A i \in 1 .. n : i <= m => i \in 1 .. m
      BY <1>1
    <2> QED
      BY <1>3, <2>1, <2>2, <2>3, Zenon
  <1>5. Cardinality(1 .. m) = m
    <2> HIDE DEF m
    <2> QED
      BY <1>1, FS_Interval
  <1> QED
    BY <1>4, <1>5 DEF FailedOn

LEMMA FailuresOfOther ==
    ASSUME NEW p \in Handling, NEW durable, Sound(durable, p), IsInjective(p.ups),
           p.index = Turn(p.req.retries, Len(p.tried)),
           NEW c \in 2 .. Len(p.ups), Len(p.tried) >= p.req.retries + c,
           p.tried[p.req.retries + c][2] \in Failures
    PROVE  FailedOn(p, p.ups[c]) = 1
  <1> DEFINE n == Len(p.tried)
             m == p.req.retries + c
             F == {i \in DOMAIN p.tried : p.tried[i][1] = p.ups[c] /\ p.tried[i][2] \in Failures}
  <1>1. /\ m \in 1 .. n /\ n \in Nat /\ DOMAIN p.tried = 1 .. n
        /\ Len(p.ups) \in Nat /\ DOMAIN p.ups = 1 .. Len(p.ups)
    BY AttemptsMade
  <1>2. ASSUME NEW i \in 1 .. n
        PROVE  i \in F <=> i = m
    <2>1. p.tried[i][1] = p.ups[Turn(p.req.retries, i)]
      BY TurnsTaken
    <2>2. /\ Turn(p.req.retries, i) \in 1 .. Len(p.ups)
          /\ Turn(p.req.retries, i) = c <=> i = m
      BY TurnsTaken
    <2>3. c \in 1 .. Len(p.ups)
      BY <1>1
    <2>4. p.tried[i][1] = p.ups[c] <=> i = m
      BY <1>1, <2>1, <2>2, <2>3 DEF IsInjective
    <2> QED
      BY <1>1, <2>4
  <1>3. F = {m}
    <2>1. F \subseteq 1 .. n
      BY <1>1
    <2> HIDE DEF F, n, m
    <2> QED
      BY <1>1, <1>2, <2>1
  <1> QED
    BY <1>3, FS_Singleton DEF FailedOn

LEMMA LastAttempt ==
    ASSUME NEW p \in Handling, NEW durable, Sound(durable, p), Ended(p), IsInjective(p.ups)
    PROVE  /\ Last(p.tried) = <<p.ups[p.index], Outcome(p)>>
           /\ Outcome(p) \in Outcomes
           /\ p.ups[p.index] = p.ups[1] <=> p.index = 1
           /\ Len(p.tried) \in Nat \ {0} /\ p.index \in 1 .. Len(p.ups)
           /\ p.index = Turn(p.req.retries, Len(p.tried))
           /\ \A k \in 1 .. Len(p.tried) : k # Len(p.tried) => p.tried[k][2] \in Failures
  <1>1. /\ Len(p.tried) \in Nat \ {0} /\ p.index \in 1 .. Len(p.ups)
        /\ p.index = Turn(p.req.retries, Len(p.tried))
        /\ Len(p.ups) \in Nat /\ DOMAIN p.ups = 1 .. Len(p.ups)
    BY AttemptsMade DEF Ended
  <1>2. p.tried[Len(p.tried)] \in Upstreams \X Outcomes
    BY <1>1, HandlingFields, ElementOfSeq
  <1>3. p.tried[Len(p.tried)][1] = p.ups[p.index]
    BY <1>1, StageFacts DEF InTurn
  <1>4. /\ Last(p.tried) = <<p.ups[p.index], Outcome(p)>>
        /\ Outcome(p) \in Outcomes
    BY <1>2, <1>3 DEF Outcome, Last
  <1>5. p.ups[p.index] = p.ups[1] <=> p.index = 1
    BY <1>1 DEF IsInjective
  <1>6. \A k \in 1 .. Len(p.tried) : k # Len(p.tried) => p.tried[k][2] \in Failures
    BY StageFacts DEF InTurn, Vain, Failures, UpstreamFailures, OwnFailures
  <1> QED
    BY <1>1, <1>4, <1>5, <1>6

\* All tries in vain are all the tries there are.
LEMMA AllInVain ==
    ASSUME NEW p \in Handling, NEW durable, Sound(durable, p), Ended(p), IsInjective(p.ups),
           Outcome(p) \in Failures, p.index = Len(p.ups),
           Len(p.tried) = p.req.retries + p.index
    PROVE  Exhausted(p)
  <1>1. /\ p.index = Turn(p.req.retries, Len(p.tried))
        /\ p.req.retries \in Nat /\ Len(p.tried) \in Nat /\ p.index \in 1 .. Len(p.ups)
        /\ Len(p.ups) \in Nat /\ DOMAIN p.ups = 1 .. Len(p.ups)
    BY LastAttempt, AttemptsMade
  <1>2. \A k \in 1 .. Len(p.tried) : p.tried[k][2] \in Failures
    BY LastAttempt DEF Outcome, Last
  <1>3. FailedOn(p, p.ups[1]) = p.req.retries + 1
    <2>1. /\ Len(p.tried) >= p.req.retries + 1
          /\ \A k \in 1 .. p.req.retries + 1 : k \in 1 .. Len(p.tried)
      BY <1>1
    <2> QED
      BY <1>1, <1>2, <2>1, FailuresOfFirst
  <1>4. ASSUME NEW c \in 2 .. Len(p.ups)
        PROVE  FailedOn(p, p.ups[c]) = 1
    <2>1. Len(p.tried) >= p.req.retries + c /\ p.req.retries + c \in 1 .. Len(p.tried)
      BY <1>1
    <2> QED
      BY <1>1, <1>2, <2>1, FailuresOfOther
  <1>5. \A c \in 1 .. Len(p.ups) : c # 1 => c \in 2 .. Len(p.ups)
    BY <1>1
  <1> QED
    BY <1>1, <1>3, <1>4, <1>5 DEF Exhausted

\* An answer of another candidate than the first.
LEMMA FirstInVain ==
    ASSUME NEW p \in Handling, NEW durable, Sound(durable, p), Ended(p), IsInjective(p.ups),
           p.index > 1
    PROVE  FailedOn(p, p.ups[1]) = p.req.retries + 1
  <1>1. /\ p.index = Turn(p.req.retries, Len(p.tried))
        /\ p.req.retries \in Nat /\ Len(p.tried) \in Nat /\ p.index \in Nat
        /\ \A k \in 1 .. Len(p.tried) : k # Len(p.tried) => p.tried[k][2] \in Failures
    BY LastAttempt, AttemptsMade, HandlingFields
  <1>2. Len(p.tried) >= p.req.retries + 2
    BY <1>1 DEF Turn
  <1>3. \A k \in 1 .. p.req.retries + 1 : k \in 1 .. Len(p.tried) /\ k # Len(p.tried)
    BY <1>1, <1>2
  <1>4. \A k \in 1 .. p.req.retries + 1 : p.tried[k][2] \in Failures
    BY <1>1, <1>3
  <1>5. Len(p.tried) >= p.req.retries + 1
    BY <1>1, <1>2
  <1> QED
    BY <1>1, <1>4, <1>5, FailuresOfFirst

\* What a row may say of the attempts made.
RowTells(p) ==
    CASE p.status \in {"RateLimited", "CircuitOpen"} -> p.tried = <<>>
      [] p.status = "Success" -> Last(p.tried) = <<p.ups[1], "ok">>
      [] p.status = "Fallback" ->
             /\ Last(p.tried)[1] # p.ups[1]
             /\ Last(p.tried)[2] \in Answers
             /\ FailedOn(p, p.ups[1]) = p.req.retries + 1
      [] p.status = "Failed" ->
             \/ Last(p.tried) = <<p.ups[1], "refused">>
             \/ p.streamed /\ Last(p.tried)[2] \in Failures
             \/ Exhausted(p)

LEMMA EndedTells ==
    ASSUME NEW p \in Handling, NEW durable, Sound(durable, p), Ended(p), IsInjective(p.ups),
           p.status = LogStatus(p)
    PROVE  RowTells(p)
  <1>1. /\ Last(p.tried) = <<p.ups[p.index], Outcome(p)>>
        /\ Last(p.tried)[1] = p.ups[p.index] /\ Last(p.tried)[2] = Outcome(p)
        /\ p.index \in 1 .. Len(p.ups) /\ p.index \in Nat
        /\ p.ups[p.index] = p.ups[1] <=> p.index = 1
    BY LastAttempt, HandlingFields
  <1>2. \/ Outcome(p) \in Failures
        \/ Outcome(p) = "ok"
        \/ Outcome(p) = "refused"
    BY LastAttempt DEF Outcomes, Answers
  <1>3. p.index = 1 \/ p.index > 1
    BY <1>1
  <1>4. CASE Outcome(p) \in Failures
    <2>1. p.status = "Failed"
      BY <1>4 DEF LogStatus, Failed
    <2>2. p.streamed \/ (p.index = Len(p.ups) /\ Len(p.tried) = p.req.retries + p.index)
      BY <1>4 DEF Ended, Failures, UpstreamFailures, OwnFailures, Answers
    <2>3. (p.streamed /\ Last(p.tried)[2] \in Failures) \/ Exhausted(p)
      BY <1>1, <1>4, <2>2, AllInVain
    <2> QED
      BY <2>1, <2>3 DEF RowTells
  <1>5. CASE Outcome(p) \notin Failures /\ p.index > 1
    <2>1. p.status = "Fallback"
      BY <1>5, <1>1 DEF LogStatus, Failed
    <2>2. Last(p.tried)[1] # p.ups[1] /\ Last(p.tried)[2] \in Answers
      BY <1>1, <1>2, <1>5 DEF Answers
    <2>3. FailedOn(p, p.ups[1]) = p.req.retries + 1
      BY <1>5, FirstInVain
    <2> QED
      BY <2>1, <2>2, <2>3 DEF RowTells
  <1>6. CASE Outcome(p) = "ok" /\ p.index = 1
    <2>1. p.status = "Success"
      BY <1>6 DEF LogStatus, Failed, Failures, UpstreamFailures, OwnFailures
    <2> QED
      BY <1>1, <1>6, <2>1 DEF RowTells
  <1>7. CASE Outcome(p) = "refused" /\ p.index = 1
    <2>1. p.status = "Failed"
      BY <1>7 DEF LogStatus, Failed, Failures, UpstreamFailures, OwnFailures
    <2> QED
      BY <1>1, <1>7, <2>1 DEF RowTells
  <1> QED
    BY <1>2, <1>3, <1>4, <1>5, <1>6, <1>7

\* A row of the request log says what became of the request.
THEOREM LogsTruthfully == Spec => []LogTruthful
  <1>1. ASSUME NEW p \in Handling, NEW durable, Sound(durable, p), p.pc = "done", p.rows > 0
        PROVE  RowTells(p)
    <2>1. ~Unrouted(p)
      BY <1>1 DEF Unrouted
    <2>2. Concluded(p)
      BY <1>1, <2>1, StageFacts
    <2>3. CASE p.status \in Turned /\ p.tried = <<>>
      BY <2>3 DEF Turned, RowTells
    <2>4. CASE p.status \notin Turned /\ Ended(p) /\ p.status = LogStatus(p)
      BY <1>1, <2>2, <2>4, EndedTells DEF Concluded
    <2> QED
      BY <2>2, <2>3, <2>4 DEF Concluded
  <1>2. IInv => LogTruthful
    <2> SUFFICES ASSUME IInv, NEW h \in Handlers, proc[h].pc = "done", proc[h].rows > 0
                 PROVE  RowTells(proc[h])
      BY DEF LogTruthful, Done, RowTells
    <2> QED
      BY <1>1, AnyHandler DEF IInv
  <1> QED
    BY <1>2, Inductive, PTL
=============================================================================
