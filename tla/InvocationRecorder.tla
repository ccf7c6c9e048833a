------------------------- MODULE InvocationRecorder -------------------------
(***************************************************************************)
(* What the handlers of POST /api/gateway/skills/invoke, /llm/invoke and   *)
(* /llm/stream share: an invocation runs against an entry of a registry,   *)
(* is then recorded (request log, usage record and audit event together)   *)
(* and only then answered.  SkillInvocation and ModelInvocation say how it *)
(* gets to the end of its run.                                             *)
(***************************************************************************)
EXTENDS Integers, FiniteSets, Sequences

CONSTANTS
    Handlers,   \* request goroutines
    Recorders,  \* the recorders deployed: "postgres", "memory"
    Requests    \* the requests clients send, records with a field `kind`

ASSUME RecordersAssumption == Recorders \subseteq {"postgres", "memory"}
ASSUME KindsAssumption == \A q \in Requests : q.kind \in {"skill", "llm", "stream"}

\* What an administrator saves has an id and no status; a registry to begin
\* with is a list of entries, which have both and differ in their ids.
AreForms(forms) == \A f \in forms : "id" \in DOMAIN f /\ "status" \notin DOMAIN f
IsRegistry(items, statuses) ==
    /\ items \in Seq({items[i] : i \in DOMAIN items})
    /\ \A i \in DOMAIN items :
           {"id", "status"} \subseteq DOMAIN items[i] /\ items[i].status \in statuses
    /\ \A i, j \in DOMAIN items : items[i].id = items[j].id => i = j

VARIABLES
    recorder,  \* repositories and recorder, chosen when the process starts
    proc,      \* each handler and its local variables
    approved   \* history: the entries as they have been when published

Durable == recorder = "postgres"

-----------------------------------------------------------------------------
\* A registry is a sequence of entries, which differ in their ids.
Ids(items) == {items[i].id : i \in DOMAIN items}
At(items, id) == items[CHOOSE i \in DOMAIN items : items[i].id = id]
SetTo(items, item) ==
    [i \in DOMAIN items |-> IF items[i].id = item.id THEN item ELSE items[i]]
First(indices) == {i \in indices : \A j \in indices : i <= j}
WithStatus(form, status) ==
    [x \in DOMAIN form \cup {"status"} |-> IF x = "status" THEN status ELSE form[x]]

\* Edits do not touch the invocations under way.
Edit == UNCHANGED <<recorder, proc>>

Idle == [pc |-> "idle", gone |-> FALSE]

\* An invocation and what it has done: the entry it found, the schema that
\* judged its input, the targets tried with their outcomes, the status it
\* ran to, the rows recorded, the answer's code and the events streamed.
Begun(q, entry) ==
    [pc |-> "found", gone |-> FALSE, req |-> q, entry |-> entry,
     judge |-> {}, tried |-> <<>>, status |-> "none",
     log |-> <<>>, usage |-> 0, code |-> 0, sent |-> 0]

Answered(p, code) == [p EXCEPT !.pc = "done", !.code = code]
Ran(p, status) == [p EXCEPT !.pc = "executed", !.status = status]

Move(h, p) ==
    /\ proc' = [proc EXCEPT ![h] = p]
    /\ UNCHANGED <<recorder, approved>>

\* A request that never gets an entry: nothing is recorded.
Refused(h, q, code) == Move(h, Answered(Begun(q, <<>>), code))

-----------------------------------------------------------------------------
\* A run that was not in vain is charged.
Rows(p) ==
    [p EXCEPT !.log = Append(@, p.status),
              !.usage = IF p.status = "Failed" THEN @ ELSE @ + 1]

\* All rows are one step of the memory store or one transaction, which runs
\* under the request's context.
Record(h) ==
    /\ proc[h].pc = "executed"
    /\ ~(Durable /\ proc[h].gone)
    /\ Move(h, [Rows(proc[h]) EXCEPT !.pc = "recorded"])

\* The transaction fails, or only the answer of its commit is lost.
RecordFails(h) ==
    /\ Durable
    /\ proc[h].pc = "executed"
    /\ \E p \in {proc[h], Rows(proc[h])} : Move(h, Answered(p, 500))

Answer(h) ==
    LET p == proc[h]
    IN  /\ p.pc = "recorded"
        /\ p.req.kind = "stream" => p.status = "Failed"
        /\ Move(h, Answered(p, IF p.status = "Failed" THEN 502 ELSE 200))

Finish(h) ==
    /\ proc[h].pc = "done"
    /\ Move(h, Idle)

Disconnect(h) ==
    /\ proc[h].pc \notin {"idle", "done"}
    /\ ~proc[h].gone
    /\ Move(h, [proc[h] EXCEPT !.gone = TRUE])

RecorderSteps ==
    \E h \in Handlers :
        Record(h) \/ RecordFails(h) \/ Answer(h) \/ Finish(h) \/ Disconnect(h)
=============================================================================
