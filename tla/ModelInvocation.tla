-------------------------- MODULE ModelInvocation --------------------------
(***************************************************************************)
(* Model routes of the gateway: their drafts and publication, and the      *)
(* handlers of POST /api/gateway/llm/invoke and /llm/stream (llm.go),      *)
(* which try the primary model, then the fallback, and stream an answer    *)
(* event by event after its usage has been recorded.                       *)
(***************************************************************************)
EXTENDS InvocationRecorder

CONSTANTS
    ModelForms, \* what administrators save: [id, alias, primary, fallback], a
                \* model that is only spaces as ""
    ModelSeeds, \* the model routes there are to begin with
    FoldModel,  \* a model's name without regard to case
    Down,       \* the models whose provider is unavailable
    Chunks      \* deltas a streamed answer takes

ASSUME ChunksAssumption == Chunks \in Nat \ {0}
ASSUME ModelsAssumption ==
    AreForms(ModelForms) /\ IsRegistry(ModelSeeds, {"Draft", "Active"})

VARIABLE models   \* model routes, the newest first

\* Postgres has a unique index on the alias, the memory store has none.
AliasFree(f) ==
    Durable => \A i \in DOMAIN models : models[i].alias = f.alias => models[i].id = f.id

ModelInit == models = ModelSeeds

-----------------------------------------------------------------------------
CreateModelRoute(f) ==
    /\ f.id \notin Ids(models)
    /\ AliasFree(f)
    /\ models' = <<WithStatus(f, "Draft")>> \o models
    /\ Edit /\ UNCHANGED approved

\* Any edit withdraws the route until it is published again. Unlike a new
\* route's, its models are trimmed, and given a default if that leaves nothing.
UpdateModelRoute(f) ==
    /\ f.id \in Ids(models)
    /\ f.primary # "" /\ f.fallback # ""
    /\ AliasFree(f)
    /\ models' = SetTo(models, WithStatus(f, "Draft"))
    /\ Edit /\ UNCHANGED approved

PublishModelRoute(id) ==
    LET m == [At(models, id) EXCEPT !.status = "Active"]
    IN  /\ models' = SetTo(models, m)
        /\ approved' = approved \cup {m}
        /\ Edit

-----------------------------------------------------------------------------
IsModelCall(q) == q.kind \in {"llm", "stream"}

Active(alias) ==
    {i \in DOMAIN models : models[i].alias = alias /\ models[i].status = "Active"}

\* findActiveModelRoute: the first active route of that alias.
FindModel(h, q) ==
    /\ proc[h].pc = "idle" /\ IsModelCall(q)
    /\ \E i \in First(Active(q.alias)) :
           Move(h, [Begun(q, models[i]) EXCEPT !.pc = "trying"])

ModelNotFound(h, q) ==
    /\ proc[h].pc = "idle" /\ IsModelCall(q)
    /\ Active(q.alias) = {}
    /\ Refused(h, q, 404)

ModelListFails(h, q) ==
    /\ Durable
    /\ proc[h].pc = "idle" /\ IsModelCall(q)
    /\ Refused(h, q, 500)

\* modelCandidates: without blank ones, and without a fallback to the same.
Candidates(m) ==
    LET only(cond, model) == IF cond THEN <<model>> ELSE <<>>
    IN  only(m.primary # "", m.primary)
        \o only(m.fallback # "" /\ FoldModel[m.fallback] # FoldModel[m.primary], m.fallback)

Answers(p, model) == ~p.gone /\ model \notin Down

\* One pass of executeLLMInvocation's loop over the candidates.
TryModel_Forgets(h) ==
    LET p == proc[h]
        c == Candidates(p.entry)
        n == Len(p.tried) + 1
        q == [p EXCEPT !.tried = Append(@, Answers(p, c[n]))]
    IN  /\ p.pc = "trying" /\ c # <<>>
        /\ Move(h, IF Answers(p, c[n]) THEN Ran(q, "Success")
                   ELSE IF n < Len(c) THEN q
                   ELSE Ran(q, "Failed"))
TryModel(h) ==
    LET p == proc[h]
        c == Candidates(p.entry)
        n == Len(p.tried) + 1
        q == [p EXCEPT !.tried = Append(@, Answers(p, c[n]))]
    IN  /\ p.pc = "trying" /\ c # <<>>
        /\ Move(h, IF Answers(p, c[n]) THEN Ran(q, IF n = 1 THEN "Success" ELSE "Fallback")
                   ELSE IF n < Len(c) THEN q
                   ELSE Ran(q, "Failed"))

\* A route without a model to try.
NothingToTry(h) ==
    /\ proc[h].pc = "trying"
    /\ Candidates(proc[h].entry) = <<>>
    /\ Move(h, Ran(proc[h], "Failed"))

\* meta, the deltas, done: written and flushed one after the other.
Events == Chunks + 2

Streams(p) == p.req.kind = "stream" /\ p.status # "Failed"
Sent_OneMore(p) ==
    [p EXCEPT !.sent = @ + 1, !.code = 200, !.pc = IF p.sent = Events THEN "done" ELSE @]
Sent(p) ==
    [p EXCEPT !.sent = @ + 1, !.code = 200, !.pc = IF p.sent + 1 = Events THEN "done" ELSE @]

SendEvent_BeforeRecord(h) ==
    /\ proc[h].pc \in {"executed", "recorded"} /\ Streams(proc[h])
    /\ Move(h, Sent(proc[h]))
SendEvent(h) ==
    /\ proc[h].pc = "recorded" /\ Streams(proc[h])
    /\ Move(h, Sent(proc[h]))

\* Writing to a client that has gone fails sooner or later.
StreamBreaks(h) ==
    /\ proc[h].pc = "recorded" /\ Streams(proc[h])
    /\ proc[h].gone
    /\ Move(h, [proc[h] EXCEPT !.pc = "done"])

ModelEdits ==
    \/ \E f \in ModelForms : CreateModelRoute(f) \/ UpdateModelRoute(f)
    \/ \E id \in Ids(models) : PublishModelRoute(id)

ModelSteps ==
    /\ \/ \E h \in Handlers, q \in Requests :
              FindModel(h, q) \/ ModelNotFound(h, q) \/ ModelListFails(h, q)
       \/ \E h \in Handlers : TryModel(h) \/ NothingToTry(h) \/ SendEvent(h) \/ StreamBreaks(h)
    /\ UNCHANGED models
=============================================================================
