---------------------------- MODULE Invocations ----------------------------
(***************************************************************************)
(* The skill and the model gateway of one process, their registries edited *)
(* by administrators while invocations run against them.                   *)
(***************************************************************************)
EXTENDS SkillInvocation, ModelInvocation

vars == <<recorder, proc, approved, skills, schemas, models>>

Listed(items) == {items[i] : i \in DOMAIN items}

InvocationsInit ==
    /\ recorder \in Recorders
    /\ proc = [h \in Handlers |-> Idle]
    /\ SkillInit
    /\ ModelInit
    /\ approved = {e \in Listed(skills) \cup Listed(models) : e.status # "Draft"}

Next ==
    \/ (SkillEdits \/ SkillSteps) /\ UNCHANGED models
    \/ (ModelEdits \/ ModelSteps) /\ UNCHANGED skillVars
    \/ RecorderSteps /\ UNCHANGED <<skills, schemas, models>>

Spec == InvocationsInit /\ [][Next]_vars

-----------------------------------------------------------------------------
Statuses == {"Success", "Fallback", "Failed"}

IsProc(p) ==
    /\ p.pc \in {"idle", "found", "valid", "trying", "executed", "recorded", "done"}
    /\ p.gone \in BOOLEAN
    /\ p.pc # "idle" =>
          /\ p.req \in Requests
          /\ p.status \in Statuses \cup {"none"}
          /\ p.tried \in {<<>>, <<TRUE>>, <<FALSE>>, <<FALSE, FALSE>>, <<FALSE, TRUE>>}
          /\ p.log \in {<<>>} \cup {<<s>> : s \in Statuses}
          /\ p.usage \in 0..1
          /\ p.code \in {0, 200, 400, 404, 500, 502}
          /\ p.sent \in 0..Events

\* Every variable has its type, and ids are unique in each registry.
TypeOK ==
    /\ recorder \in Recorders
    /\ \A h \in Handlers : IsProc(proc[h])
    /\ \A items \in {skills, schemas, models} :
           Cardinality(Ids(items)) = Len(items)
    /\ \A b \in Listed(skills) \cup Listed(schemas) : b.status \in {"Draft", "Published"}
    /\ \A m \in Listed(models) : m.status \in {"Draft", "Active"}

Busy(h) == proc[h].pc # "idle"

\* What a client is told and what is charged agree: a client that has been
\* answered 200, if only with the first event of a stream, is charged once
\* under the status of its run; one that is refused leaves no row, one that
\* is told 502 a log row and no usage.  Only a 500 leaves it open
\* (skillInvokeHandler, llmInvokeHandler, llmStreamHandler, Record*Invocation).
AnsweredAsCharged ==
    \A h \in Handlers :
        LET p == proc[h]
        IN  Busy(h) =>
              /\ p.code = 200 => p.log = <<p.status>> /\ p.status # "Failed" /\ p.usage = 1
              /\ p.code = 502 => p.log = <<"Failed">> /\ p.usage = 0
              /\ p.code \in {400, 404} => p.log = <<>> /\ p.usage = 0 /\ p.tried = <<>>
              /\ p.sent > 0 => p.usage = 1

\* A log row says truly how the run ended: Success at the first target,
\* Fallback at the second after the first failed, Failed after all of them,
\* be there none (executeLLMInvocation, executeSkillInvocation).
RunAsLogged ==
    \A h \in Handlers :
        LET p == proc[h]
            targets == IF IsModelCall(p.req) THEN Len(Candidates(p.entry)) ELSE 1
        IN  Busy(h) /\ p.log # <<>> =>
              /\ p.log = <<"Success">> <=> p.tried = <<TRUE>>
              /\ p.log = <<"Fallback">> <=> p.tried = <<FALSE, TRUE>>
              /\ p.log = <<"Failed">> <=>
                    Len(p.tried) = targets /\ \A i \in DOMAIN p.tried : ~p.tried[i]

\* An invocation never runs against what nobody published: whatever edits
\* happen before and while it runs, the binding or route it uses is, field by
\* field, one that has been published (findPublishedSkill,
\* findActiveModelRoute, Update*, Publish*).
RunsAsApproved ==
    \A h \in Handlers :
        Busy(h) /\ proc[h].entry # <<>> => proc[h].entry \in approved
=============================================================================
