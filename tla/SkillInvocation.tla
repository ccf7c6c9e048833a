-------------------------- MODULE SkillInvocation --------------------------
(***************************************************************************)
(* Skills of the gateway: bindings and input schemas, their drafts and     *)
(* publication (internal/gateway/routes.go and the repositories), and      *)
(* POST /api/gateway/skills/invoke (skill.go, skill_schema.go), which      *)
(* reads the binding, then the schema its version names, each in a query   *)
(* of its own, while administrators edit both.                             *)
(*                                                                         *)
(* A schema is the set of inputs it accepts.  There is no operation that   *)
(* creates one.                                                            *)
(***************************************************************************)
EXTENDS InvocationRecorder

CONSTANTS
    Fold,        \* a skill name without regard to case
    SkillForms,  \* what administrators save: [id, name, version]
    SchemaForms, \* [id, name, version, accepts]
    SkillSeeds,  \* the bindings there are to begin with
    SchemaSeeds  \* the schemas there are

ASSUME SkillsAssumption ==
    /\ AreForms(SkillForms) /\ AreForms(SchemaForms)
    /\ IsRegistry(SkillSeeds, {"Draft", "Published"})
    /\ IsRegistry(SchemaSeeds, {"Draft", "Published"})

VARIABLES
    skills,   \* skill bindings, the newest first
    schemas   \* skill schemas

skillVars == <<skills, schemas>>

-----------------------------------------------------------------------------
\* The unique indexes, which the memory store has not.
NameFree(f) ==
    Durable => \A i \in DOMAIN skills : skills[i].name = f.name => skills[i].id = f.id
VersionFree(f) ==
    Durable => \A i \in DOMAIN schemas :
        schemas[i].name = f.name /\ schemas[i].version = f.version => schemas[i].id = f.id

SkillInit == skills = SkillSeeds /\ schemas = SchemaSeeds

-----------------------------------------------------------------------------
CreateSkillBinding(f) ==
    /\ f.id \notin Ids(skills)
    /\ NameFree(f)
    /\ skills' = <<WithStatus(f, "Draft")>> \o skills
    /\ Edit /\ UNCHANGED <<approved, schemas>>

\* Any edit withdraws the binding until it is published again.
UpdateSkillBinding_StaysPublished(f) ==
    /\ f.id \in Ids(skills)
    /\ NameFree(f)
    /\ skills' = SetTo(skills, WithStatus(f, At(skills, f.id).status))
    /\ Edit /\ UNCHANGED <<approved, schemas>>
UpdateSkillBinding(f) ==
    /\ f.id \in Ids(skills)
    /\ NameFree(f)
    /\ skills' = SetTo(skills, WithStatus(f, "Draft"))
    /\ Edit /\ UNCHANGED <<approved, schemas>>

PublishSkillBinding(id) ==
    LET b == [At(skills, id) EXCEPT !.status = "Published"]
    IN  /\ skills' = SetTo(skills, b)
        /\ approved' = approved \cup {b}
        /\ Edit /\ UNCHANGED schemas

UpdateSkillSchema(f) ==
    /\ f.id \in Ids(schemas)
    /\ VersionFree(f)
    /\ schemas' = SetTo(schemas, WithStatus(f, "Draft"))
    /\ Edit /\ UNCHANGED <<approved, skills>>

PublishSkillSchema(id) ==
    /\ schemas' = SetTo(schemas, [At(schemas, id) EXCEPT !.status = "Published"])
    /\ Edit /\ UNCHANGED <<approved, skills>>

-----------------------------------------------------------------------------
Published(name) ==
    {i \in DOMAIN skills : skills[i].name = name /\ skills[i].status = "Published"}

\* findPublishedSkill: the first published binding of that name.
FindSkill(h, q) ==
    /\ proc[h].pc = "idle" /\ q.kind = "skill"
    /\ \E i \in First(Published(q.name)) : Move(h, Begun(q, skills[i]))

SkillNotFound(h, q) ==
    /\ proc[h].pc = "idle" /\ q.kind = "skill"
    /\ Published(q.name) = {}
    /\ Refused(h, q, 404)

SkillListFails(h, q) ==
    /\ Durable
    /\ proc[h].pc = "idle" /\ q.kind = "skill"
    /\ Refused(h, q, 500)

\* FindSkillSchema: name without regard to case, exact version, any status.
\* Of several matches the memory store takes the first, Postgres any.
SchemasOf(b) ==
    {i \in DOMAIN schemas :
        Fold[schemas[i].name] = Fold[b.name] /\ schemas[i].version = b.version}
Judges(b) ==
    LET found == SchemasOf(b)
    IN  IF found = {} THEN {{}}
        ELSE {{schemas[i]} : i \in IF Durable THEN found ELSE First(found)}

CanQuery(p) == ~(Durable /\ p.gone)

\* validateSkillInput: without a schema every input will do.
Accepts(judge, input) == \A s \in judge : input \in s.accepts

AcceptInput(h) ==
    LET p == proc[h]
    IN  /\ p.pc = "found" /\ p.req.kind = "skill"
        /\ CanQuery(p)
        /\ \E judge \in Judges(p.entry) :
               /\ Accepts(judge, p.req.input)
               /\ Move(h, [p EXCEPT !.pc = "valid", !.judge = judge])

RejectInput(h) ==
    LET p == proc[h]
    IN  /\ p.pc = "found" /\ p.req.kind = "skill"
        /\ CanQuery(p)
        /\ \E judge \in Judges(p.entry) :
               /\ ~Accepts(judge, p.req.input)
               /\ Move(h, Answered([p EXCEPT !.judge = judge], 400))

SchemaQueryFails(h) ==
    /\ Durable
    /\ proc[h].pc = "found" /\ proc[h].req.kind = "skill"
    /\ Move(h, Answered(proc[h], 500))

\* The adapter, mock or HTTP: its error, a status from 400 on, a timeout and
\* a client that went away all end as Failed.
CallSkill(h) ==
    LET p == proc[h]
    IN  /\ p.pc = "valid"
        /\ \/ ~p.gone /\ Move(h, Ran([p EXCEPT !.tried = <<TRUE>>], "Success"))
           \/ Move(h, Ran([p EXCEPT !.tried = <<FALSE>>], "Failed"))

SkillEdits ==
    \/ \E f \in SkillForms : CreateSkillBinding(f) \/ UpdateSkillBinding(f)
    \/ \E id \in Ids(skills) : PublishSkillBinding(id)
    \/ \E f \in SchemaForms : UpdateSkillSchema(f)
    \/ \E id \in Ids(schemas) : PublishSkillSchema(id)

SkillSteps ==
    /\ \/ \E h \in Handlers, q \in Requests :
              FindSkill(h, q) \/ SkillNotFound(h, q) \/ SkillListFails(h, q)
       \/ \E h \in Handlers :
              AcceptInput(h) \/ RejectInput(h) \/ SchemaQueryFails(h) \/ CallSkill(h)
    /\ UNCHANGED skillVars

-----------------------------------------------------------------------------
\* A schema's update is a draft until it is published: inputs are judged by
\* published schemas (skill.go, FindSkillSchema).
JudgedAsPublished ==
    \A h \in Handlers :
        LET p == proc[h]
        IN  p.pc # "idle" => \A s \in p.judge : s.status = "Published"
=============================================================================
