------------------------- MODULE InvocationsProofs -------------------------
(***************************************************************************)
(* Proofs about skill and model invocations, for any number of handlers,   *)
(* any registries, edits and requests: what the answer, the log and the    *)
(* usage records say of a run, and that it ran against a published entry.  *)
(***************************************************************************)
EXTENDS Invocations, FiniteSetTheorems, SequenceTheorems, TLAPS

-----------------------------------------------------------------------------
(* What is true of an invocation at each point of its way.                 *)

Untold(p) == p.log = <<>> /\ p.usage = 0 /\ p.code = 0 /\ p.sent = 0

Unrun(p) == Untold(p) /\ p.status = "none"

\* How many targets an invocation may try.
Targets(p) == IF IsModelCall(p.req) THEN Len(Candidates(p.entry)) ELSE 1

\* What the tries of a run come to.
Ends(tried, targets, status) ==
    \/ status = "Success" /\ tried = <<TRUE>>
    \/ status = "Fallback" /\ tried = <<FALSE, TRUE>>
    \/ status = "Failed" /\ tried = <<>> /\ targets = 0
    \/ status = "Failed" /\ tried = <<FALSE>> /\ targets = 1
    \/ status = "Failed" /\ tried = <<FALSE, FALSE>> /\ targets = 2

RunEnded(p) == Ends(p.tried, Targets(p), p.status)

Charged(p) ==
    p.log = <<p.status>> /\ p.usage = IF p.status = "Failed" THEN 0 ELSE 1

Unrecorded(p) == p.log = <<>> /\ p.usage = 0

\* An invocation that did not come to run.
TurnedAway(p) ==
    /\ p.code \in {400, 404, 500}
    /\ p.tried = <<>> /\ p.status = "none" /\ Unrecorded(p) /\ p.sent = 0

\* The end of a run: the database failed, the answer, or a stream.
Told(p) ==
    \/ p.code = 500 /\ p.sent = 0 /\ (Charged(p) \/ Unrecorded(p))
    \/ p.code = 502 /\ p.sent = 0 /\ Charged(p) /\ p.status = "Failed"
    \/ p.code = 200 /\ p.sent \in 0 .. Events /\ Charged(p) /\ p.status # "Failed"
    \/ p.code = 0 /\ p.sent = 0 /\ Charged(p)

Stage(p) ==
    \/ p.pc \in {"found", "valid"} /\ p.req.kind = "skill" /\ Unrun(p) /\ p.tried = <<>>
    \/ /\ p.pc = "trying" /\ IsModelCall(p.req) /\ Unrun(p)
       /\ p.tried = <<>> \/ (p.tried = <<FALSE>> /\ Targets(p) = 2)
    \/ p.pc = "executed" /\ Untold(p) /\ RunEnded(p)
    \/ /\ p.pc = "recorded" /\ Charged(p) /\ RunEnded(p)
       /\ \/ p.code = 0 /\ p.sent = 0
          \/ p.code = 200 /\ p.sent \in 1 .. Chunks + 1 /\ p.status # "Failed"
    \/ p.pc = "done" /\ (TurnedAway(p) \/ (RunEnded(p) /\ Told(p)))

Whole(p) ==
    p = [pc |-> p.pc, gone |-> p.gone, req |-> p.req, entry |-> p.entry,
         judge |-> p.judge, tried |-> p.tried, status |-> p.status,
         log |-> p.log, usage |-> p.usage, code |-> p.code, sent |-> p.sent]

Invocation(p) ==
    /\ Whole(p) /\ p.gone \in BOOLEAN /\ p.req \in Requests
    /\ Stage(p)

Sound(p) == p = Idle \/ Invocation(p)

\* Entries that are not drafts have been published as they are.
Vouched(items) == \A i \in DOMAIN items : items[i].status # "Draft" => items[i] \in approved

Registries ==
    /\ IsRegistry(skills, {"Draft", "Published"})
    /\ IsRegistry(schemas, {"Draft", "Published"})
    /\ IsRegistry(models, {"Draft", "Active"})
    /\ Vouched(skills) /\ Vouched(models)

\* The inductive invariant.
IInv ==
    /\ recorder \in Recorders
    /\ Registries
    /\ proc = [h \in Handlers |-> proc[h]]
    /\ \A h \in Handlers : Sound(proc[h])
    /\ RunsAsApproved

-----------------------------------------------------------------------------
(* Registries.                                                             *)

LEMMA SavedForm ==
    ASSUME NEW forms, AreForms(forms), NEW f \in forms, NEW status
    PROVE  /\ WithStatus(f, status).id = f.id
           /\ WithStatus(f, status).status = status
           /\ {"id", "status"} \subseteq DOMAIN WithStatus(f, status)
  BY DEF AreForms, WithStatus

\* Every entry of one list is an entry of the other or the one entry e.
Extends(new, old, e) ==
    \A i \in DOMAIN new : new[i] = e \/ \E j \in DOMAIN old : new[i] = old[j]

LEMMA ListDomain ==
    ASSUME NEW items, NEW statuses, IsRegistry(items, statuses)
    PROVE  Len(items) \in Nat /\ DOMAIN items = 1 .. Len(items)
  <1>1. items \in Seq({items[i] : i \in DOMAIN items})
    BY DEF IsRegistry
  <1> QED
    BY <1>1, LenProperties

LEMMA IsList ==
    ASSUME NEW items, NEW n \in Nat, items = [i \in 1 .. n |-> items[i]]
    PROVE  items \in Seq({items[i] : i \in DOMAIN items}) /\ Len(items) = n
  <1>1. items \in [1 .. n -> {items[i] : i \in DOMAIN items}]
    OBVIOUS
  <1>2. items \in Seq({items[i] : i \in DOMAIN items})
    BY <1>1, SeqDef
  <1>3. Len(items) = n
    BY <1>1, <1>2, LenProperties
  <1> QED
    BY <1>2, <1>3

LEMMA Prepended ==
    ASSUME NEW items, NEW statuses, IsRegistry(items, statuses),
           NEW e, {"id", "status"} \subseteq DOMAIN e, e.status \in statuses,
           e.id \notin Ids(items)
    PROVE  IsRegistry(<<e>> \o items, statuses) /\ Extends(<<e>> \o items, items, e)
  <1> DEFINE new == <<e>> \o items
             n == Len(items)
             S == {items[i] : i \in DOMAIN items} \cup {e}
  <1>1. n \in Nat /\ DOMAIN items = 1 .. n
    BY ListDomain
  <1>2. <<e>> \in Seq(S) /\ items \in Seq(S)
    <2>1. items \in [1 .. n -> S]
      <3>1. items \in Seq({items[i] : i \in DOMAIN items})
        BY DEF IsRegistry
      <3>2. items \in [1 .. n -> {items[i] : i \in DOMAIN items}]
        BY <3>1, LenProperties
      <3> QED
        BY <3>2
    <2> QED
      BY <1>1, <2>1, SeqDef
  <1>3. /\ new \in Seq(S) /\ Len(new) = n + 1
        /\ \A i \in 1 .. n + 1 : new[i] = IF i = 1 THEN e ELSE items[i - 1]
    BY <1>1, <1>2, ConcatProperties
  <1>4. new = [i \in 1 .. n + 1 |-> new[i]] /\ DOMAIN new = 1 .. n + 1
    BY <1>1, <1>3, LenProperties
  <1> HIDE DEF new, n
  <1>5. /\ new[1] = e
        /\ \A i \in 2 .. n + 1 : i - 1 \in DOMAIN items /\ new[i] = items[i - 1]
    BY <1>1, <1>3
  <1>6. \A i \in 1 .. n + 1 : i = 1 \/ i \in 2 .. n + 1
    BY <1>1
  <1>7. Extends(new, items, e)
    BY <1>4, <1>5, <1>6 DEF Extends
  <1>8. new \in Seq({new[i] : i \in DOMAIN new})
    BY <1>1, <1>4, IsList
  <1>9. \A i \in DOMAIN new : {"id", "status"} \subseteq DOMAIN new[i] /\ new[i].status \in statuses
    BY <1>7 DEF Extends, IsRegistry
  <1>10. ASSUME NEW i \in DOMAIN new, NEW j \in DOMAIN new, new[i].id = new[j].id
         PROVE  i = j
    <2>1. CASE i = 1 /\ j = 1
      BY <2>1
    <2>2. CASE i = 1 /\ j \in 2 .. n + 1
      BY <1>5, <1>10, <2>2 DEF Ids
    <2>3. CASE j = 1 /\ i \in 2 .. n + 1
      BY <1>5, <1>10, <2>3 DEF Ids
    <2>4. CASE i \in 2 .. n + 1 /\ j \in 2 .. n + 1
      <3>1. i - 1 = j - 1
        BY <1>5, <1>10, <2>4 DEF IsRegistry
      <3> QED
        BY <1>1, <2>4, <3>1
    <2> QED
      BY <1>4, <1>6, <2>1, <2>2, <2>3, <2>4
  <1> QED
    BY <1>7, <1>8, <1>9, <1>10 DEF IsRegistry, new

LEMMA Replaced ==
    ASSUME NEW items, NEW statuses, IsRegistry(items, statuses),
           NEW e, {"id", "status"} \subseteq DOMAIN e, e.status \in statuses
    PROVE  IsRegistry(SetTo(items, e), statuses) /\ Extends(SetTo(items, e), items, e)
  <1> DEFINE new == SetTo(items, e)
             n == Len(items)
  <1>1. n \in Nat /\ DOMAIN items = 1 .. n
    BY ListDomain
  <1>2. new = [i \in 1 .. n |-> IF items[i].id = e.id THEN e ELSE items[i]]
    BY <1>1 DEF SetTo
  <1>3. new = [i \in 1 .. n |-> new[i]] /\ DOMAIN new = 1 .. n
    BY <1>2
  <1>4. \A i \in 1 .. n : new[i] = e \/ new[i] = items[i]
    BY <1>2
  <1>5. \A i \in 1 .. n : new[i].id = items[i].id
    BY <1>2
  <1> HIDE DEF new, n
  <1>6. Extends(new, items, e)
    BY <1>1, <1>3, <1>4 DEF Extends
  <1>7. new \in Seq({new[i] : i \in DOMAIN new})
    BY <1>1, <1>3, IsList
  <1>8. \A i \in DOMAIN new : {"id", "status"} \subseteq DOMAIN new[i] /\ new[i].status \in statuses
    BY <1>1, <1>3, <1>4 DEF IsRegistry
  <1>9. \A i, j \in DOMAIN new : new[i].id = new[j].id => i = j
    BY <1>1, <1>3, <1>5 DEF IsRegistry
  <1> QED
    BY <1>6, <1>7, <1>8, <1>9 DEF IsRegistry, new

LEMMA Found ==
    ASSUME NEW items, NEW statuses, IsRegistry(items, statuses), NEW id \in Ids(items)
    PROVE  /\ \E i \in DOMAIN items : At(items, id) = items[i]
           /\ At(items, id).id = id /\ {"id", "status"} \subseteq DOMAIN At(items, id)
  <1> DEFINE i == CHOOSE k \in DOMAIN items : items[k].id = id
  <1>1. \E k \in DOMAIN items : items[k].id = id
    BY DEF Ids
  <1>2. i \in DOMAIN items /\ items[i].id = id
    BY <1>1
  <1>3. At(items, id) = items[i]
    BY DEF At
  <1> QED
    BY <1>2, <1>3 DEF IsRegistry

LEMMA PublishedEntry ==
    ASSUME NEW items, NEW statuses, IsRegistry(items, statuses), NEW id \in Ids(items),
           NEW status \in statuses,
           NEW e, e = [At(items, id) EXCEPT !.status = status]
    PROVE  /\ e.id = id /\ e.status = status /\ {"id", "status"} \subseteq DOMAIN e
           /\ IsRegistry(SetTo(items, e), statuses)
           /\ Extends(SetTo(items, e), items, e)
  <1>1. {"id", "status"} \subseteq DOMAIN At(items, id) /\ At(items, id).id = id
    BY Found
  <1>2. e.id = id /\ e.status = status /\ {"id", "status"} \subseteq DOMAIN e
    BY <1>1
  <1> QED
    BY <1>2, Replaced

\* Ids tell the entries of a registry apart.
LEMMA DistinctIds ==
    ASSUME NEW items, NEW statuses, IsRegistry(items, statuses)
    PROVE  Cardinality(Ids(items)) = Len(items)
  <1> DEFINE f == [i \in 1 .. Len(items) |-> items[i].id]
  <1>1. Len(items) \in Nat /\ DOMAIN items = 1 .. Len(items)
    BY ListDomain
  <1>2. \A i, j \in 1 .. Len(items) : f[i] = f[j] => i = j
    BY <1>1 DEF IsRegistry
  <1>3. Ids(items) = {f[i] : i \in 1 .. Len(items)}
    BY <1>1 DEF Ids
  <1>4. f \in Bijection(1 .. Len(items), Ids(items))
    BY <1>2, <1>3 DEF Bijection, Injection, Surjection, IsInjective
  <1>5. IsFiniteSet(1 .. Len(items)) /\ Cardinality(1 .. Len(items)) = Len(items)
    <2>1. \A n \in Nat : IsFiniteSet(1 .. n) /\ Cardinality(1 .. n) = n
      BY FS_Interval
    <2> QED
      BY <1>1, <2>1
  <1>6. ExistsBijection(1 .. Len(items), Ids(items))
    BY <1>4 DEF ExistsBijection
  <1> QED
    BY <1>5, <1>6, FS_Bijection

-----------------------------------------------------------------------------
(* Administrators.                                                         *)

LEMMA StillVouched ==
    ASSUME NEW items, NEW new, NEW e, NEW old, NEW now,
           \A i \in DOMAIN items : items[i].status # "Draft" => items[i] \in old,
           Extends(new, items, e), old \subseteq now,
           e.status # "Draft" => e \in now
    PROVE  \A i \in DOMAIN new : new[i].status # "Draft" => new[i] \in now
  BY DEF Extends

\* What an edit has to preserve.
LEMMA EditSound ==
    ASSUME IInv, Edit, approved \subseteq approved', Registries'
    PROVE  IInv'
  <1>1. recorder' \in Recorders /\ proc' = [h \in Handlers |-> proc'[h]]
    BY DEF IInv, Edit
  <1>2. ASSUME NEW h \in Handlers
        PROVE  Sound(proc'[h])
    BY DEF IInv, Edit
  <1>3. RunsAsApproved'
    BY DEF IInv, Edit, RunsAsApproved, Busy
  <1> QED
    BY <1>1, <1>2, <1>3 DEF IInv

LEMMA SkillEditStep ==
    ASSUME IInv, SkillEdits, UNCHANGED models
    PROVE  IInv'
  <1> DEFINE S == {"Draft", "Published"}
  <1>1. /\ IsRegistry(skills, S) /\ IsRegistry(schemas, S) /\ IsRegistry(models, {"Draft", "Active"})
        /\ Vouched(skills) /\ Vouched(models)
    BY DEF IInv, Registries
  <1>2. ASSUME NEW f \in SkillForms, CreateSkillBinding(f)
        PROVE  IInv'
    <2>1. PICK e : e = WithStatus(f, "Draft")
      OBVIOUS
    <2>2. {"id", "status"} \subseteq DOMAIN e /\ e.status = "Draft" /\ e.id \notin Ids(skills)
      BY <1>2, <2>1, SavedForm, SkillsAssumption DEF CreateSkillBinding
    <2>3. /\ skills' = <<e>> \o skills /\ schemas' = schemas /\ approved' = approved
          /\ models' = models /\ Edit
      BY <1>2, <2>1 DEF CreateSkillBinding
    <2>4. IsRegistry(skills', S) /\ Extends(skills', skills, e)
      BY <1>1, <2>2, <2>3, Prepended
    <2>5. Vouched(skills)'
      BY <1>1, <2>2, <2>3, <2>4, StillVouched DEF Vouched
    <2>6. Registries'
      BY <1>1, <2>3, <2>4, <2>5 DEF Registries, Vouched
    <2> QED
      BY <2>3, <2>6, EditSound
  <1>3. ASSUME NEW f \in SkillForms, UpdateSkillBinding(f)
        PROVE  IInv'
    <2>1. PICK e : e = WithStatus(f, "Draft")
      OBVIOUS
    <2>2. {"id", "status"} \subseteq DOMAIN e /\ e.status = "Draft"
      BY <2>1, SavedForm, SkillsAssumption
    <2>3. /\ skills' = SetTo(skills, e) /\ schemas' = schemas /\ approved' = approved
          /\ models' = models /\ Edit
      BY <1>3, <2>1 DEF UpdateSkillBinding
    <2>4. IsRegistry(skills', S) /\ Extends(skills', skills, e)
      BY <1>1, <2>2, <2>3, Replaced
    <2>5. Vouched(skills)'
      BY <1>1, <2>2, <2>3, <2>4, StillVouched DEF Vouched
    <2>6. Registries'
      BY <1>1, <2>3, <2>4, <2>5 DEF Registries, Vouched
    <2> QED
      BY <2>3, <2>6, EditSound
  <1>4. ASSUME NEW id \in Ids(skills), PublishSkillBinding(id)
        PROVE  IInv'
    <2>1. PICK e : e = [At(skills, id) EXCEPT !.status = "Published"]
      OBVIOUS
    <2>2. /\ skills' = SetTo(skills, e) /\ schemas' = schemas /\ approved' = approved \cup {e}
          /\ models' = models /\ Edit
      BY <1>4, <2>1 DEF PublishSkillBinding
    <2>3. IsRegistry(skills', S) /\ Extends(skills', skills, e)
      BY <1>1, <2>1, <2>2, PublishedEntry
    <2>4. Vouched(skills)'
      BY <1>1, <2>2, <2>3, StillVouched DEF Vouched
    <2>5. Vouched(models)'
      BY <1>1, <2>2 DEF Vouched
    <2>6. Registries'
      BY <1>1, <2>2, <2>3, <2>4, <2>5 DEF Registries
    <2> QED
      BY <2>2, <2>6, EditSound
  <1>5. ASSUME NEW f \in SchemaForms, UpdateSkillSchema(f)
        PROVE  IInv'
    <2>1. PICK e : e = WithStatus(f, "Draft")
      OBVIOUS
    <2>2. {"id", "status"} \subseteq DOMAIN e /\ e.status = "Draft"
      BY <2>1, SavedForm, SkillsAssumption
    <2>3. /\ schemas' = SetTo(schemas, e) /\ skills' = skills /\ approved' = approved
          /\ models' = models /\ Edit
      BY <1>5, <2>1 DEF UpdateSkillSchema
    <2>4. IsRegistry(schemas', S)
      BY <1>1, <2>2, <2>3, Replaced
    <2>5. Registries'
      BY <1>1, <2>3, <2>4 DEF Registries, Vouched
    <2> QED
      BY <2>3, <2>5, EditSound
  <1>6. ASSUME NEW id \in Ids(schemas), PublishSkillSchema(id)
        PROVE  IInv'
    <2>1. PICK e : e = [At(schemas, id) EXCEPT !.status = "Published"]
      OBVIOUS
    <2>2. /\ schemas' = SetTo(schemas, e) /\ skills' = skills /\ approved' = approved
          /\ models' = models /\ Edit
      BY <1>6, <2>1 DEF PublishSkillSchema
    <2>3. IsRegistry(schemas', S)
      BY <1>1, <2>1, <2>2, PublishedEntry
    <2>4. Registries'
      BY <1>1, <2>2, <2>3 DEF Registries, Vouched
    <2> QED
      BY <2>2, <2>4, EditSound
  <1> QED
    BY <1>2, <1>3, <1>4, <1>5, <1>6 DEF SkillEdits

LEMMA ModelEditStep ==
    ASSUME IInv, ModelEdits, UNCHANGED skillVars
    PROVE  IInv'
  <1> DEFINE S == {"Draft", "Active"}
  <1>1. /\ IsRegistry(models, S) /\ Vouched(models)
        /\ skills' = skills /\ schemas' = schemas
    BY DEF IInv, Registries, skillVars
  <1>2. ASSUME NEW e, IsRegistry(models', S), Extends(models', models, e),
               e.status # "Draft" => e \in approved',
               approved \subseteq approved', Edit
        PROVE  IInv'
    <2>1. Vouched(models)'
      BY <1>1, <1>2, StillVouched DEF Vouched
    <2>2. Vouched(skills)'
      BY <1>1, <1>2 DEF IInv, Registries, Vouched
    <2>3. Registries'
      BY <1>1, <1>2, <2>1, <2>2 DEF IInv, Registries
    <2> QED
      BY <1>2, <2>3, EditSound
  <1>3. ASSUME NEW f \in ModelForms, CreateModelRoute(f)
        PROVE  IInv'
    <2>1. PICK e : e = WithStatus(f, "Draft")
      OBVIOUS
    <2>2. {"id", "status"} \subseteq DOMAIN e /\ e.status = "Draft" /\ e.id \notin Ids(models)
      BY <1>3, <2>1, SavedForm, ModelsAssumption DEF CreateModelRoute
    <2>3. models' = <<e>> \o models /\ approved' = approved /\ Edit
      BY <1>3, <2>1 DEF CreateModelRoute
    <2>4. IsRegistry(models', S) /\ Extends(models', models, e)
      BY <1>1, <2>2, <2>3, Prepended
    <2> QED
      BY <1>2, <2>2, <2>3, <2>4
  <1>4. ASSUME NEW f \in ModelForms, UpdateModelRoute(f)
        PROVE  IInv'
    <2>1. PICK e : e = WithStatus(f, "Draft")
      OBVIOUS
    <2>2. {"id", "status"} \subseteq DOMAIN e /\ e.status = "Draft"
      BY <2>1, SavedForm, ModelsAssumption
    <2>3. models' = SetTo(models, e) /\ approved' = approved /\ Edit
      BY <1>4, <2>1 DEF UpdateModelRoute
    <2>4. IsRegistry(models', S) /\ Extends(models', models, e)
      BY <1>1, <2>2, <2>3, Replaced
    <2> QED
      BY <1>2, <2>2, <2>3, <2>4
  <1>5. ASSUME NEW id \in Ids(models), PublishModelRoute(id)
        PROVE  IInv'
    <2>1. PICK e : e = [At(models, id) EXCEPT !.status = "Active"]
      OBVIOUS
    <2>2. models' = SetTo(models, e) /\ approved' = approved \cup {e} /\ Edit
      BY <1>5, <2>1 DEF PublishModelRoute
    <2>3. IsRegistry(models', S) /\ Extends(models', models, e)
      BY <1>1, <2>1, <2>2, PublishedEntry
    <2> QED
      BY <1>2, <2>2, <2>3
  <1> QED
    BY <1>3, <1>4, <1>5 DEF ModelEdits

-----------------------------------------------------------------------------
(* Invocations.                                                            *)

LEMMA OneMoves ==
    ASSUME IInv, NEW h \in Handlers, NEW p, Move(h, p),
           UNCHANGED <<skills, schemas, models>>,
           Sound(p), p.pc # "idle" /\ p.entry # <<>> => p.entry \in approved
    PROVE  IInv'
  <1>1. /\ recorder' = recorder /\ approved' = approved
        /\ proc' = [proc EXCEPT ![h] = p] /\ proc = [k \in Handlers |-> proc[k]]
    BY DEF IInv, Move
  <1>2. /\ proc' = [k \in Handlers |-> proc'[k]]
        /\ \A k \in Handlers : proc'[k] = IF k = h THEN p ELSE proc[k]
    BY <1>1
  <1>3. \A k \in Handlers : Sound(proc'[k])
    BY <1>2 DEF IInv
  <1>4. RunsAsApproved'
    BY <1>1, <1>2 DEF IInv, RunsAsApproved, Busy
  <1>5. Registries'
    BY <1>1 DEF IInv, Registries, Vouched
  <1> QED
    BY <1>1, <1>2, <1>3, <1>4, <1>5 DEF IInv

LEMMA BusyOnes ==
    ASSUME IInv, NEW h \in Handlers
    PROVE  /\ proc[h].pc # "idle" => Invocation(proc[h])
           /\ proc[h].pc # "idle" /\ proc[h].entry # <<>> => proc[h].entry \in approved
  BY DEF IInv, Sound, Idle, RunsAsApproved, Busy

\* A busy handler goes on with its own entry.
LEMMA GoesOn ==
    ASSUME IInv, NEW h \in Handlers, proc[h].pc # "idle",
           NEW r, Move(h, r), UNCHANGED <<skills, schemas, models>>,
           Invocation(r), r.entry = proc[h].entry
    PROVE  IInv'
  BY BusyOnes, OneMoves DEF Sound

LEMMA BegunWhole ==
    ASSUME NEW q \in Requests, NEW entry, NEW p, p = Begun(q, entry)
    PROVE  /\ Whole(p) /\ p.gone \in BOOLEAN /\ p.req = q /\ p.entry = entry
           /\ Unrun(p) /\ p.tried = <<>> /\ p.pc = "found"
  BY DEF Begun, Whole, Unrun, Untold

LEMMA RefusedStep ==
    ASSUME IInv, NEW h \in Handlers, NEW q \in Requests,
           NEW code \in {400, 404, 500}, Refused(h, q, code),
           UNCHANGED <<skills, schemas, models>>
    PROVE  IInv'
  <1>1. PICK p : p = Begun(q, <<>>)
    OBVIOUS
  <1>2. PICK r : r = Answered(p, code)
    OBVIOUS
  <1>3. Whole(p) /\ p.gone \in BOOLEAN /\ p.req = q /\ p.entry = <<>> /\ Unrun(p) /\ p.tried = <<>>
    BY <1>1, BegunWhole
  <1>4. /\ Whole(r) /\ r.gone \in BOOLEAN /\ r.req = q /\ r.entry = <<>>
        /\ r.pc = "done" /\ r.code = code /\ r.tried = <<>> /\ r.status = "none"
        /\ r.log = <<>> /\ r.usage = 0 /\ r.sent = 0
    BY <1>1, <1>2 DEF Answered, Begun, Whole
  <1>5. Invocation(r)
    BY <1>4 DEF Invocation, Stage, TurnedAway, Unrecorded
  <1>6. Move(h, r)
    BY <1>1, <1>2 DEF Refused
  <1> QED
    BY <1>4, <1>5, <1>6, OneMoves DEF Sound

LEMMA FindSkillStep ==
    ASSUME IInv, NEW h \in Handlers, NEW q \in Requests, FindSkill(h, q),
           UNCHANGED <<skills, schemas, models>>
    PROVE  IInv'
  <1>1. PICK i \in DOMAIN skills : skills[i].status = "Published" /\ Move(h, Begun(q, skills[i]))
    BY DEF FindSkill, First, Published
  <1>2. skills[i] \in approved
    BY <1>1 DEF IInv, Registries, Vouched
  <1>3. PICK p : p = Begun(q, skills[i])
    OBVIOUS
  <1>4. /\ Whole(p) /\ p.gone \in BOOLEAN /\ p.req = q /\ p.entry = skills[i]
        /\ p.pc = "found" /\ Unrun(p) /\ p.tried = <<>>
    BY <1>3, BegunWhole
  <1>5. Invocation(p)
    BY <1>4 DEF FindSkill, Invocation, Stage
  <1> QED
    BY <1>1, <1>2, <1>3, <1>4, <1>5, OneMoves DEF Sound

LEMMA FindModelStep ==
    ASSUME IInv, NEW h \in Handlers, NEW q \in Requests, FindModel(h, q),
           UNCHANGED <<skills, schemas, models>>
    PROVE  IInv'
  <1>1. PICK i \in DOMAIN models :
            /\ models[i].status = "Active"
            /\ Move(h, [Begun(q, models[i]) EXCEPT !.pc = "trying"])
    BY DEF FindModel, First, Active
  <1>2. models[i] \in approved
    BY <1>1 DEF IInv, Registries, Vouched
  <1>3. PICK r : r = [Begun(q, models[i]) EXCEPT !.pc = "trying"]
    OBVIOUS
  <1>4. /\ Whole(r) /\ r.gone \in BOOLEAN /\ r.req = q /\ r.entry = models[i]
        /\ r.pc = "trying" /\ Unrun(r) /\ r.tried = <<>>
    BY <1>3 DEF Begun, Whole, Unrun, Untold
  <1>5. Invocation(r)
    BY <1>4 DEF FindModel, Invocation, Stage
  <1> QED
    BY <1>1, <1>2, <1>3, <1>4, <1>5, OneMoves DEF Sound

\* What a stage says, by the point it is reached at.
LEMMA AtStage ==
    ASSUME NEW p, Invocation(p)
    PROVE  /\ p.pc \in {"found", "valid"} =>
                  p.req.kind = "skill" /\ Unrun(p) /\ p.tried = <<>>
           /\ p.pc = "trying" =>
                  /\ IsModelCall(p.req) /\ Unrun(p)
                  /\ p.tried = <<>> \/ (p.tried = <<FALSE>> /\ Targets(p) = 2)
           /\ p.pc = "executed" => Untold(p) /\ RunEnded(p)
           /\ p.pc = "recorded" =>
                  /\ Charged(p) /\ RunEnded(p)
                  /\ \/ p.code = 0 /\ p.sent = 0
                     \/ p.code = 200 /\ p.sent \in 1 .. Chunks + 1 /\ p.status # "Failed"
           /\ p.pc = "done" => TurnedAway(p) \/ (RunEnded(p) /\ Told(p))
           /\ p.pc # "idle"
  BY DEF Invocation, Stage

\* What is said of an invocation apart from its pc.
LEMMA Alike ==
    ASSUME NEW p, NEW r, r.req = p.req, r.entry = p.entry, r.tried = p.tried,
           r.status = p.status, r.log = p.log, r.usage = p.usage
    PROVE  /\ Targets(r) = Targets(p)
           /\ RunEnded(p) => RunEnded(r)
           /\ Charged(p) => Charged(r)
           /\ Unrecorded(p) => Unrecorded(r)
  <1>1. Targets(r) = Targets(p)
    BY DEF Targets
  <1>2. RunEnded(p) => RunEnded(r)
    BY <1>1 DEF RunEnded
  <1>3. Charged(p) => Charged(r)
    BY DEF Charged
  <1>4. Unrecorded(p) => Unrecorded(r)
    BY DEF Unrecorded
  <1> QED
    BY <1>1, <1>2, <1>3, <1>4

\* r is p one step on.
Same(p, r) ==
    Whole(r) /\ (r.gone = p.gone \/ r.gone = TRUE) /\ r.req = p.req /\ r.entry = p.entry

LEMMA Proceeds ==
    ASSUME NEW p, Invocation(p), NEW r, Same(p, r), Stage(r)
    PROVE  Invocation(r) /\ r.entry = p.entry
  BY DEF Invocation, Same

\* The end of the run of p: r.
LEMMA RanSound ==
    ASSUME NEW p, Invocation(p), Untold(p), NEW tried, NEW status,
           NEW r, r = Ran([p EXCEPT !.tried = tried], status),
           Ends(tried, Targets(p), status)
    PROVE  Invocation(r) /\ r.entry = p.entry
  <1>1. /\ Whole(r) /\ r.gone = p.gone /\ r.req = p.req /\ r.entry = p.entry
        /\ r.pc = "executed" /\ r.tried = tried /\ r.status = status
        /\ r.log = p.log /\ r.usage = p.usage /\ r.code = p.code /\ r.sent = p.sent
    BY DEF Invocation, Whole, Ran
  <1>2. Untold(r)
    BY <1>1 DEF Untold
  <1>3. Targets(r) = Targets(p)
    BY <1>1, Zenon DEF Targets
  <1>4. RunEnded(r)
    BY <1>1, <1>3, Zenon DEF RunEnded
  <1>5. Stage(r)
    BY <1>1, <1>2, <1>4, Zenon DEF Stage
  <1> QED
    BY <1>1, <1>5 DEF Invocation

LEMMA AcceptInputSound ==
    ASSUME NEW p, Invocation(p), p.pc = "found", NEW judge,
           NEW r, r = [p EXCEPT !.pc = "valid", !.judge = judge]
    PROVE  Invocation(r) /\ r.entry = p.entry
  <1>1. /\ Whole(r) /\ r.gone = p.gone /\ r.req = p.req /\ r.entry = p.entry
        /\ r.pc = "valid" /\ r.tried = p.tried /\ r.status = p.status
        /\ r.log = p.log /\ r.usage = p.usage /\ r.code = p.code /\ r.sent = p.sent
    BY DEF Invocation, Whole
  <1>2. p.req.kind = "skill" /\ Unrun(p) /\ p.tried = <<>>
    BY AtStage
  <1>3. Unrun(r)
    BY <1>1, <1>2 DEF Unrun, Untold
  <1> QED
    BY <1>1, <1>2, <1>3 DEF Invocation, Stage

LEMMA RejectedSound ==
    ASSUME NEW p, Invocation(p), p.pc = "found", NEW judge, NEW code \in {400, 500},
           NEW r, r = Answered([p EXCEPT !.judge = judge], code)
    PROVE  Invocation(r) /\ r.entry = p.entry
  <1>1. /\ Whole(r) /\ r.gone = p.gone /\ r.req = p.req /\ r.entry = p.entry
        /\ r.pc = "done" /\ r.tried = p.tried /\ r.status = p.status
        /\ r.log = p.log /\ r.usage = p.usage /\ r.code = code /\ r.sent = p.sent
    BY DEF Invocation, Whole, Answered
  <1>2. Unrun(p) /\ p.tried = <<>>
    BY AtStage
  <1>3. TurnedAway(r)
    BY <1>1, <1>2 DEF Unrun, Untold, TurnedAway, Unrecorded
  <1> QED
    BY <1>1, <1>3 DEF Invocation, Stage

LEMMA SkillStep ==
    ASSUME IInv, SkillSteps, UNCHANGED models
    PROVE  IInv'
  <1>1. UNCHANGED <<skills, schemas, models>>
    BY DEF SkillSteps, skillVars
  <1>2. ASSUME NEW h \in Handlers, AcceptInput(h)
        PROVE  IInv'
    <2>1. PICK judge : Move(h, [proc[h] EXCEPT !.pc = "valid", !.judge = judge])
      BY <1>2 DEF AcceptInput
    <2>2. PICK r : r = [proc[h] EXCEPT !.pc = "valid", !.judge = judge]
      OBVIOUS
    <2>3. Invocation(r) /\ r.entry = proc[h].entry
      BY <1>2, <2>2, BusyOnes, AcceptInputSound DEF AcceptInput
    <2> QED
      BY <1>1, <1>2, <2>1, <2>2, <2>3, GoesOn DEF AcceptInput
  <1>3. ASSUME NEW h \in Handlers, RejectInput(h)
        PROVE  IInv'
    <2>1. PICK judge : Move(h, Answered([proc[h] EXCEPT !.judge = judge], 400))
      BY <1>3 DEF RejectInput
    <2>2. PICK r : r = Answered([proc[h] EXCEPT !.judge = judge], 400)
      OBVIOUS
    <2>3. proc[h].pc = "found" /\ Invocation(proc[h])
      BY <1>3, BusyOnes DEF RejectInput
    <2>4. Invocation(r) /\ r.entry = proc[h].entry
      BY <2>2, <2>3, RejectedSound
    <2> QED
      BY <1>1, <2>1, <2>2, <2>3, <2>4, GoesOn
  <1>4. ASSUME NEW h \in Handlers, SchemaQueryFails(h)
        PROVE  IInv'
    <2>1. proc[h].pc = "found" /\ Invocation(proc[h])
      BY <1>4, BusyOnes DEF SchemaQueryFails
    <2>2. proc[h] = [proc[h] EXCEPT !.judge = proc[h].judge]
      BY <2>1 DEF Invocation, Whole
    <2>3. PICK r : r = Answered([proc[h] EXCEPT !.judge = proc[h].judge], 500)
      OBVIOUS
    <2>4. Move(h, r)
      BY <1>4, <2>2, <2>3 DEF SchemaQueryFails
    <2>5. Invocation(r) /\ r.entry = proc[h].entry
      BY <2>1, <2>3, RejectedSound
    <2> QED
      BY <1>1, <2>1, <2>4, <2>5, GoesOn
  <1>5. ASSUME NEW h \in Handlers, CallSkill(h)
        PROVE  IInv'
    <2>1. proc[h].pc = "valid" /\ Invocation(proc[h])
      BY <1>5, BusyOnes DEF CallSkill
    <2>2. Untold(proc[h]) /\ Targets(proc[h]) = 1
      BY <2>1, AtStage DEF Unrun, Targets, IsModelCall
    <2>3. PICK tried, status :
              /\ Move(h, Ran([proc[h] EXCEPT !.tried = tried], status))
              /\ \/ status = "Success" /\ tried = <<TRUE>>
                 \/ status = "Failed" /\ tried = <<FALSE>>
      BY <1>5, Zenon DEF CallSkill
    <2>4. PICK r : r = Ran([proc[h] EXCEPT !.tried = tried], status)
      OBVIOUS
    <2>5. Ends(tried, Targets(proc[h]), status)
      BY <2>2, <2>3, Zenon DEF Ends
    <2>6. Invocation(r) /\ r.entry = proc[h].entry
      BY <2>1, <2>2, <2>4, <2>5, RanSound
    <2> QED
      BY <1>1, <2>1, <2>3, <2>4, <2>6, GoesOn
  <1>6. ASSUME NEW h \in Handlers, NEW q \in Requests,
               SkillNotFound(h, q) \/ SkillListFails(h, q)
        PROVE  IInv'
    BY <1>1, <1>6, RefusedStep DEF SkillNotFound, SkillListFails
  <1> QED
    BY <1>1, <1>2, <1>3, <1>4, <1>5, <1>6, FindSkillStep DEF SkillSteps

LEMMA AppendPair ==
    ASSUME NEW x, NEW y
    PROVE  Append(<<x>>, y) = <<x, y>>
  <1> DEFINE S == {x, y}
             s == Append(<<x>>, y)
             t == <<x, y>>
  <1>1. <<x>> \in Seq(S) /\ t \in Seq(S) /\ Len(<<x>>) = 1 /\ Len(t) = 2
    OBVIOUS
  <1>2. s \in Seq(S) /\ Len(s) = 2 /\ s[1] = x /\ s[2] = y
    BY <1>1, AppendProperties
  <1>3. \A i \in 1 .. Len(s) : s[i] = t[i]
    BY <1>2
  <1> HIDE DEF s, t
  <1>4. s = t
    BY <1>1, <1>2, <1>3, SeqEqual
  <1> QED
    BY <1>4 DEF s, t

\* At most two models are tried.
LEMMA CandidatesCounted ==
    ASSUME NEW m
    PROVE  /\ Candidates(m) = <<>> => Len(Candidates(m)) = 0
           /\ Candidates(m) # <<>> => Len(Candidates(m)) \in {1, 2}
  <1> DEFINE S == {m.primary, m.fallback}
  <1>1. PICK x \in Seq(S), y \in Seq(S) :
           Candidates(m) = x \o y /\ Len(x) \in {0, 1} /\ Len(y) \in {0, 1}
    <2>1. PICK x : x = IF m.primary # "" THEN <<m.primary>> ELSE <<>>
      OBVIOUS
    <2>2. PICK y : y = IF m.fallback # "" /\ FoldModel[m.fallback] # FoldModel[m.primary]
                       THEN <<m.fallback>> ELSE <<>>
      OBVIOUS
    <2>3. Candidates(m) = x \o y
      BY <2>1, <2>2, Zenon DEF Candidates
    <2>4. ASSUME NEW e \in S
          PROVE  <<e>> \in Seq(S) /\ Len(<<e>>) = 1
      OBVIOUS
    <2>5. <<>> \in Seq(S) /\ Len(<<>>) = 0
      OBVIOUS
    <2>6. x \in Seq(S) /\ Len(x) \in {0, 1}
      BY <2>1, <2>4, <2>5, Zenon
    <2>7. y \in Seq(S) /\ Len(y) \in {0, 1}
      BY <2>2, <2>4, <2>5, Zenon
    <2> QED
      BY <2>3, <2>6, <2>7
  <1> HIDE DEF S
  <1>2. x \o y \in Seq(S) /\ Len(x \o y) = Len(x) + Len(y)
    BY ConcatProperties
  <1>3. \A s \in Seq(S) : (s = <<>> <=> Len(s) = 0)
    OBVIOUS
  <1> QED
    BY <1>1, <1>2, <1>3

\* One pass over the candidates.
LEMMA TryModelSound ==
    ASSUME NEW p, Invocation(p), p.pc = "trying", Candidates(p.entry) # <<>>,
           NEW answers \in BOOLEAN, NEW r,
           LET n == Len(p.tried) + 1
               q == [p EXCEPT !.tried = Append(@, answers)]
           IN  r = IF answers THEN Ran(q, IF n = 1 THEN "Success" ELSE "Fallback")
                   ELSE IF n < Len(Candidates(p.entry)) THEN q
                   ELSE Ran(q, "Failed")
    PROVE  Invocation(r) /\ r.entry = p.entry
  <1>1. /\ IsModelCall(p.req) /\ Unrun(p) /\ Untold(p)
        /\ p.tried = <<>> \/ (p.tried = <<FALSE>> /\ Targets(p) = 2)
    BY AtStage DEF Unrun
  <1>2. Targets(p) = Len(Candidates(p.entry)) /\ Targets(p) \in {1, 2}
    <2>1. Targets(p) = Len(Candidates(p.entry))
      BY <1>1 DEF Targets
    <2>2. Len(Candidates(p.entry)) \in {1, 2}
      BY CandidatesCounted
    <2> QED
      BY <2>1, <2>2
  <1>3. ASSUME p.tried = <<>>
        PROVE  Len(p.tried) + 1 = 1 /\ Append(p.tried, answers) = <<answers>>
    BY <1>3
  <1>4. ASSUME p.tried = <<FALSE>>
        PROVE  Len(p.tried) + 1 = 2 /\ Append(p.tried, answers) = <<FALSE, answers>>
    <2>1. Len(p.tried) = 1
      BY <1>4
    <2>2. Append(p.tried, answers) = <<FALSE, answers>>
      BY <1>4, AppendPair, Zenon
    <2> QED
      BY <2>1, <2>2
  <1>5. PICK tried : tried = Append(p.tried, answers)
    OBVIOUS
  <1>6. ASSUME NEW status, Ends(tried, Targets(p), status),
               r = Ran([p EXCEPT !.tried = tried], status)
        PROVE  Invocation(r) /\ r.entry = p.entry
    BY <1>1, <1>6, RanSound
  <1>7. CASE answers /\ p.tried = <<>>
    <2>1. tried = <<TRUE>>
      BY <1>3, <1>5, <1>7
    <2>2. r = Ran([p EXCEPT !.tried = tried], "Success")
      BY <1>3, <1>5, <1>7
    <2> QED
      BY <1>6, <2>1, <2>2 DEF Ends
  <1>8. CASE answers /\ p.tried = <<FALSE>>
    <2>1. tried = <<FALSE, TRUE>>
      BY <1>4, <1>5, <1>8
    <2>2. r = Ran([p EXCEPT !.tried = tried], "Fallback")
      BY <1>4, <1>5, <1>8
    <2> QED
      BY <1>6, <2>1, <2>2 DEF Ends
  <1>9. CASE ~answers /\ p.tried = <<>> /\ Targets(p) = 1
    <2>1. tried = <<FALSE>>
      BY <1>3, <1>5, <1>9
    <2>2. r = Ran([p EXCEPT !.tried = tried], "Failed")
      BY <1>2, <1>3, <1>5, <1>9
    <2> QED
      BY <1>6, <1>9, <2>1, <2>2 DEF Ends
  <1>10. CASE ~answers /\ p.tried = <<>> /\ Targets(p) = 2
    <2>1. tried = <<FALSE>>
      BY <1>3, <1>5, <1>10
    <2>2. r = [p EXCEPT !.tried = tried]
      BY <1>2, <1>3, <1>5, <1>10
    <2>3. /\ Whole(r) /\ r.gone = p.gone /\ r.req = p.req /\ r.entry = p.entry
          /\ r.pc = "trying" /\ r.tried = tried /\ r.status = p.status
          /\ r.log = p.log /\ r.usage = p.usage /\ r.code = p.code /\ r.sent = p.sent
      BY <2>2 DEF Invocation, Whole
    <2>4. Targets(r) = 2
      BY <1>10, <2>3, Zenon DEF Targets
    <2>5. Stage(r)
      BY <1>1, <2>1, <2>3, <2>4, Zenon DEF Stage, Unrun, Untold
    <2> QED
      BY <2>3, <2>5 DEF Invocation
  <1>11. CASE ~answers /\ p.tried = <<FALSE>> /\ Targets(p) = 2
    <2>1. tried = <<FALSE, FALSE>>
      BY <1>4, <1>5, <1>11
    <2>2. r = Ran([p EXCEPT !.tried = tried], "Failed")
      BY <1>2, <1>4, <1>5, <1>11
    <2> QED
      BY <1>6, <1>11, <2>1, <2>2 DEF Ends
  <1> QED
    BY <1>1, <1>2, <1>7, <1>8, <1>9, <1>10, <1>11

\* A route without models.
LEMMA NothingTriedSound ==
    ASSUME NEW p, Invocation(p), p.pc = "trying", Candidates(p.entry) = <<>>,
           NEW r, r = Ran(p, "Failed")
    PROVE  Invocation(r) /\ r.entry = p.entry
  <1>1. /\ IsModelCall(p.req) /\ Unrun(p) /\ Untold(p)
        /\ p.tried = <<>> \/ (p.tried = <<FALSE>> /\ Targets(p) = 2)
    BY AtStage DEF Unrun
  <1>2. Targets(p) = 0
    BY <1>1, CandidatesCounted DEF Targets
  <1>3. p.tried = <<>>
    BY <1>1, <1>2
  <1>4. [p EXCEPT !.tried = <<>>] = p
    BY <1>3 DEF Invocation, Whole
  <1>5. r = Ran([p EXCEPT !.tried = <<>>], "Failed")
    BY <1>4
  <1>6. Ends(<<>>, Targets(p), "Failed")
    BY <1>2 DEF Ends
  <1> QED
    BY <1>1, <1>5, <1>6, RanSound

LEMMA SentSound ==
    ASSUME NEW p, Invocation(p), p.pc = "recorded", p.status # "Failed",
           NEW r, r = Sent(p)
    PROVE  Invocation(r) /\ r.entry = p.entry
  <1>1. PICK sent : sent = p.sent + 1
    OBVIOUS
  <1>2. PICK pc : pc = IF sent = Events THEN "done" ELSE "recorded"
    OBVIOUS
  <1>3. r = [p EXCEPT !.sent = sent, !.code = 200, !.pc = pc]
    BY <1>1, <1>2 DEF Sent
  <1>4. /\ Whole(r) /\ r.gone = p.gone /\ r.req = p.req /\ r.entry = p.entry
        /\ r.pc = pc /\ r.tried = p.tried /\ r.status = p.status
        /\ r.log = p.log /\ r.usage = p.usage /\ r.code = 200 /\ r.sent = sent
    BY <1>3 DEF Invocation, Whole
  <1>5. /\ Charged(p) /\ RunEnded(p)
        /\ p.sent = 0 \/ p.sent \in 1 .. Chunks + 1
    BY AtStage
  <1>6. sent \in 1 .. Events /\ sent \in 0 .. Events /\ (sent # Events => sent \in 1 .. Chunks + 1)
    BY <1>1, <1>5, ChunksAssumption DEF Events
  <1>7. Charged(r) /\ RunEnded(r)
    BY <1>4, <1>5, Alike
  <1>8. Stage(r)
    <2>1. CASE sent = Events
      BY <1>2, <1>4, <1>6, <1>7, <2>1 DEF Stage, Told
    <2>2. CASE sent # Events
      BY <1>2, <1>4, <1>6, <1>7, <2>2 DEF Stage
    <2> QED
      BY <2>1, <2>2
  <1>9. Same(p, r)
    BY <1>4 DEF Same
  <1> QED
    BY <1>8, <1>9, Proceeds

LEMMA BrokenSound ==
    ASSUME NEW p, Invocation(p), p.pc = "recorded",
           NEW r, r = [p EXCEPT !.pc = "done"], p.status # "Failed"
    PROVE  Invocation(r) /\ r.entry = p.entry
  <1>1. /\ Whole(r) /\ r.gone = p.gone /\ r.req = p.req /\ r.entry = p.entry
        /\ r.pc = "done" /\ r.tried = p.tried /\ r.status = p.status
        /\ r.log = p.log /\ r.usage = p.usage /\ r.code = p.code /\ r.sent = p.sent
    BY DEF Invocation, Whole
  <1>2. /\ Charged(p) /\ RunEnded(p)
        /\ \/ p.code = 0 /\ p.sent = 0
           \/ p.code = 200 /\ p.sent \in 1 .. Chunks + 1
    BY AtStage
  <1>3. Charged(r) /\ RunEnded(r)
    BY <1>1, <1>2, Alike
  <1>4. p.sent \in 1 .. Chunks + 1 => p.sent \in 0 .. Events
    BY ChunksAssumption DEF Events
  <1>5. Told(r)
    BY <1>1, <1>2, <1>3, <1>4 DEF Told
  <1>6. Stage(r)
    BY <1>1, <1>3, <1>5 DEF Stage
  <1>7. Same(p, r)
    BY <1>1 DEF Same
  <1> QED
    BY <1>6, <1>7, Proceeds

Booked(p, pc) == [Rows(p) EXCEPT !.pc = pc, !.code = IF pc = "done" THEN 500 ELSE 0]

LEMMA RecordSound ==
    ASSUME NEW p, Invocation(p), p.pc = "executed",
           NEW pc \in {"recorded", "done"}, NEW r, r = Booked(p, pc)
    PROVE  Invocation(r) /\ r.entry = p.entry
  <1>1. Untold(p) /\ RunEnded(p)
    BY AtStage
  <1>0. PICK code : code = IF pc = "done" THEN 500 ELSE 0
    OBVIOUS
  <1>2. PICK usage : usage = IF p.status = "Failed" THEN 0 ELSE 1
    OBVIOUS
  <1>3. PICK log : log = <<p.status>>
    OBVIOUS
  <1>4. Rows(p) = [p EXCEPT !.log = log, !.usage = usage]
    <2>1. Append(p.log, p.status) = log /\ (IF p.status = "Failed" THEN p.usage ELSE p.usage + 1) = usage
      BY <1>1, <1>2, <1>3 DEF Untold
    <2> QED
      BY <2>1 DEF Rows
  <1>5. /\ Whole(r) /\ r.gone = p.gone /\ r.req = p.req /\ r.entry = p.entry
        /\ r.pc = pc /\ r.tried = p.tried /\ r.status = p.status
        /\ r.log = log /\ r.usage = usage /\ r.code = code /\ r.sent = p.sent
    <2>1. r = [p EXCEPT !.log = log, !.usage = usage, !.pc = pc, !.code = code]
      <3>1. Whole(p)
        BY DEF Invocation
      <3>2. r = [Rows(p) EXCEPT !.pc = pc, !.code = code]
        BY <1>0 DEF Booked
      <3> QED
        BY <1>4, <3>1, <3>2 DEF Whole
    <2> QED
      BY <2>1 DEF Invocation, Whole
  <1>6. Charged(r)
    BY <1>2, <1>3, <1>5 DEF Charged
  <1>7. RunEnded(r)
    <2>1. Targets(r) = Targets(p)
      BY <1>5 DEF Targets
    <2> QED
      BY <1>1, <1>5, <2>1 DEF RunEnded
  <1>8. r.sent = 0
    BY <1>1, <1>5 DEF Untold
  <1>9. Stage(r)
    <2>1. CASE pc = "recorded"
      BY <1>0, <1>5, <1>6, <1>7, <1>8, <2>1 DEF Stage
    <2>2. CASE pc = "done"
      BY <1>0, <1>5, <1>6, <1>7, <1>8, <2>2 DEF Stage, Told
    <2> QED
      BY <2>1, <2>2
  <1>10. Same(p, r)
    BY <1>5 DEF Same
  <1> QED
    BY <1>9, <1>10, Proceeds

\* An answer changes the stage and the code, and nothing else.
LEMMA AnsweredFields ==
    ASSUME NEW p, Whole(p), NEW code, NEW r, r = Answered(p, code)
    PROVE  /\ Whole(r) /\ r.gone = p.gone /\ r.req = p.req /\ r.entry = p.entry
           /\ r.pc = "done" /\ r.tried = p.tried /\ r.status = p.status
           /\ r.log = p.log /\ r.usage = p.usage /\ r.code = code /\ r.sent = p.sent
  <1>1. r = [pc |-> "done", gone |-> p.gone, req |-> p.req, entry |-> p.entry,
             judge |-> p.judge, tried |-> p.tried, status |-> p.status,
             log |-> p.log, usage |-> p.usage, code |-> code, sent |-> p.sent]
    BY DEF Whole, Answered
  <1>2. Whole(r)
    BY <1>1 DEF Whole
  <1> QED
    BY <1>1, <1>2

LEMMA UnrecordedSound ==
    ASSUME NEW p, Invocation(p), p.pc = "executed",
           NEW r, r = Answered(p, 500)
    PROVE  Invocation(r) /\ r.entry = p.entry
  <1>1. /\ Whole(r) /\ r.gone = p.gone /\ r.req = p.req /\ r.entry = p.entry
        /\ r.pc = "done" /\ r.tried = p.tried /\ r.status = p.status
        /\ r.log = p.log /\ r.usage = p.usage /\ r.code = 500 /\ r.sent = p.sent
    <2>1. Whole(p)
      BY DEF Invocation
    <2> QED
      BY <2>1, AnsweredFields
  <1>2. Untold(p) /\ RunEnded(p)
    BY AtStage
  <1>3. RunEnded(r)
    BY <1>1, <1>2, Alike
  <1>4. Told(r)
    BY <1>1, <1>2 DEF Told, Unrecorded, Untold
  <1>5. Stage(r)
    BY <1>1, <1>3, <1>4 DEF Stage
  <1>6. Same(p, r)
    BY <1>1 DEF Same
  <1> QED
    BY <1>5, <1>6, Proceeds

LEMMA AnswerSound ==
    ASSUME NEW p, Invocation(p), p.pc = "recorded",
           p.req.kind = "stream" => p.status = "Failed",
           NEW r, r = Answered(p, IF p.status = "Failed" THEN 502 ELSE 200)
    PROVE  Invocation(r) /\ r.entry = p.entry
  <1>1. PICK code : code = IF p.status = "Failed" THEN 502 ELSE 200
    OBVIOUS
  <1>2. /\ Whole(r) /\ r.gone = p.gone /\ r.req = p.req /\ r.entry = p.entry
        /\ r.pc = "done" /\ r.tried = p.tried /\ r.status = p.status
        /\ r.log = p.log /\ r.usage = p.usage /\ r.code = code /\ r.sent = p.sent
    <2>1. Whole(p) /\ r = Answered(p, code)
      BY <1>1 DEF Invocation
    <2> QED
      BY <2>1, AnsweredFields
  <1>3. /\ Charged(p) /\ RunEnded(p)
        /\ p.status = "Failed" => p.sent = 0
        /\ p.sent \in 0 .. Events
    <2>1. /\ Charged(p) /\ RunEnded(p)
          /\ p.sent = 0 \/ (p.sent \in 1 .. Chunks + 1 /\ p.status # "Failed")
      BY AtStage
    <2>2. 0 \in 0 .. Events /\ \A n \in 1 .. Chunks + 1 : n \in 0 .. Events
      BY ChunksAssumption DEF Events
    <2> QED
      BY <2>1, <2>2
  <1>4. Charged(r) /\ RunEnded(r)
    BY <1>2, <1>3, Alike
  <1>5. Told(r)
    BY <1>1, <1>2, <1>3, <1>4 DEF Told
  <1>6. Stage(r)
    BY <1>2, <1>4, <1>5 DEF Stage
  <1>7. Same(p, r)
    BY <1>2 DEF Same
  <1> QED
    BY <1>6, <1>7, Proceeds

LEMMA DisconnectSound ==
    ASSUME NEW p, Invocation(p), NEW r, r = [p EXCEPT !.gone = TRUE]
    PROVE  Invocation(r) /\ r.entry = p.entry
  <1>1. /\ Whole(r) /\ r.gone = TRUE /\ r.req = p.req /\ r.entry = p.entry
        /\ r.pc = p.pc /\ r.tried = p.tried /\ r.status = p.status
        /\ r.log = p.log /\ r.usage = p.usage /\ r.code = p.code /\ r.sent = p.sent
    BY DEF Invocation, Whole
  <1>2. Untold(p) => Untold(r)
    BY <1>1 DEF Untold
  <1>3. Unrun(p) => Unrun(r)
    BY <1>1, <1>2 DEF Unrun
  <1>4. TurnedAway(p) => TurnedAway(r)
    BY <1>1 DEF TurnedAway, Unrecorded
  <1>5. Told(p) => Told(r)
    <2>1. (Charged(p) => Charged(r)) /\ (Unrecorded(p) => Unrecorded(r))
      BY <1>1, Alike
    <2>2. r.code = p.code /\ r.sent = p.sent /\ r.status = p.status
      BY <1>1
    <2> QED
      BY <2>1, <2>2 DEF Told
  <1>6. (RunEnded(p) => RunEnded(r)) /\ (Charged(p) => Charged(r)) /\ Targets(r) = Targets(p)
    BY <1>1, Alike
  <1>7. Stage(r)
    <2>1. CASE p.pc \in {"found", "valid"}
      BY <1>1, <1>3, <2>1, AtStage DEF Stage
    <2>2. CASE p.pc = "trying"
      BY <1>1, <1>3, <2>2, <1>6, AtStage DEF Stage
    <2>3. CASE p.pc = "executed"
      BY <1>1, <1>2, <2>3, <1>6, AtStage DEF Stage
    <2>4. CASE p.pc = "recorded"
      BY <1>1, <2>4, <1>6, AtStage DEF Stage
    <2>5. CASE p.pc = "done"
      BY <1>1, <1>4, <1>5, <2>5, <1>6, AtStage DEF Stage
    <2> QED
      BY <2>1, <2>2, <2>3, <2>4, <2>5 DEF Invocation, Stage
  <1>8. Same(p, r)
    BY <1>1 DEF Same
  <1> QED
    BY <1>7, <1>8, Proceeds

LEMMA ModelStep ==
    ASSUME IInv, ModelSteps, UNCHANGED skillVars
    PROVE  IInv'
  <1>1. UNCHANGED <<skills, schemas, models>>
    BY DEF ModelSteps, skillVars
  <1>2. ASSUME NEW h \in Handlers, TryModel(h)
        PROVE  IInv'
    <2>1. proc[h].pc = "trying" /\ Invocation(proc[h]) /\ Candidates(proc[h].entry) # <<>>
      BY <1>2, BusyOnes DEF TryModel
    <2>2. PICK answers \in BOOLEAN :
              answers <=> Answers(proc[h], Candidates(proc[h].entry)[Len(proc[h].tried) + 1])
      BY Zenon
    <2>3. answers = Answers(proc[h], Candidates(proc[h].entry)[Len(proc[h].tried) + 1])
      BY <2>2 DEF Answers
    <2>4. PICK r :
            LET n == Len(proc[h].tried) + 1
                q == [proc[h] EXCEPT !.tried = Append(@, answers)]
            IN  r = IF answers THEN Ran(q, IF n = 1 THEN "Success" ELSE "Fallback")
                    ELSE IF n < Len(Candidates(proc[h].entry)) THEN q
                    ELSE Ran(q, "Failed")
      OBVIOUS
    <2>5. Move(h, r)
      BY <1>2, <2>3, <2>4 DEF TryModel
    <2>6. Invocation(r) /\ r.entry = proc[h].entry
      BY <2>1, <2>4, TryModelSound
    <2> QED
      BY <1>1, <2>1, <2>5, <2>6, GoesOn
  <1>3. ASSUME NEW h \in Handlers, SendEvent(h)
        PROVE  IInv'
    <2>1. proc[h].pc = "recorded" /\ Invocation(proc[h]) /\ proc[h].status # "Failed"
      BY <1>3, BusyOnes DEF SendEvent, Streams
    <2>2. PICK r : r = Sent(proc[h])
      OBVIOUS
    <2>3. Invocation(r) /\ r.entry = proc[h].entry
      BY <2>1, <2>2, SentSound
    <2>4. Move(h, r)
      BY <1>3, <2>2 DEF SendEvent
    <2> QED
      BY <1>1, <2>1, <2>3, <2>4, GoesOn
  <1>4. ASSUME NEW h \in Handlers, StreamBreaks(h)
        PROVE  IInv'
    <2>1. proc[h].pc = "recorded" /\ Invocation(proc[h]) /\ proc[h].status # "Failed"
      BY <1>4, BusyOnes DEF StreamBreaks, Streams
    <2>2. PICK r : r = [proc[h] EXCEPT !.pc = "done"]
      OBVIOUS
    <2>3. Invocation(r) /\ r.entry = proc[h].entry
      BY <2>1, <2>2, BrokenSound
    <2>4. Move(h, r)
      BY <1>4, <2>2 DEF StreamBreaks
    <2> QED
      BY <1>1, <2>1, <2>3, <2>4, GoesOn
  <1>5. ASSUME NEW h \in Handlers, NEW q \in Requests,
               ModelNotFound(h, q) \/ ModelListFails(h, q)
        PROVE  IInv'
    BY <1>1, <1>5, RefusedStep DEF ModelNotFound, ModelListFails
  <1>6. ASSUME NEW h \in Handlers, NothingToTry(h)
        PROVE  IInv'
    <2>1. /\ proc[h].pc = "trying" /\ Invocation(proc[h])
          /\ Candidates(proc[h].entry) = <<>>
      BY <1>6, BusyOnes DEF NothingToTry
    <2>2. PICK r : r = Ran(proc[h], "Failed")
      OBVIOUS
    <2>3. Invocation(r) /\ r.entry = proc[h].entry
      BY <2>1, <2>2, NothingTriedSound
    <2>4. Move(h, r)
      BY <1>6, <2>2 DEF NothingToTry
    <2> QED
      BY <1>1, <2>1, <2>3, <2>4, GoesOn
  <1> QED
    BY <1>1, <1>2, <1>3, <1>4, <1>5, <1>6, FindModelStep DEF ModelSteps

LEMMA RecorderStep ==
    ASSUME IInv, RecorderSteps, UNCHANGED <<skills, schemas, models>>
    PROVE  IInv'
  <1>1. ASSUME NEW h \in Handlers, Record(h)
        PROVE  IInv'
    <2>1. proc[h].pc = "executed" /\ Invocation(proc[h])
      BY <1>1, BusyOnes DEF Record
    <2>2. PICK r : r = [Rows(proc[h]) EXCEPT !.pc = "recorded"]
      OBVIOUS
    <2>3. r = Booked(proc[h], "recorded")
      <3>1. proc[h].code = 0 /\ Whole(proc[h])
        BY <2>1, AtStage DEF Untold, Invocation
      <3>2. r.code = 0
        BY <2>2, <3>1 DEF Rows, Whole
      <3> QED
        BY <2>2, <3>1, <3>2 DEF Booked, Rows, Whole
    <2>4. Invocation(r) /\ r.entry = proc[h].entry
      BY <2>1, <2>3, RecordSound
    <2>5. Move(h, r)
      BY <1>1, <2>2 DEF Record
    <2> QED
      BY <2>1, <2>4, <2>5, GoesOn
  <1>2. ASSUME NEW h \in Handlers, RecordFails(h)
        PROVE  IInv'
    <2>1. proc[h].pc = "executed" /\ Invocation(proc[h])
      BY <1>2, BusyOnes DEF RecordFails
    <2>2. CASE Move(h, Answered(proc[h], 500))
      <3>1. PICK r : r = Answered(proc[h], 500)
        OBVIOUS
      <3>2. Invocation(r) /\ r.entry = proc[h].entry
        BY <2>1, <3>1, UnrecordedSound
      <3> QED
        BY <2>1, <2>2, <3>1, <3>2, GoesOn
    <2>3. CASE Move(h, Answered(Rows(proc[h]), 500))
      <3>1. PICK r : r = Booked(proc[h], "done")
        OBVIOUS
      <3>2. Invocation(r) /\ r.entry = proc[h].entry
        BY <2>1, <3>1, RecordSound
      <3> QED
        BY <2>1, <2>3, <3>1, <3>2, GoesOn DEF Answered, Booked
    <2> QED
      BY <1>2, <2>2, <2>3 DEF RecordFails
  <1>3. ASSUME NEW h \in Handlers, Answer(h)
        PROVE  IInv'
    <2>1. /\ proc[h].pc = "recorded" /\ Invocation(proc[h])
          /\ proc[h].req.kind = "stream" => proc[h].status = "Failed"
      BY <1>3, BusyOnes DEF Answer
    <2>2. PICK r : r = Answered(proc[h], IF proc[h].status = "Failed" THEN 502 ELSE 200)
      OBVIOUS
    <2>3. Invocation(r) /\ r.entry = proc[h].entry
      BY <2>1, <2>2, AnswerSound
    <2>4. Move(h, r)
      BY <1>3, <2>2 DEF Answer
    <2> QED
      BY <2>1, <2>3, <2>4, GoesOn
  <1>4. ASSUME NEW h \in Handlers, Finish(h)
        PROVE  IInv'
    BY <1>4, OneMoves DEF Finish, Sound, Idle
  <1>5. ASSUME NEW h \in Handlers, Disconnect(h)
        PROVE  IInv'
    <2>1. proc[h].pc # "idle" /\ Invocation(proc[h])
      BY <1>5, BusyOnes DEF Disconnect
    <2>2. PICK r : r = [proc[h] EXCEPT !.gone = TRUE]
      OBVIOUS
    <2>3. Invocation(r) /\ r.entry = proc[h].entry
      BY <2>1, <2>2, DisconnectSound
    <2>4. Move(h, r)
      BY <1>5, <2>2 DEF Disconnect
    <2> QED
      BY <2>1, <2>3, <2>4, GoesOn
  <1> QED
    BY <1>1, <1>2, <1>3, <1>4, <1>5 DEF RecorderSteps

-----------------------------------------------------------------------------
LEMMA InitIInv == InvocationsInit => IInv
  <1> SUFFICES ASSUME InvocationsInit PROVE IInv
    OBVIOUS
  <1>1. Registries
    BY SkillsAssumption, ModelsAssumption
       DEF InvocationsInit, SkillInit, ModelInit, Registries, Vouched, Listed
  <1>2. \A h \in Handlers : proc[h] = Idle
    BY DEF InvocationsInit
  <1>3. RunsAsApproved
    BY <1>2 DEF RunsAsApproved, Busy, Idle
  <1> QED
    BY <1>1, <1>2, <1>3 DEF InvocationsInit, IInv, Sound

\* Invocations and edits keep what the theorems below read off: the stages
\* of every invocation and the registries' entries.
THEOREM Inductive == Spec => []IInv
  <1>1. IInv /\ [Next]_vars => IInv'
    <2> SUFFICES ASSUME IInv, [Next]_vars PROVE IInv'
      OBVIOUS
    <2>1. CASE (SkillEdits \/ SkillSteps) /\ UNCHANGED models
      BY <2>1, SkillEditStep, SkillStep
    <2>2. CASE (ModelEdits \/ ModelSteps) /\ UNCHANGED skillVars
      BY <2>2, ModelEditStep, ModelStep
    <2>3. CASE RecorderSteps /\ UNCHANGED <<skills, schemas, models>>
      BY <2>3, RecorderStep
    <2>4. CASE UNCHANGED vars
      <3>1. Registries' /\ RunsAsApproved'
        BY <2>4 DEF vars, IInv, Registries, Vouched, RunsAsApproved, Busy
      <3> QED
        BY <2>4, <3>1 DEF vars, IInv
    <2> QED
      BY <2>1, <2>2, <2>3, <2>4 DEF Next
  <1> QED
    BY <1>1, InitIInv, PTL DEF Spec

\* A run of a skill or a model goes against an entry exactly as published.
THEOREM ApprovedRuns == Spec => []RunsAsApproved
  <1>1. IInv => RunsAsApproved
    BY DEF IInv
  <1> QED
    BY <1>1, Inductive, PTL

LEMMA ChargedAsTold ==
    ASSUME NEW p, Invocation(p)
    PROVE  /\ p.code = 200 => p.log = <<p.status>> /\ p.status # "Failed" /\ p.usage = 1
           /\ p.code = 502 => p.log = <<"Failed">> /\ p.usage = 0
           /\ p.code \in {400, 404} => p.log = <<>> /\ p.usage = 0 /\ p.tried = <<>>
           /\ p.sent > 0 => p.usage = 1
  <1>1. \/ Untold(p)
        \/ /\ Charged(p)
           /\ \/ p.code = 0 /\ p.sent = 0
              \/ p.code = 200 /\ p.sent \in 1 .. Chunks + 1 /\ p.status # "Failed"
        \/ TurnedAway(p)
        \/ Told(p)
    BY DEF Invocation, Stage, Unrun
  <1>2. CASE Untold(p)
    BY <1>2 DEF Untold
  <1>3. CASE /\ Charged(p)
             /\ \/ p.code = 0 /\ p.sent = 0
                \/ p.code = 200 /\ p.sent \in 1 .. Chunks + 1 /\ p.status # "Failed"
    BY <1>3 DEF Charged
  <1>4. CASE TurnedAway(p)
    BY <1>4 DEF TurnedAway, Unrecorded
  <1>5. CASE Told(p)
    BY <1>5 DEF Told, Charged
  <1> QED
    BY <1>1, <1>2, <1>3, <1>4, <1>5

\* A client's answer, its log row and its charge agree.
THEOREM ChargedAsAnswered == Spec => []AnsweredAsCharged
  <1>1. IInv => AnsweredAsCharged
    BY BusyOnes, ChargedAsTold DEF AnsweredAsCharged, Busy
  <1> QED
    BY <1>1, Inductive, PTL

LEMMA Pairs ==
    /\ <<TRUE>> # <<>> /\ <<FALSE>> # <<>> /\ <<FALSE, TRUE>> # <<>> /\ <<FALSE, FALSE>> # <<>>
    /\ <<TRUE>> # <<FALSE>> /\ <<TRUE>> # <<FALSE, TRUE>> /\ <<TRUE>> # <<FALSE, FALSE>>
    /\ <<FALSE>> # <<FALSE, TRUE>> /\ <<FALSE, FALSE>> # <<FALSE, TRUE>>
    /\ Len(<<TRUE>>) = 1 /\ Len(<<FALSE>>) = 1
    /\ Len(<<FALSE, TRUE>>) = 2 /\ Len(<<FALSE, FALSE>>) = 2
    /\ Len(<<>>) = 0 /\ <<>> # <<TRUE>> /\ <<>> # <<FALSE, TRUE>>
  OBVIOUS

\* None of the targets tried has answered.
InVain(tried) == \A i \in DOMAIN tried : ~tried[i]

LEMMA InVainOrNot ==
    /\ InVain(<<>>) /\ InVain(<<FALSE>>) /\ InVain(<<FALSE, FALSE>>)
    /\ ~InVain(<<TRUE>>) /\ ~InVain(<<FALSE, TRUE>>)
  <1>1. InVain(<<>>)
    BY DEF InVain
  <1>2. InVain(<<FALSE>>)
    <2>1. DOMAIN <<FALSE>> = {1} /\ ~<<FALSE>>[1]
      OBVIOUS
    <2> QED
      BY <2>1, Zenon DEF InVain
  <1>3. InVain(<<FALSE, FALSE>>)
    <2>1. DOMAIN <<FALSE, FALSE>> = {1, 2} /\ ~<<FALSE, FALSE>>[1] /\ ~<<FALSE, FALSE>>[2]
      OBVIOUS
    <2> QED
      BY <2>1, Zenon DEF InVain
  <1>4. ~InVain(<<TRUE>>)
    <2>1. 1 \in DOMAIN <<TRUE>> /\ <<TRUE>>[1]
      OBVIOUS
    <2> QED
      BY <2>1, Zenon DEF InVain
  <1>5. ~InVain(<<FALSE, TRUE>>)
    <2>1. 2 \in DOMAIN <<FALSE, TRUE>> /\ <<FALSE, TRUE>>[2]
      OBVIOUS
    <2> QED
      BY <2>1, Zenon DEF InVain
  <1> QED
    BY <1>1, <1>2, <1>3, <1>4, <1>5

LEMMA RunLogged ==
    ASSUME NEW p, Invocation(p), p.log # <<>>
    PROVE  /\ p.log = <<"Success">> <=> p.tried = <<TRUE>>
           /\ p.log = <<"Fallback">> <=> p.tried = <<FALSE, TRUE>>
           /\ p.log = <<"Failed">> <=> Len(p.tried) = Targets(p) /\ InVain(p.tried)
  <1>1. RunEnded(p) /\ p.log = <<p.status>>
    <2>1. \/ Unrecorded(p)
          \/ RunEnded(p) /\ Charged(p)
      BY DEF Invocation, Stage, Unrun, Untold, Unrecorded, TurnedAway, Told
    <2> QED
      BY <2>1 DEF Unrecorded, Charged
  <1>2. CASE p.status = "Success" /\ p.tried = <<TRUE>>
    BY <1>1, <1>2, Pairs, InVainOrNot
  <1>3. CASE p.status = "Fallback" /\ p.tried = <<FALSE, TRUE>>
    BY <1>1, <1>3, Pairs, InVainOrNot
  <1>4. CASE p.status = "Failed" /\ p.tried = <<FALSE>> /\ Targets(p) = 1
    BY <1>1, <1>4, Pairs, InVainOrNot
  <1>5. CASE p.status = "Failed" /\ p.tried = <<FALSE, FALSE>> /\ Targets(p) = 2
    BY <1>1, <1>5, Pairs, InVainOrNot
  <1>6. CASE p.status = "Failed" /\ p.tried = <<>> /\ Targets(p) = 0
    BY <1>1, <1>6, Pairs, InVainOrNot
  <1> QED
    BY <1>1, <1>2, <1>3, <1>4, <1>5, <1>6, Zenon DEF RunEnded, Ends

\* The log row of a run says which target answered, or that none did.
THEOREM LoggedRuns == Spec => []RunAsLogged
  <1>1. IInv => RunAsLogged
    BY BusyOnes, RunLogged DEF RunAsLogged, Busy, Targets, InVain
  <1> QED
    BY <1>1, Inductive, PTL

LEMMA InvocationTypes ==
    ASSUME NEW p, Invocation(p)
    PROVE  IsProc(p)
  <1>1. p.status \in Statuses \cup {"none"}
    BY DEF Invocation, Stage, Unrun, RunEnded, Ends, TurnedAway, Statuses
  <1>2. p.tried \in {<<>>, <<TRUE>>, <<FALSE>>, <<FALSE, FALSE>>, <<FALSE, TRUE>>}
    BY Zenon DEF Invocation, Stage, RunEnded, Ends, TurnedAway
  <1>3. /\ p.usage \in 0 .. 1 /\ p.code \in {0, 200, 400, 404, 500, 502}
        /\ p.sent \in 0 .. Events
    <2>1. 0 \in 0 .. Events /\ \A n \in 1 .. Chunks + 1 : n \in 0 .. Events
      BY ChunksAssumption DEF Events
    <2>2. \/ Untold(p)
          \/ /\ Charged(p)
             /\ \/ p.code = 0 /\ p.sent = 0
                \/ p.code = 200 /\ p.sent \in 1 .. Chunks + 1
          \/ TurnedAway(p)
          \/ Told(p)
      BY DEF Invocation, Stage, Unrun
    <2>3. CASE Untold(p)
      BY <2>1, <2>3 DEF Untold
    <2>4. CASE /\ Charged(p)
               /\ \/ p.code = 0 /\ p.sent = 0
                  \/ p.code = 200 /\ p.sent \in 1 .. Chunks + 1
      BY <2>1, <2>4 DEF Charged
    <2>5. CASE TurnedAway(p)
      BY <2>1, <2>5 DEF TurnedAway, Unrecorded
    <2>6. CASE Told(p)
      BY <2>1, <2>6 DEF Told, Charged, Unrecorded
    <2> QED
      BY <2>2, <2>3, <2>4, <2>5, <2>6
  <1>4. p.log \in {<<>>} \cup {<<s>> : s \in Statuses}
    <2>1. p.log = <<>> \/ (p.log = <<p.status>> /\ RunEnded(p))
      BY DEF Invocation, Stage, Unrun, Untold, Charged, TurnedAway, Told, Unrecorded
    <2>2. RunEnded(p) => p.status \in Statuses
      BY DEF RunEnded, Ends, Statuses
    <2> QED
      BY <2>1, <2>2
  <1>5. p.pc \in {"idle", "found", "valid", "trying", "executed", "recorded", "done"}
    BY DEF Invocation, Stage
  <1>6. p.gone \in BOOLEAN /\ p.req \in Requests
    BY DEF Invocation
  <1> QED
    BY <1>1, <1>2, <1>3, <1>4, <1>5, <1>6 DEF IsProc

\* The variables hold what Invocations says they hold.
THEOREM TypeCorrect == Spec => []TypeOK
  <1>1. IsProc(Idle)
    BY DEF IsProc, Idle
  <1>2. ASSUME IInv
        PROVE  TypeOK
    <2>1. \A h \in Handlers : IsProc(proc[h])
      BY <1>1, <1>2, InvocationTypes DEF IInv, Sound
    <2>2. \A items \in {skills, schemas, models} : Cardinality(Ids(items)) = Len(items)
      BY <1>2, DistinctIds DEF IInv, Registries
    <2>3. /\ \A b \in Listed(skills) \cup Listed(schemas) : b.status \in {"Draft", "Published"}
          /\ \A m \in Listed(models) : m.status \in {"Draft", "Active"}
      BY <1>2 DEF IInv, Registries, IsRegistry, Listed
    <2> QED
      BY <1>2, <2>1, <2>2, <2>3 DEF IInv, TypeOK
  <1> QED
    BY <1>2, Inductive, PTL
=============================================================================
