CONSTANTS
    good = good
    bad = bad
    Handlers = {h1}
    Recorders = {"postgres", "memory"}
    Requests <- MCRequests
    Fold <- MCFold
    SkillForms <- MCSkillForms
    SchemaForms <- MCSchemaForms
    SkillSeeds <- MCSkillSeeds
    SchemaSeeds <- MCSchemaSeeds
    FoldModel <- MCFoldModel
    ModelForms <- MCModelForms
    ModelSeeds <- MCModelSeeds
    Down = {"fail"}
    Chunks = 2
SPECIFICATION Spec
INVARIANTS
    TypeOK
    AnsweredAsCharged
    RunAsLogged
    RunsAsApproved
