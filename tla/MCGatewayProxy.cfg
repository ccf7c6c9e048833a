SPECIFICATION Spec
CONSTANTS
    llm = llm
    a = a
    b = b
    h1 = h1
    h2 = h2
    Handlers = {h1, h2}
    Routes = {llm}
    Upstreams = {a, b}
    Targets <- OneTarget
    Limited = {llm}
    Requests <- Mixed
    FailureThreshold = 2
    Cooldown = 1
    Recorders = {"postgres", "memory"}
SYMMETRY HandlerSymmetry
INVARIANTS
    TypeOK
    OneAnswer
    LogTruthful
    AnswerLogged
    NoReplay
