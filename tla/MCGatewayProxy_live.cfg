SPECIFICATION FairSpec
CONSTANTS
    llm = llm
    a = a
    b = b
    h1 = h1
    h2 = h2
    Handlers = {h1, h2}
    Routes = {llm}
    Upstreams = {a, b}
    Targets <- OneTarget
    Limited = {llm}
    Requests <- Awkward
    FailureThreshold = 1
    Cooldown = 1
    Recorders = {"postgres"}
PROPERTIES
    BreakerKept
    Served
