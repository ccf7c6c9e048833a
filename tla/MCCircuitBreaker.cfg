SPECIFICATION FairSpec
CONSTANTS
    llm = llm
    skill = skill
    h1 = h1
    h2 = h2
    h3 = h3
    Keys = {llm, skill}
    Callers = {h1, h2, h3}
    FailureThreshold = 3
    Cooldown = 2
INVARIANTS
    TypeOK
    TripJustified
    FailuresBounded
PROPERTIES
    Reopens
