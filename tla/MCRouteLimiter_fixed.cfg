SPECIFICATION Spec
CONSTANTS
    llm = llm
    skill = skill
    open = open
    here = here
    h1 = h1
    h2 = h2
    h3 = h3
    Keys <- OneRoute
    Callers = {h1, h2, h3}
    Limit <- OneRouteLimit
    Window <- OneRouteWindow
    Clocks = {here}
    ClockOf <- OneRouteClock
    MaxNow = 3
SYMMETRY Handlers
INVARIANTS
    FixedWindow
