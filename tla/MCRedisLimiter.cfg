SPECIFICATION FairRedisSpec
CONSTANTS
    llm = llm
    llm_a = llm_a
    llm_b = llm_b
    open_b = open_b
    h1 = h1
    h2 = h2
    near = near
    far = far
    Keys <- ReplicaKeys
    Callers = {h1, h2}
    Limit <- RouteLimit
    Window <- RouteWindow
    Clocks = {near, far}
    ClockOf <- ReplicaClock
    MaxNow = 2
    Counters = {llm, open_b}
    CounterOf <- SharedCounter
    LocalKeys <- HandlerKeys
    RedisClock = near
    MaxAhead = 1
    MaxBehind = 0
    Apart <- OneWindow
    MaxCalls <- CallsByBackend
    MaxTime <- TimeByBackend
    MaxOrphans = 1
    MaxRestarts = 1
INVARIANTS
    RedisTypeOK
    OvershootBounded
    DenialJustified
    SharedWindow
    RefusalJustified
PROPERTIES
    Decided
CHECK_DEADLOCK FALSE
