\* The concurrent building blocks, one to a behaviour.
CONSTANTS
    Threads = {t1, t2}
    Free = free
    N = 3
    MaxVersions = 2
    MaxReloads = 3
    Watches = {w1, w2}
    Debounce = 2
    Deferral = 2
    MaxEdits = 2
    MaxNoise = 1
    Pollers = {p1, p2, p3}
    NoTask = notask
    Tasks = {w1, w2}
    Storers = {c1, c2}
    Nobody = nobody
    WAITERS = 1
    Modulus = 2
    EvictionLimit = 1
    MaxStores = 2
    Users = {w1, w2}
    Keys = {a, b}
    Absent = absent
    MaxUses = 4
    Workers = {w1, w2}
    MaxAsks = 2
    MaxMoves = 1
    MaxDeliveries = 2
    Stops = {1, 2}
SPECIFICATION SuiteSpec
CHECK_DEADLOCK FALSE
INVARIANTS GroupIsAtomic WatchIsExact OneSlotPerKey AnswersAreRight LoopAnswersAreRight
PROPERTIES EveryWaitEnds ComesToRest
