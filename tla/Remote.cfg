SPECIFICATION Spec
CONSTANTS
    Fetchers = {f1, f2}
    Sinks = {s1, s2}
    Reloaders = {r1}
    Nobody = Nobody
    CounterMax = 1
    MaxSets = 2
    MaxClears = 1
    MaxCalls = 3
SYMMETRY Symmetric
INVARIANTS StatusBelongsToSource LateDeliveryIsUndone
PROPERTY ImplementsFencedSlot
CHECK_DEADLOCK FALSE
