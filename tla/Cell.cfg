SPECIFICATION SuiteSpec
CONSTANTS
    Writers = {w1, w2}
    Reporters = {r1, r2}
    Owners = {o1, o2}
    EventOwners = {o2}
    Tasks = {k1}
    MaxInstalls = 2
    MaxFailures = 3
    CounterMax = 2
INVARIANTS HookCallsAreTrue RegisteredHooksTold FailuresCounted TasksFollowChanges
PROPERTY ParkedTaskHearsOfChange
CHECK_DEADLOCK FALSE
