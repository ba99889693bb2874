SPECIFICATION SuiteSpec
CONSTANTS
    Keys <- MCKeys
    Values = {1, 2, 3}
    Secrets = {"password"}
    Required = {"host", "password"}
    Refused = {3}
    Threads = {t1, t2}
    Choices <- LayeredChoices
    Deployments <- EveryDeployment
    MaxChanges = 3
    MaxCalls = 3
    MaxCrashes = 1
    Writers = {w1, w2}
    Temps = {a, b}
    Target = target
    NoFile = NoFile
    MaxWrites = 2
    Parts = {"lifecycle", "write"}
SYMMETRY Symmetric
INVARIANTS ServingIsValid MarkedCacheIsRedacted LoadsRespectPrecedence TargetIsWhole
PROPERTY OwnFilesOnly
CHECK_DEADLOCK FALSE
