SPECIFICATION SuiteSpec
CONSTANTS
    Keys <- MCKeys
    Values = {1, 2}
    Secrets = {"password"}
    Required = {"host", "password"}
    Refused = {}
    Threads = {t1}
    Choices <- OverrideChoices
    Deployments <- FullOnly
    MaxChanges = 3
    MaxCalls = 2
    MaxCrashes = 1
    Writers = {w1, w2}
    Temps = {a, b}
    Target = target
    NoFile = NoFile
    MaxWrites = 2
    Parts = {"lifecycle"}
SYMMETRY Symmetric
INVARIANTS RecoveryKeepsOverrides
CHECK_DEADLOCK FALSE
