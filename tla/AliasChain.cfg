\* A chain of aliases with a default in its middle.
CONSTANTS
    PathOrder <- MCPathOrder
    Variables <- MCVariables
    EnvTexts <- MCEnvTexts
    DocSet <- MCDocSet
    MaxOps = 3
    MaxCount = 20000
    UnitTexts <- MCUnitTexts
SPECIFICATION MCSpec
CHECK_DEADLOCK FALSE
INVARIANT ChainsIgnoreTheAlphabet
