\* What a load resolves to: layers, aliases, environment, documents, units, differences.
CONSTANTS
    PathOrder <- MCPathOrder
    Variables <- MCVariables
    EnvTexts <- MCEnvTexts
    DocSet <- MCDocSet
    MaxOps = 3
    MaxCount = 20000
    UnitTexts <- MCUnitTexts
SPECIFICATION MCSpec
CHECK_DEADLOCK FALSE
INVARIANTS AliasesOnlyFillGaps EmptyIsUnset ExplainedIsLoaded DiffIsExact UnitsAreExact
