SPECIFICATION Spec
CONSTANTS
    Inputs <- MCInputs
    Clauses <- MCClauses
    MaxCrashes = 1
INVARIANTS
    FindingsAreDistinct
    TopicsNameTheElement
    MeasuredOnce
    NoDoubtIsSilent
    CrashIsVisible
CHECK_DEADLOCK FALSE
