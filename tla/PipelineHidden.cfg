\* A trusted failure beside a doubtful one.
CONSTANTS
    r1 = r1  r2 = r2  r3 = r3  d1 = d1  d2 = d2  d3 = d3  w1 = w1
    Missing = Missing
    Unmapped = Unmapped
    WholePlan = WholePlan
    Rooms = {r1, r2, r3}
    Doors = {d1, d2, d3}
    Windows = {w1}
    Categories <- MCCategories
    Vocabulary <- MCVocabulary
    Requests <- NumericRequests
SPECIFICATION Spec
CHECK_DEADLOCK FALSE
INVARIANT FailureIsReported
