\* Every clause form on doubtful, missing and unplaced data; every graph of three
\* rooms and three doors; every mode, source and fault.
CONSTANTS
    r1 = r1  r2 = r2  r3 = r3  d1 = d1  d2 = d2  d3 = d3  w1 = w1
    Missing = Missing
    Unmapped = Unmapped
    WholePlan = WholePlan
    Rooms = {r1, r2, r3}
    Doors = {d1, d2, d3}
    Windows = {w1}
    Categories <- MCCategories
    Vocabulary <- MCVocabulary
    Requests <- AllRequests
SPECIFICATION Spec
CHECK_DEADLOCK FALSE
INVARIANTS
    MeasuredVerdictsAreTrue
    TrustedElementsAreDecided
    ResultIsConsistent
    EgressFailuresAreReal
    ConnectionsAreReal
    StatusIsEarned
