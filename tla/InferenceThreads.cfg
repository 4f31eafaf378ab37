SPECIFICATION FairSpec
CONSTANTS
    Callers = {c1, c2}
    Pids = {p1, p2, p3}
    Requests = {r1, r2}
    NoCaller = NoCaller
    NoPid = NoPid
    NoRequest = NoRequest
    InferenceTimeout = 1
    StartupTimeout = 3
    GunicornTimeout = 2
    MaxKills = 1
INVARIANTS
    OneWorker
    NoAbandonedWork
PROPERTIES
    LockIsReleased
