SPECIFICATION FairProxySpec
CONSTANTS
    Callers = {c1}
    Jobs = {j1, j2}
    PublicKinds = {json, html}
    EngineKinds = {html}
    NoJob = NoJob
    NoKind = NoKind
    GetRetries = 2
    ReadTimeout = 2
    WaitTimeout = 3
    MaxFaults = 2
INVARIANTS
    SubmissionOutcome
PROPERTIES
    EveryCallAnswered
