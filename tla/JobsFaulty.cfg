SPECIFICATION FairSpec
CONSTANTS
    Jobs = {j1, j2}
    Workers = {w1}
    Kinds = {json, html}
    ArtifactKinds = {html}
    NoJob = NoJob
    NoKind = NoKind
    Ttl = 1
    TtlPasses = FALSE
    SharedVolume = FALSE
    CorpusUsable = TRUE
    MaxFaults = 1
    MaxCrashes = 1
    MaxRedeliveries = 0
INVARIANTS
    UploadAwaitsWorker
    ServedReportWasPublished
PROPERTIES
    KeepsLifecycle
