SPECIFICATION TimedSpec
CONSTANTS
    Jobs = {j1}
    Workers = {w1, w2}
    Kinds = {json, html}
    ArtifactKinds = {html}
    NoJob = NoJob
    NoKind = NoKind
    Ttl = 2
    TtlPasses = TRUE
    SharedVolume = TRUE
    CorpusUsable = TRUE
    MaxFaults = 1
    MaxCrashes = 1
    MaxRedeliveries = 1
INVARIANTS
    CompletedHasArtifacts
PROPERTY
    JobsAgeOut
