SPECIFICATION Spec
CONSTANTS
    Vocabulary <- MCVocabulary
    Plans <- MCPlans
    ExportInputs <- MCExportInputs
    EngineInputs <- MCEngineInputs
    Edits <- MCEdits
    Elevations <- MCElevations
    MaxRequests = 2
INVARIANTS
    ServedFileIsThePlan
    ServedFileIsSound
    NoFileOutlivesItsRequest
    EngineValuesAreStated
    DoubtReachesEngine
CHECK_DEADLOCK FALSE
