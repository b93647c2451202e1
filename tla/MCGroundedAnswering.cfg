SPECIFICATION Spec
CONSTANTS
    Chunks <- MCChunks
    TopKs = {2, 3}
    FlaggedSets <- MCFlaggedSets
    MaxMarkers = 2
    MaxRetries = 1
    MaxItems = 3
    MinScore = 0
    RequireMedium = TRUE
    MaxChanges = 2
INVARIANTS TypeOK DominanceRespected WeakEvidenceIsNotTrusted
           LabelsNameTheirSource CitedWasSearchable
