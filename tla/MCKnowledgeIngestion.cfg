\* The model may stop: every document is uploaded, no job has failed.
SPECIFICATION FairSpec
CONSTANTS
    Docs = {d1, d2}
    Keys = {k1, k2}
    Requests = {r1, r2}
    MaxChunks = 2
INVARIANTS TypeOK OneJobPerKey JobHasBlob ChunksOfOneRun SucceededIsSearchable NoneAbandoned
PROPERTIES ImplementsLifecycle JobsSettle
CHECK_DEADLOCK FALSE
