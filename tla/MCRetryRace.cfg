SPECIFICATION FairSpec
CONSTANTS
    Docs = {d1}
    Keys = {k1}
    Requests = {r1, r2}
    MaxChunks = 1
PROPERTIES SucceededIsTerminal
CHECK_DEADLOCK FALSE
