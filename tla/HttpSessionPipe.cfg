CONSTANTS
    NrConns = 2
    Kinds <- GetKinds
    MaxRequests = 2
    Pipelining = TRUE
    MayClose = TRUE
    MayServeOn = FALSE
    EntityBuf = 2
    MaxMetadata = 6
    NoHeader = noheader
SPECIFICATION SessionSpec
INVARIANTS SessionTypeOK AnswersMatch 
CHECK_DEADLOCK FALSE
