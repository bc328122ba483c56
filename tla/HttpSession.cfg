CONSTANTS
    NrConns = 2
    Kinds <- WholeKinds
    MaxRequests = 2
    Pipelining = FALSE
    MayClose = FALSE
    MayServeOn = TRUE
    EntityBuf = 2
    MaxMetadata = 9
    NoHeader = noheader
SPECIFICATION FairSessionSpec
INVARIANTS AnswersMatch EntityIsOwn
PROPERTIES EveryRequestAnswered
CHECK_DEADLOCK FALSE
