CONSTANTS
    c1 = c1
    c2 = c2
    c3 = c3
    Clients <- ThreeClients
    NoClient = none
    NSOCKIO = 3
    MaxRequests <- Asks
    MaxAhead = 1
    Chunks <- Files
    MayLeave <- Leaves
SPECIFICATION Spec
INVARIANTS StageTypeOK TableConsistent LoopInsideTable HandlerIsCallable SessionsMatchTable OwnLines AnswersFit
PROPERTIES EveryRequestAnswered
CHECK_DEADLOCK FALSE
