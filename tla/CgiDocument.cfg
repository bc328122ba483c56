CONSTANTS
    MaxEntity = 4
    HeaderLines = 1
    BodyBytes = 4
    PipeSize = 2
    ReadSize = 2
SPECIFICATION Spec
INVARIANTS DocumentTypeOK AnswerIsOutput EntityInOrder
PROPERTIES DocumentEnds
CHECK_DEADLOCK FALSE
