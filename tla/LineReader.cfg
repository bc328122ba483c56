CONSTANTS
    Bytes = {cr, lf, x}
    CR = cr
    LF = lf
    NoLine = noline
    PastEnd = {lf, x}
    MaxPiece = 3
    MaxBytes = 7
    AskSizes = {0, 1, 3}
SPECIFICATION ReaderSpec
PROPERTIES ReaderImplementsStream
CHECK_DEADLOCK FALSE
