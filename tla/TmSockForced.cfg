CONSTANTS
    NrDescs = 1
    Threads = {a, b}
    NrConns = 5
    NrFds = 4
    MaxClock = 2
    None = none
SPECIFICATION Spec
SYMMETRY Symmetry
INVARIANTS OnlyOwnConnection
