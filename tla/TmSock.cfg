CONSTANTS
    NrDescs = 2
    Threads = {a, b, c}
    NrConns = 4
    NrFds = 3
    MaxClock = 1
    None = none
SPECIFICATION Spec
SYMMETRY Symmetry
INVARIANTS TableTypeOK TableOfReceivers NoSocketLeaked
PROPERTIES OldestIsForced
