CONSTANTS
    NrSlots = 2
    Tasks = {t1, t2}
    NoTask = none
SPECIFICATION PoolSpec
INVARIANTS OneOwner SignalIsHeard
PROPERTIES KeepsItsPromise
