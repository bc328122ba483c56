CONSTANTS
    NrSlots = 2
    Tasks = {t1, t2}
    NoTask = none
SPECIFICATION WeakSpec
INVARIANTS PoolTypeOK NoSlotLeaked
CHECK_DEADLOCK FALSE
