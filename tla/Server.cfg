CONSTANTS
    NrSlots = 2
    Tasks = {v1, v2}
    NoTask = none
    Modular = {v1, v2}
    MaxWaiting = 1
SPECIFICATION Spec
INVARIANTS ServerTypeOK BoundBeforeAccept SomebodyAccepts NobodyElseAccepts
PROPERTIES ClientIsAccepted
