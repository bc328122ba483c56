CONSTANTS
    c1 = c1
    c2 = c2
    h1 = h1
    h2 = h2
    Clients <- MCClients
    Handles <- MCHandles
    NoClient = none
    nr_slots = 2
    expir_delay = 0
    MaxMessages = 1
SPECIFICATION Spec
INVARIANTS TimedTypeOK 
 
