CONSTANTS
    c1 = c1
    c2 = c2
    c3 = c3
    h1 = h1
    h2 = h2
    Clients <- MCClients
    Handles <- MCHandles
    Listener = listener
    NoClient = none
    End = end
    NR_MAX_CONNECTIONS = 2
    Expiry = 1
    MaxMessages = 1
SPECIFICATION Spec
INVARIANTS ResTypeOK BooksBalance BitsAreFresh
 
CHECK_DEADLOCK FALSE
