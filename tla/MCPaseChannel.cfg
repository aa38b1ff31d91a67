SPECIFICATION PaseSpec
CONSTANTS
    h1 = h1
    h2 = h2
    h3 = h3
    None = None
    Handshakes <- MCHandshakes
    Knows <- MCKnows
    MaxFailures = 2
INVARIANTS HeldByResponder AttemptsBounded SessionsAreProved
 
