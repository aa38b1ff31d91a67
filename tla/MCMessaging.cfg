SPECIFICATION Spec
CONSTANTS
    MaxTransmissions = 1
    None = None
    SessionIds = {s1, s2}
    Unsecured = Unsecured
    Fabrics = {f1, f2}
    ExchangeIds <- MCExchangeIds
    PeerIds = {0}
    MaxSessions = 2
    MaxExchanges = 2
    AckWait = 0
    RetryWaits = {0}
    IdleTimeout = 0
SYMMETRY MCSymmetry
INVARIANTS TypeOK NoOrphanExchange
PROPERTIES PendingNeverReaped
