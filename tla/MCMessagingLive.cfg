SPECIFICATION Spec
CONSTANTS
    MaxTransmissions = 2
    None = None
    SessionIds = {s1}
    Unsecured = Unsecured
    Fabrics = {f1}
    ExchangeIds <- MCExchangeIds
    PeerIds = {0}
    MaxSessions = 1
    MaxExchanges = 2
    AckWait = 1
    RetryWaits = {1}
    IdleTimeout = 0
PROPERTIES EntriesDrain
