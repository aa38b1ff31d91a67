CONSTANTS
    a = a
    b = b
    n1 = n1
    n2 = n2
    Hosts <- MCHosts
    Names <- MCNames
    Rank <- MCRank
    PROBES = 3
    PROBE_JITTER = 2
    PROBE_INTERVAL = 3
    TIEBREAK_DEFER = 12
    CONFLICT_BURST = 2
    CONFLICT_WINDOW = 14
    CONFLICT_BACKOFF = 13
    ANNOUNCEMENTS = 2
    ANNOUNCE_INTERVAL = 12
    MULTICAST_INTERVAL = 12
    DEFEND_INTERVAL = 3
    Transit = 1
    MaxLost = 1
    MaxCalls = 3
SPECIFICATION Spec
INVARIANTS UniqueOwner
PROPERTIES ProbeSettles
