SPECIFICATION Spec
CONSTANTS
    a = a
    b = b
    f = f
    p = p
    q = q
    k = k
    None = None
    Peers <- MCPeers
    FabricOf <- MCFabricOf
    Fabrics = {f}
    Attributes = {p, q}
    Request <- MCRequest
    MaxSleep = 2
    Kinds = {k}
    Priorities = {1}
    Capacity = 1
    Block = 2
    MaxNumber = 2
    DirtyPaths = 1
    ChunkSize = 2
    MaxSubscriptions = 2
    PerFabric = 1
    MaxReporting = 1
    MaxId = 2
INVARIANTS NumbersNeverReused  EventsOnce  OpenIsTracked FabricShare
