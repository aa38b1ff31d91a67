SPECIFICATION Spec
CONSTANTS
    None = None
    k1 = k1
    k2 = k2
    k3 = k3
    r1 = r1
    r2 = r2
    MaxIndex = 2
    MaxCumulative = 3
    Capacity = 2
    Handles <- MCHandles
    Roots <- MCRoots
    Lengths = {0, 2}
    WindowLength = 1
SYMMETRY MCSymmetry
INVARIANTS HoldBounded KeysAccounted UncommittedIsHeld IndexesResolve
PROPERTIES NoStaleCredential CommittedStays
