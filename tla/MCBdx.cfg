SPECIFICATION Spec
CONSTANTS
    None = None
    FileSize = 5
    BlockSizes = {0, 1, 3}
    Offsets = {1, 6}
    Definite = {0, 4, 5}
    Skips = {0, 1, 6}
    CounterMod = 3
INVARIANTS OctetsInPlace CompleteIsWhole RefusesOnlySkips
PROPERTIES TransferEnds
CHECK_DEADLOCK FALSE
