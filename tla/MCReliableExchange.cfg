SPECIFICATION Spec
CONSTANTS
    WordSize = 16
    WindowSize = 1
    InitialMax = 1
    MaxTransmissions = 2
    None = None
    Bodies <- MCBodies
    MaxCounter <- MCWide
    CanBeFull = FALSE
INVARIANTS OneDatagramPerCounter ConfirmedInOrder
PROPERTIES Implements EventuallySettled
CHECK_DEADLOCK FALSE
