CONSTANTS
    WordSize = 12
    WindowSize = 3
    InitialMax = 2
    Spaces = {"SecureUnicast", "Rollover"}
    MaxSent = 13
SPECIFICATION ReplaySpec
INVARIANTS AtMostOnce NoFalseDuplicate NonceNeverReused
CHECK_DEADLOCK FALSE
