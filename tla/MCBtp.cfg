SPECIFICATION Spec
CONSTANTS
    None = None
    Windows = {1, 2, 4}
    SeqMod = 5
    SegmentSize = 6
    Lengths = {2, 5}
    SendAckTimeout = 1
    AckTimeout = 3
    MaxMessages = 2
INVARIANTS OnlyLossCloses
PROPERTIES PipeSpec LossIsNoticed
CHECK_DEADLOCK FALSE
