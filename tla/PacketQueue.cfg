SPECIFICATION FairSpec
CONSTANTS
    Producers = {p1, p2}
    Closers = {c1}
    Cap = 3
    DropNum = 2
    MaxPackets = 6
INVARIANTS NoSendOnClosed LossPerWrite
PROPERTIES FifoSpec WriteReturns ClosedSenderEnds
CHECK_DEADLOCK FALSE
