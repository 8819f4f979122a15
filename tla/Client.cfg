SPECIFICATION Spec
CONSTANTS
    Pairs = {"both", "client", "server"}
    Methods = {"publish", "play"}
    MaxOther = 5
    Players = {w1}
    StreamKinds = {"key", "inter"}
    MaxGOPCap = 2
    MaxSent = 4
    MaxPulls = 2
    QueueCap = 1
    MaxSrc = 2
INVARIANTS NoMutualWait StartAgrees
PROPERTIES StartReturns HandlerNotices PullNoGap PushStops
CHECK_DEADLOCK FALSE
