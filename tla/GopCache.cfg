SPECIFICATION Spec
CONSTANTS
    MaxGOPCap = 3
    MaxWritten = 7
INVARIANTS GopIsOneGroup GopIsCurrent FirstLongGroupStays
CHECK_DEADLOCK FALSE
