SPECIFICATION Spec
CONSTANTS
    Sync = 2
    Incs = {4, 5}
    MaxDts = 24
PROPERTY EvenlySpaced
CHECK_DEADLOCK FALSE
