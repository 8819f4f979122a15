SPECIFICATION Spec
CONSTANTS
    Senders = {"livelib", "other"}
    Ext = 5
    TsMod = 14
    Times = {4, 5}
    Lengths = {0, 1, 3}
    Sizes = {2}
    FirstSize = 1
    Windows = {1, 3}
    FirstWindow = 3
    Mod = 8
    High = 7
    MaxSent = 3
    MaxWire = 2
INVARIANTS InStep Intact AllArrive AllAccounted AckInTime
CHECK_DEADLOCK FALSE
