SPECIFICATION Spec
CONSTANTS
    Publishers = {p1}
    RtmpPlayers = {}
    HttpPlayers = {h1, h2}
    MaxSources = 0
    Admins = {}
    StreamKinds = {"key", "inter", "audio"}
    QueueCap = 1
    MaxPackets = 5
    MaxGOPCap = 2
PROPERTY NoGap
CHECK_DEADLOCK FALSE
