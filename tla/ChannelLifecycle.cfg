SPECIFICATION Spec
CONSTANTS
    Publishers = {p1, p2}
    RtmpPlayers = {}
    HttpPlayers = {h1}
    MaxSources = 2
    Admins = {a1}
    StreamKinds = {"key"}
    QueueCap = 1
    MaxPackets = 1
    MaxGOPCap = 2
INVARIANTS SinglePublisher NoOrphan HlsSingle
PROPERTY AudienceSpec
CHECK_DEADLOCK FALSE
