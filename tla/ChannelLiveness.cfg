SPECIFICATION FairSpec
CONSTANTS
    Publishers = {p1}
    RtmpPlayers = {r1}
    HttpPlayers = {}
    MaxSources = 2
    Admins = {a1}
    StreamKinds = {"key"}
    QueueCap = 1
    MaxPackets = 2
    MaxGOPCap = 2
PROPERTIES HandlersEnd HlsJoins FanOutEnds PublisherReleases
CHECK_DEADLOCK FALSE
