SPECIFICATION Spec
CONSTANTS
    Duration = 3600
    MaxFrames = 2
    MaxTSCacheNum = 3
    PlaylistLen = 2
    StreamKinds = {"aseq", "key", "inter", "audio"}
    TimeSteps = {3600}
    MaxPackets = 9
    MaxSources = 2
INVARIANTS SegmentsPlayable SegmentsDivideStream DurationsTrue
           TargetCovers PlaylistHolds ListedIsServed
CHECK_DEADLOCK FALSE
