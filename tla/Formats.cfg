SPECIFICATION Spec
CONSTANTS
    Sizes = {0, 1, 157, 161, 162, 163, 165, 169, 170, 171, 200, 352, 354, 355, 3000, 65530}
    Times = {0, 7, 8}
    Compositions = {0, 1}
    TsMod = 8
    MaxTs = 2
    Samples <- SampleValues
    RefKinds = {"string", "trait"}
    MaxAmf = 2
    FlvPackets <- SamplePackets
    Low = 4
    High = 4
    MaxFlv = 3
INVARIANTS TsRecovered AmfRoundTrip FlvRoundTrip
CHECK_DEADLOCK FALSE
