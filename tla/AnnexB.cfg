SPECIFICATION H264Spec
CONSTANTS
    NalTypes = {"idr", "slice", "sei", "sps", "pps", "aud", "partition", "tiny", "bad"}
    MaxNals = 3
    MaxHeaders = 2
    MaxFrames = 2
INVARIANTS SlicesKept IdrHasParameters
CHECK_DEADLOCK FALSE
