SPECIFICATION RtdSpec
CONSTANTS
    NumRtds = 2
    ReadLen = 2
    Depth = 2
    MaxResets = 1
    MaxFaults = 1
    None = None
INVARIANTS RtdTypeOK OwnBytes
PROPERTIES ReadsRecover
