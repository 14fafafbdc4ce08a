SPECIFICATION Spec
CONSTANTS
    NumBuffers = 2
    FrameIds = 2
    NumRgb = 3
    NumMessages = 3
    FrameCount = 1
    SaveAll = FALSE
    Faults = {"mqOpen", "receive"}
INVARIANT
    SuccessIsComplete
