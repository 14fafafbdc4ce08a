SPECIFICATION Spec
CONSTANTS
    NumBuffers = 3
    FrameIds = 3
    sRequestBuffers = 4
INVARIANTS
    OwnedIsMapped
    NothingLeft
PROPERTY
    ImplementsCamera
CHECK_DEADLOCK FALSE
