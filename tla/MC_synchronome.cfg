\* Everything that can fail may fail, at any time.  Two camera buffers, so that
\* one can be filled while another is under way; three RGB buffers: mOldImage,
\* the new picture and the one the saver has or waits for; two frames to save,
\* so that the saver comes back for more.
SPECIFICATION FairSpec
CONSTANTS
    NumBuffers = 2
    FrameIds = 3
    NumRgb = 3
    NumMessages = 3
    FrameCount = 2
    SaveAll = FALSE
    Faults <- FaultKinds
INVARIANTS
    TypeOK
    BuffersOwnedOnce
    NoBufferLost
    RgbOwnedOnce
    SendsNeverBlock
    DeviceInUse
    TicksSeparated
PROPERTIES
    ImplementsCaptureJob
    ServiceLossEndsProcess
    Finishes
