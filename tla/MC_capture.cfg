\* Four buffers, of which two to four are granted, and enough frames for
\* every slot of capturelib's ring.
CONSTANTS
    Buffers = 4
    Startup = 3
    Capture = 6
SPECIFICATION FairSpec
INVARIANTS TypeOK EachBufferOnce OwnBuffersAccepted FramesAreStored NothingLeft
PROPERTY Ends
CHECK_DEADLOCK FALSE
