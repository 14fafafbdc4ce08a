\* The bounds of MC_capture.cfg.
CONSTANTS
    Buffers = 4
    Startup = 3
    Capture = 6
SPECIFICATION Spec
INVARIANT FirstFramesIgnored
CHECK_DEADLOCK FALSE
