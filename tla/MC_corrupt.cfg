SPECIFICATION Spec
CONSTANTS
    Size = 3
    FrameCount = 2
    Runs = 1
    DiskSize = 9
    IntMax = 6
    FaultSets = {{"short"}}
INVARIANT
    FilesArePictures
CHECK_DEADLOCK FALSE
