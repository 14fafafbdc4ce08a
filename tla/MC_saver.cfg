\* Two runs put a file of the older run under one of the newer.  IntMax is twice
\* a picture, the most the loop can count without failures; DiskSize bounds the
\* growth of a file.
SPECIFICATION FairSpec
CONSTANTS
    Size = 2
    FrameCount = 2
    Runs = 2
    DiskSize = 6
    IntMax = 4
    FaultSets = {{}, {"open"}, {"open", "short"}, {"open", "short", "error"}}
INVARIANTS
    TotalIsWritten
    WholeFilesArePictures
    FilesAreLayered
PROPERTY
    WritingEnds
CHECK_DEADLOCK FALSE
