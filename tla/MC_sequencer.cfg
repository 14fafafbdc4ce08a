\* Seven of the eight programs; seqv4l2 is the same as seqv4.  300 cycles are a
\* common period of all the rates; seqv4 stores one picture from each slot of
\* the ring, and one more; with a late camera it ends after two pictures.
CONSTANTS
    Programs <- MCPrograms
    Cores = 2
    Budget = 40
    MaxCycles = 500
    Stores = 4
    LateStores = 2
    Reads = 250
SPECIFICATION FairSpec
INVARIANTS FrameTypeOK NobodyStranded EveryReleaseServed PicturesAreSound
PROPERTY Ends
CHECK_DEADLOCK FALSE
