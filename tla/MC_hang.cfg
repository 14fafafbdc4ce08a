\* seqgen3 alone: its handler posts every semaphore before it sets the flags.
CONSTANTS
    Programs <- Seqgen3Only
    Cores = 2
    Budget = 40
    MaxCycles = 500
    Stores = 4
    LateStores = 2
    Reads = 250
SPECIFICATION Spec
INVARIANT ShutdownEndsServices
CHECK_DEADLOCK FALSE
