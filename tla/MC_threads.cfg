\* Twenty-one programs; three signals are enough for two handlers to meet, and
\* two messages fill the queue; twoprocs is killed twice.
CONSTANTS
    Programs <- MCPrograms
    MaxMsg = 2
    NumSigs = 3
    Kills = 2
SPECIFICATION FairSpec
INVARIANTS TypeOK StopsAreKnown SectionsAreExclusive OnlyTheMutexInverts CountsAtTheEnd SieveIsExact ProcessesTakeTurns
PROPERTY Ends
CHECK_DEADLOCK FALSE
