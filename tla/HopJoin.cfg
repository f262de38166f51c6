\* One bridge connection, with every choice of deadlines and a loop that may hang.
SPECIFICATION FairSpec
CONSTANTS
    MaxBursts = 2
    MayBlock = TRUE
INVARIANTS
    TypeOK
    CountsOnlyConfiguration
    HealthySpared
PROPERTIES
    HoldsRespected
    ReadingResumes
    NotSilent
    SilentClosed
\* A connection that is closed or fully served rests.
CHECK_DEADLOCK FALSE
