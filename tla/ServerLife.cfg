\* Two Starts, a WaitReady and a Stop on one Server.
SPECIFICATION FairSpec
CONSTANTS
    s1 = s1  s2 = s2
    w1 = w1
    t1 = t1
    Starts = {s1, s2}
    Waits = {w1}
    Stops = {t1}
    Null = Null
INVARIANTS
    ReadyFlagTruthful
    ReadyMeansPublished
    StopJoins
PROPERTIES
    WaitersReturn
\* Every call may have returned.
CHECK_DEADLOCK FALSE
