\* A direct caller, Gate and the smoke proxy around one Server.
SPECIFICATION EmbedderFairSpec
CONSTANTS
    s1 = s1
    w1 = w1
    t1 = t1
    Starts = {s1}
    Waits = {w1}
    Stops = {t1}
    Null = Null
    Configs <- MCConfigs
    Names <- MCNames
    Words = {"", "a", "b", "c", "1.8", "other", "auto", "none", "legacy", "velocity",
             "embedded", "subprocess"}
    Addrs = {"p1", "p2"}
INVARIANTS
    EmbedderTypeOK
    DialAgrees
    RetriedAlike
    ReportsTruthful
    SmokeCleanExit
PROPERTIES
    SmokeReturns
\* Every call may have returned, and the smoke proxy exits.
CHECK_DEADLOCK FALSE
