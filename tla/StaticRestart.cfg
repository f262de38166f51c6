\* Static runtime with restarts, started twice; its address lies in the dynamic range.
SPECIFICATION FairSpec
CONSTANTS
    c1 = c1  main = main
    s = s  k1 = k1
    a1 = a1  a2 = a2
    Foreign = Foreign
    Free = Free
    None = None
    Calls = {c1}
    Main = main
    Procs = {c1, main}
    Keys = {s, k1}
    Addrs = {a1, a2}
    DynAddrs = {a1, a2}
    ForeignAddrs = {}
    StaticKeys = {s}
    StaticAddrs = {a1}
    UseHook = FALSE
    ProcFS = TRUE
    SpawnMayFail = TRUE
    Obedient = TRUE
    MaxRetries = 1
    MinBackoff = 2
    MaxBackoff = 3
    MaxRuns = 2
INVARIANTS
    TypeOK
    StaticOwned
PROPERTIES
    StopReturns
\* A stopped runner with no call left may rest.
CHECK_DEADLOCK FALSE
