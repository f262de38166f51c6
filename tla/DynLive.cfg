\* Dynamic-only runner, children may ignore SIGTERM, no /proc.
SPECIFICATION FairSpec
CONSTANTS
    c1 = c1  c2 = c2  main = main
    k1 = k1
    a1 = a1
    Foreign = Foreign
    Free = Free
    None = None
    Calls = {c1, c2}
    Main = main
    Procs = {c1, c2, main}
    Keys = {k1}
    Addrs = {a1}
    DynAddrs = {a1}
    ForeignAddrs = {}
    StaticKeys = {}
    StaticAddrs = {}
    UseHook = FALSE
    ProcFS = FALSE
    SpawnMayFail = TRUE
    Obedient = FALSE
    MaxRetries = 0
    MinBackoff = 1
    MaxBackoff = 1
    MaxRuns = 1
PROPERTIES
    AllReturn
    DeadUnpublished
\* A stopped runner with no call left may rest.
CHECK_DEADLOCK FALSE
