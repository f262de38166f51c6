\* Dynamic-only runner, own allocator, three concurrent calls, one run.
SPECIFICATION Spec
CONSTANTS
    c1 = c1  c2 = c2  c3 = c3  main = main
    k1 = k1  k2 = k2
    a1 = a1  a2 = a2
    Foreign = Foreign
    Free = Free
    None = None
    Calls = {c1, c2, c3}
    Main = main
    Procs = {c1, c2, c3, main}
    Keys = {k1, k2}
    Addrs = {a1, a2}
    DynAddrs = {a1, a2}
    ForeignAddrs = {}
    StaticKeys = {}
    StaticAddrs = {}
    UseHook = FALSE
    ProcFS = TRUE
    SpawnMayFail = FALSE
    Obedient = TRUE
    MaxRetries = 0
    MinBackoff = 1
    MaxBackoff = 1
    MaxRuns = 1
SYMMETRY DynSymmetry
INVARIANTS
    NoOrphan
    NothingOutlivesRunner
    RegistryConsistent
\* A stopped runner with no call left may rest.
CHECK_DEADLOCK FALSE
