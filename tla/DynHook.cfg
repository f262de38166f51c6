\* Addresses leased from the embedder, foreign processes on them, Start twice.
SPECIFICATION Spec
CONSTANTS
    c1 = c1  c2 = c2  main = main
    k1 = k1  k2 = k2
    a1 = a1  a2 = a2
    Foreign = Foreign
    Free = Free
    None = None
    Calls = {c1, c2}
    Main = main
    Procs = {c1, c2, main}
    Keys = {k1, k2}
    Addrs = {a1, a2}
    DynAddrs = {a1, a2}
    ForeignAddrs = {a1, a2}
    StaticKeys = {}
    StaticAddrs = {}
    UseHook = TRUE
    ProcFS = TRUE
    SpawnMayFail = TRUE
    Obedient = TRUE
    MaxRetries = 0
    MinBackoff = 1
    MaxBackoff = 1
    MaxRuns = 2
SYMMETRY DynSymmetry
INVARIANTS
    AddressPromisedOnce
    LeaseHeldWhileRunning
    FailedAddReturnsLease
    NoConfigLeak
    PublishedOwned
\* A stopped runner with no call left may rest.
CHECK_DEADLOCK FALSE
