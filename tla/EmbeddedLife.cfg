\* A configured backend, one of its forwarding mode and one of another mode.
SPECIFICATION FairSpec
CONSTANTS
    c1 = c1  c2 = c2  main = main  native = native
    k1 = k1  k2 = k2  k3 = k3
    p1 = p1  p2 = p2
    x1 = x1
    None = None
    Calls = {c1, c2}
    Main = main
    Native = native
    Threads = {c1, c2, main, native}
    Keys = {k1, k2, k3}
    Static = {k1}
    Forwarding <- MixedForwarding
    Ports = {p1, p2}
    Conns = {x1}
    MaxRuns = 1
INVARIANTS
    TypeOK
    TearDownClean
    OneForwardingMode
    RegistriesAgree
    RoutedAsDialled
PROPERTIES
    AllReturn
\* A stopped runner with no call left may rest.
CHECK_DEADLOCK FALSE
