\* Two processes on one cache directory, two releases, two kills or power losses.
SPECIFICATION Spec
CONSTANTS
    p1 = p1  p2 = p2
    None = None
    Procs = {p1, p2}
    Requests <- MCRequests
    Tags = {"v1", "v2"}
    Pinned = "v1"
    Shas = {"x"}
    MaxCrashes = 2
SYMMETRY ProcSymmetry
INVARIANTS
    TypeOK
    InUseVerified
    RightRelease
    ExtractedWhole
