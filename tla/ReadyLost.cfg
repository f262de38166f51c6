\* A Start that overlaps the end of another one.
SPECIFICATION Spec
CONSTANTS
    s1 = s1  s2 = s2
    w1 = w1
    t1 = t1
    Starts = {s1, s2}
    Waits = {w1}
    Stops = {t1}
    Null = Null
SYMMETRY StartSymmetry
INVARIANTS
    ReadyWhileServing
\* Every call may have returned.
CHECK_DEADLOCK FALSE
