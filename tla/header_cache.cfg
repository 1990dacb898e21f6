\* Three files, two readers, room for two headers.
SPECIFICATION Spec
\* The bounds on saves and calls may be used up.
CHECK_DEADLOCK FALSE
CONSTANTS
    p1 = p1
    p2 = p2
    p3 = p3
    r1 = r1
    r2 = r2
    Paths = {p1, p2, p3}
    Readers = {r1, r2}
    Cap = 2
    MaxSaves = 2
    MaxCalls = 6
SYMMETRY Symmetry
INVARIANTS
    CacheSound
PROPERTIES
    InsertKept
