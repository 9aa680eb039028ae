SPECIFICATION Spec
CHECK_DEADLOCK FALSE
CONSTANTS
    r1 = r1
    r2 = r2
    c1 = c1
    c2 = c2
    Readers = {r1, r2}
    Contents = {c1, c2}
    Gone = Gone
    CacheSize = 2
    MaxStamp = 4
SYMMETRY ReaderSymmetry
INVARIANTS CurrentKeyIsCurrent NoStaleRead
