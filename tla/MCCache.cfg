CONSTANTS
    Reader = {r1, r2}
    Rows = 2
    MaxVersion = 2
    MaxUser = 1
SPECIFICATION CacheSpec
SYMMETRY Symmetry
PROPERTY ReadsAreAtomic
CHECK_DEADLOCK FALSE
