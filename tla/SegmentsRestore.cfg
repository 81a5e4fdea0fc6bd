CONSTANTS
    Segments = {s1}
    Keys = {k1, k2}
    MaxCN = 3
    CacheSize = 1
    MaxRestarts = 1
SPECIFICATION Spec
INVARIANTS MembersExact
CHECK_DEADLOCK FALSE
