SPECIFICATION Spec
CONSTANTS
    Flags = {f1, f2}
    SetNames <- MCSets
    MaxCN = 3
    MaxSets = 3
SYMMETRY MCSymmetry
INVARIANT ActiveIntersectionReturned
CHECK_DEADLOCK FALSE
