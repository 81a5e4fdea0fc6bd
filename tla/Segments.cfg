CONSTANTS
    Segments = {s1}
    Keys = {k1, k2}
    MaxCN = 3
    CacheSize = 1
    MaxRestarts = 1
SPECIFICATION FairSpec
INVARIANTS NoLostUpdate MembersKept OnlyLateAnswersStale
PROPERTY Converges
CHECK_DEADLOCK FALSE
