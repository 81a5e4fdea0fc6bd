SPECIFICATION MCSpec
CONSTANTS
    Instances = {i1, i2}
    HashInstances = {i1}
    Calls <- MCCalls
    MaxVersion = 2
    MaxReports = 2
    Limit = 1
    Owners = {o1, o2}
    NoOwner = none
    Impressions = {x1, x2, x3}
    Metadatas = {m1, m2}
    Features = {f1, f2}
    BatchProcessors = {p1, p2}
    BulkSize = 1
    Buffers = {u1, u2, u3}
    Keys = {k1, k2}
    KeyProcessors = {q1, q2}
    MaxBatches = 2
    MaxCleanings = 1
    MaxLength = 2
    FetchSize = 2
    MaxItems = 5
    FlagNames = {f1, f2, f3}
    SegmentNames = {s1, s2}
    SegmentKeys = {k1, k2}
INVARIANT CallsReportedOnce
INVARIANT NewestConfigOnItsWay
INVARIANT ServesOwnData
INVARIANT BulksAreSound
INVARIANT NothingIsShared
INVARIANT KeysReportedOnce
INVARIANT LambdaTellsBacklog
INVARIANT TrackersMirrorRedis
PROPERTY ConfigsNeverGoBack
SYMMETRY MCSymmetry
CHECK_DEADLOCK FALSE
