SPECIFICATION MCSpec
CONSTANTS
    Flags = {f1, f2}
    MaxCN = 3
    MaxRestarts = 1
    Rules = {rule}
    MaxRuleCN = 2
    MaxEvents = 3
    MaxStarts = 1
    ExportMidWrite = TRUE
    SavesFail = TRUE
INVARIANT NoLostUpdate
CHECK_DEADLOCK FALSE
