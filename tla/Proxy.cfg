SPECIFICATION MCFairSpec
CONSTANTS
    Flags = {f1, f2}
    MaxCN = 3
    MaxRestarts = 1
    Rules = {rule}
    MaxRuleCN = 2
    MaxEvents = 3
    MaxStarts = 1
    ExportMidWrite = FALSE
    SavesFail = FALSE
INVARIANT TypeOK
INVARIANT NoLostUpdate
INVARIANT RulesKept
INVARIANT OnlyLateRulesStale
PROPERTY FeedSpec
PROPERTY Converges
PROPERTY RulesConverge
CHECK_DEADLOCK FALSE
