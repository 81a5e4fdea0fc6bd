SPECIFICATION MCSpec
CONSTANTS
    Counters = {c1}
    Updaters = {u1}
    Readers = {r1}
    Starter = starter
    SignalHandler = handler
    Request = request
    Admins <- MCAdmins
    Writers <- MCWriters
    Free = free
    MaxErrors = 1
    Services <- MCServices
    Severity <- MCSeverity
    MaxLen = 3
    Percentage = 60
    MaxHits = 6
INVARIANT WatchedFromSyncOn
INVARIANT SinceIsSound
INVARIANT WindowIsExact
PROPERTY JamsAreFinal
PROPERTY SilenceIsNoticed
PROPERTY ShutdownEnds
CHECK_DEADLOCK FALSE
