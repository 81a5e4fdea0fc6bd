SPECIFICATION MCSpec
CONSTANTS
    Bulks = {b1, b2, b3}
    Workers = {w1}
    QueueSize = 2
    Nothing = nothing
    ListenerQueueSize = 1
    Beacons = {b2, b3}
    MaxTries = 2
    Requests = {r1, r2}
    Endpoints <- MCEndpoints
    MaxSlices = 1
    MaxTime = 2
INVARIANT InOnePlace
INVARIANT DropNeedsCrowd
INVARIANT AnswersAreTrue
INVARIANT HeardWithinTries
INVARIANT SlicesAreSound
PROPERTY AcceptedSettles
CHECK_DEADLOCK FALSE
