SPECIFICATION MetricsSpec
CONSTANTS
    Requests = {r1, r2}
    Endpoints <- MCEndpoints
    MaxSlices = 2
    MaxTime = 3
INVARIANT ReportsOwnRequests
CHECK_DEADLOCK FALSE
