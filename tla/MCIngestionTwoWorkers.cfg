SPECIFICATION Spec
CONSTANTS
    Workers = {w1, w2}
    NoWorker = NoWorker
    NoReading = NoReading
    Direction = {"download"}
    Retention = 1
    EstimateAfter = 1
    ReportsUptime = FALSE
    SessionMayDrop = TRUE
    PartialResets = FALSE
    MaxSkew = 0
    MaxNow = 2
    MaxTraffic = 1
    MaxRestarts = 1
INVARIANT NoOverlap
