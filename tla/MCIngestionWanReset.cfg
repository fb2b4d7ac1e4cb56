SPECIFICATION Spec
CONSTANTS
    Workers = {w1}
    NoWorker = NoWorker
    NoReading = NoReading
    Direction = {"download"}
    Retention = 2
    EstimateAfter = 1
    ReportsUptime = FALSE
    SessionMayDrop = FALSE
    PartialResets = TRUE
    MaxSkew = 1
    MaxNow = 3
    MaxTraffic = 2
    MaxRestarts = 1
INVARIANT NeverOvercounts
