SPECIFICATION Spec
CONSTANTS
    Workers = {w1, w2}
    NoWorker = NoWorker
    NoReading = NoReading
    Direction = {"download"}
    Retention = 2
    EstimateAfter = 1
    ReportsUptime = TRUE
    SessionMayDrop = FALSE
    PartialResets = FALSE
    MaxSkew = 1
    MaxNow = 4
    MaxTraffic = 1
    MaxRestarts = 1
SYMMETRY Workers2
INVARIANTS
    TypeOK
    NeverOvercounts
    NoOverlap
    GapsOnlyFromRetention
    ExactBetweenRestarts
    SingleActiveWorker
    IInv
PROPERTY
    ImplementsLedger
