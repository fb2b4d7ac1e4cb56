SPECIFICATION Spec
CONSTANTS
    Workers = {w1, w2}
    NoWorker = NoWorker
    NoReading = NoReading
    Direction = {"download"}
    Retention = 2
    EstimateAfter = 1
    ReportsUptime = FALSE
    SessionMayDrop = TRUE
    PartialResets = TRUE
    MaxSkew = 0
    MaxNow = 2
    MaxTraffic = 1
    MaxRestarts = 1
    MonthStart <- Calendar
    ShortestMonth = 2
    LongestMonth = 3
    DayHours = 24
    MaxAllowance = 3
    MaxUsed = 4
SYMMETRY Workers2
INVARIANTS
    
    ChargedInOneCycle
    CardsAddUp
    SustainableBudget
    BelievableExhaustion
