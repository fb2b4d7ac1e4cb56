SPECIFICATION LiveSpec
CONSTANTS
    Mac = {m1, m2}
    NoMac = NoMac
    LongMac = LongMac
    MaxRecords = 2
    NoRow = NoRow
    NoSnapshot = NoSnapshot
    Retention = 0
    MaxRows = 2
    MaxWall = 1
    MaxInFlight = 2
INVARIANTS
    TypeOK
    OnlineMeansSeen
    RepeatedOnlyIfHidden
PROPERTY
    Converges
