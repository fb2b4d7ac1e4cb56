SPECIFICATION LiveSpec
CONSTANTS
    Requests = {r1}
    Scheduled = Scheduled
    Once = Once
    Interval = 3
    HeartbeatEvery = 1
    TwoMinutes = 6
    MaxDuration = 1
    MaxFailures = 3
    MaxBlocks = 1
    MaxLost = 1
    MaxCrashes = 1
INVARIANTS
    TypeOK
    NoFalseAlarm
    AnsweredAfterCollected
    OneEventPerStreak
PROPERTIES
    RequestsServed
    FailuresShown
