SPECIFICATION LiveSpec
CONSTANTS
    Months = {now, earlier}
    Current = now
    NoMonth = NoMonth
    Granularity = {day, hour}
    Day = day
    MaxVersion = 1
    MaxActs = 2
    MaxLosses = 1
INVARIANTS
    TypeOK
    HistoryAsAsked
PROPERTIES
    Converges
    LossShown
    ButtonsComeBack
