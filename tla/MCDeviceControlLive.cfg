SPECIFICATION LiveSpec
CONSTANTS
    Mac = {m1, m2}
    NoRow = NoRow
    NoName = ""
    Listed = {"SSID1"}
    Bands <- HomeBands
    RouterSSIDName = "SSID-1"
    Callers = {c1}
    Workers = {w1}
    ExclusiveWorker = TRUE
    MaxRows = 2
    MaxRequests = 2
    MaxCrashes = 1
PROPERTY RequestsAnswered
