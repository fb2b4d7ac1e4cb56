SPECIFICATION Spec
CONSTANTS
    Mac = {m1}
    NoRow = NoRow
    NoName = ""
    Listed = {"", "SSID1", "SSID-5"}
    Bands <- HomeBands
    RouterSSIDName = "SSID-1"
    Callers = {c1, c2}
    Workers = {w1, w2}
    ExclusiveWorker = FALSE
    MaxRows = 2
    MaxRequests = 2
    MaxCrashes = 1
SYMMETRY Symmetric
INVARIANTS
    TypeOK
    DoneMeansBlocked
PROPERTY
    KeepsPromise
