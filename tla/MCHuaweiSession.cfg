SPECIFICATION LiveSpec
CONSTANTS
    Faults = {"unreachable", "failing", "expired", "displaced", "lost", "password"}
    RouterDiscovery = TRUE
    Pages = 3
    MaxFaults = 4
    MaxLogins = 6
INVARIANTS
    TypeOK
    AtMostOneRejection
PROPERTIES
    ReadUnderOneSession
    RecoversUnlessTakenForRefused
