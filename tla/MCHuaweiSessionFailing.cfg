SPECIFICATION LiveSpec
CONSTANTS
    Faults = {"unreachable", "failing", "expired"}
    RouterDiscovery = FALSE
    Pages = 3
    MaxFaults = 2
    MaxLogins = 8
PROPERTY Recovers
