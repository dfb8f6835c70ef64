SPECIFICATION MCSpec
CONSTANTS
    New = "new.example:443"
    Refused = "denied.example:443"
    Conns = {1, 2, 3}
    NoConn = 0
    Keys = {"new.example:443", "listed.example:443", "denied.example:443"}
    Allowlisted = {"listed.example:443"}
    HardDenied = {"denied.example:443"}
    Modes = {"connect", "forward", "chained"}
INVARIANTS
    LogMatchesOutcome
PROPERTIES
    ImplementsArbiter
    ElectedSettles
