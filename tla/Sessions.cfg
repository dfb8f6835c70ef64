SPECIFICATION SessionsSpec
CONSTANTS
    ps = ps
    prune = prune
    stop = stop
    Commands = {ps, prune, stop}
    Kind <- KindOf
    Codes = {"0"}
    MaxAttach = 1
    MaxPauses = 1
    Procs = {p1, p2}
    MaxSessions = 2
    MaxGen = 3
    MaxCrashes = 2
    NoSession = none
    Sessions = {"s1", "s2", "s3"}
    LegacySessions <- TwoRecords
    MaxFaults = 2
INVARIANTS
    LedgerVerifies
    MigrationKeepsHistory
    LateCommandsSeeTheExit
    RecordHasItsSecrets
    ReuseOnlyAfterLoss
CHECK_DEADLOCK FALSE
