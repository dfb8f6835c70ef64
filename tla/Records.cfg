SPECIFICATION RecordsSpec
CONSTANTS
    p1 = p1
    p2 = p2
    p3 = p3
    s1 = s1
    d1 = d1
    c1 = c1
    c2 = c2
    c3 = c3
    l1 = l1
    l2 = l2
    none = none
    ProxyEvents = {p1, p2, p3}
    SupervisorEvents = {s1}
    DecisionEvents = {d1}
    CommandEvents = {c1, c2, c3}
    CommandOf <- CommandOfEvent
    OutcomeOf <- OutcomeOfEvent
    MaxAuditEvents = 1
    MaxCommands = 1
    AuditIntegrityEnabled = TRUE
    MaxFaults = 2
INVARIANTS
    NetworkEventsRecordedOnce
    SavedSessionVerifies
    RollupMatchesLog
    AcceptedProofsAreTrue
CHECK_DEADLOCK FALSE
