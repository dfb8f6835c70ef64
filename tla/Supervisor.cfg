SPECIFICATION Spec
CONSTANTS
    Names = {"alias", "forbidden"}
    Objects = {"plain", "state", "bundle", "denied", "proc", "comm", "mem"}
    Missing = "missing"
    ProtectedObjs = {"state", "bundle"}
    DeniedNames = {"forbidden"}
    DeniedObjs = {"denied"}
    BlockedProcObjs = {"mem"}
    ProcObjs = {"proc"}
    CommObjs = {"comm"}
    InitialAccess <- ReadGrants
    CoveredObjs = {"bundle", "proc"}
    ExactFileObjs = {"bundle"}
    InstructionNames = {}
    Digests = {"signed"}
    Trusted = {"signed"}
    Blocklisted = {}
    Enforcement = "deny"
    CapabilityElevation = TRUE
    ProcCommNotify = TRUE
    RequestIds = {1}
    MaxTracked = 1
    Burst = 1
    MaxNotifications = 2
    MaxRequests = 1
    MaxRefills = 1
    MaxRelinks = 1
    MaxRewrites = 0
    MaxAuditFailures = 1
INVARIANTS HandedOverIsPermitted ApprovedFdsAudited
CHECK_DEADLOCK FALSE
