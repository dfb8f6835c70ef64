SPECIFICATION Spec
CONSTANTS
    Names = {"skill"}
    Objects = {"plain"}
    Missing = "missing"
    ProtectedObjs = {}
    DeniedNames = {}
    DeniedObjs = {}
    BlockedProcObjs = {}
    ProcObjs = {}
    CommObjs = {}
    InitialAccess <- NoGrants
    CoveredObjs = {}
    ExactFileObjs = {}
    InstructionNames = {"skill"}
    Digests = {"signed", "unsigned"}
    Trusted = {"signed"}
    Blocklisted = {}
    Enforcement = "warn"
    CapabilityElevation = TRUE
    ProcCommNotify = FALSE
    RequestIds = {1}
    MaxTracked = 1
    Burst = 2
    MaxNotifications = 2
    MaxRequests = 0
    MaxRefills = 0
    MaxRelinks = 0
    MaxRewrites = 0
    MaxAuditFailures = 1
INVARIANTS PassedFileNotCachedAsFailed
CHECK_DEADLOCK FALSE
