SPECIFICATION FairSpec
CONSTANTS
    Names = {"skill"}
    Objects = {"plain", "other"}
    Missing = "missing"
    ProtectedObjs = {}
    DeniedNames = {}
    DeniedObjs = {}
    BlockedProcObjs = {}
    ProcObjs = {}
    CommObjs = {}
    InitialAccess <- NoGrants
    CoveredObjs = {}
    ExactFileObjs = {}
    InstructionNames = {"skill"}
    Digests = {"signed", "unsigned"}
    Trusted = {"signed"}
    Blocklisted = {}
    Enforcement = "deny"
    CapabilityElevation = TRUE
    ProcCommNotify = FALSE
    RequestIds = {1, 2}
    MaxTracked = 1
    Burst = 2
    MaxNotifications = 1
    MaxRequests = 2
    MaxRefills = 0
    MaxRelinks = 1
    MaxRewrites = 1
    MaxAuditFailures = 1
INVARIANTS InstructionContentAllowed GrantedOncePerRequestId
PROPERTIES NotificationsAnswered
CHECK_DEADLOCK FALSE
