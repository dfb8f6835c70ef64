SPECIFICATION Spec
CONSTANTS
    MaxNotifications = 3
    Names = {"n"}
    Objects = {"granted", "askable", "other"}
    Ports = {1}
    Allowlist <- MCAllowlist
    Approvable <- MCApprovable
    ConnectPorts = {}
    LoopbackPorts = {1}
    BindPorts = {}
    ProxyFallback = TRUE
    AfUnixMediation = TRUE
    Calls <- MCCalls
    Burst = 1
    DenialBurst = 1
    MaxRefills = 1
    MaxRelinks = 1
    MaxAuditFailures = 1
INVARIANTS ContinuedWasPermitted DenialsAccounted
CHECK_DEADLOCK FALSE
