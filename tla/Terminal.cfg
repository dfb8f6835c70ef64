SPECIFICATION TerminalSpec
CONSTANTS
    Owners = {o1, o2}
    Pids = {1, 2, 3, 4}
    Primary = 1
    PidReuse = FALSE
    MaxOrphans = 2
    Workers = {"w1", "w2", "w3"}
    MaxOwnPrompts = 1
    Attachers = {a1}
    Detachers = {d1}
    Terminal = tty
    Chunks = 3
    Scrollback = 2
    Room = 1
    NoClient = none
    Keys = {"^]", "d", "x", "^Z"}
    Suspend = "^Z"
    Sequence <- DetachSequence
    Forms = {"raw", "csi", "echo", "cut"}
    MaxKeys = 5
    Callers = {c1, c2}
    Chains <- TwoChains
    Modes = {"all", "any", "direct"}
    Deadlines = {2}
    NoDeadline = 9
    Timeout <- Timeouts
    MinHop = 2
    SessionScoped = {c1}
    NoCaller = none
INVARIANTS
    OwnersGetTheirStatus
    GatedPromptsOnlyWhilePaused
    UnbrokenOutput
    KeysKept
    GrantIsBacked
PROPERTIES
    PauseEnds
    LateGrantNeverCounts
CHECK_DEADLOCK FALSE
