SPECIFICATION ShimsSpec
CONSTANTS
    ka = ka
    kb = kb
    session = session
    npm = npm
    Pids = {p1, p2, p3}
    Root = root
    Super = super
    Session = session
    Commands = {ka, kb}
    Setups <- ThreeSetups
    Gated = {ka}
    Edges <- CallEdges
    SelfEntry = {}
    Requests = {r1, r2}
    MaxActive = 1
    Depth = 4
    Nobody = none
    Names = {git, npm}
    Templated = {git}
    Consumers = {shell, route}
    Captures = {t1, t2}
    Anonymous <- InEnvironment
    MaxPhantoms = 4
    MaxGen = 2
    None = none
INVARIANTS
    CallerIsSpawner
    NothingLeftOver
    RotatedValueUnreachable
SYMMETRY Symmetry
CHECK_DEADLOCK FALSE
