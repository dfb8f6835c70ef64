SPECIFICATION Spec
CONSTANTS
    \* Two listeners and room for one connection.
    Loops = {"primary", "bridge"}
    Primary = "primary"
    Clients = {1, 2, 3}
    max_connections = 1
    \* One request on a route of any kind.
    Kinds = {"static", "plain", "cmd", "oauth2", "assertion", "spiffe", "aws"}
    \* A token every two ticks, one of burst, and readings of the clock that come
    \* up to two ticks late to the lock.
    LimitedRequests = {1, 2, 3}
    Token = 2
    Burst = 1
    MaxDelay = 3
    LimiterHorizon = 5
    MaxLag = 2
    PooledRequests = {"plain", "again", "pinnedCA", "local"}
    UpstreamOf <- Upstreams
    Addrs = {"lo", "linklocal"}
    Denied = {"linklocal"}
    Loopback = {"lo"}
    \* Three hosts of which one speaks h2; a CA that expires within the behaviour.
    TlsConns = {1, 2, 3}
    TlsHosts = {"a", "b", "d"}
    NoName = "-"
    Supports = {"a"}
    Silent = {}
    H2Hosts = {"a", "b"}
    CaNotAfter = 3
    LeafValidity = 2
    TlsHorizon = 4
    \* Tokens that live three or five ticks, a buffer as long as the exchange may
    \* take.
    TokenRequests = {1, 2, 3}
    WithSvid = TRUE
    EXPIRY_BUFFER = 2
    EXCHANGE_TIMEOUT = 2
    Lifetimes = {3, 5}
    DEFAULT_EXPIRES_IN = 6
    CacheHorizon = 6
INVARIANTS
    OvershootBounded
    ForwardedAreAuthorised
    AdmissionsPaid
    NeverToDenied
    OneProbePerHost
PROPERTIES
    CachedTokenHonoured
