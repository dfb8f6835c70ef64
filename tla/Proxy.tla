-------------------------------- MODULE Proxy --------------------------------
(***************************************************************************)
(* The parts of the network proxy that several connections share: the      *)
(* accept loops and their limit, the reverse-proxy handler, the limiter of *)
(* a route, the pool with its pins, the caches of the TLS handshake and    *)
(* the token cache of an OAuth2 route.  They have no state in common: the  *)
(* module gives each its own constants and variables and names the         *)
(* property that it is explored and proved for.                            *)
(***************************************************************************)
EXTENDS Integers

CONSTANTS
    Loops, Primary, Clients, max_connections,
    Kinds,
    LimitedRequests, Token, Burst, MaxDelay, LimiterHorizon, MaxLag,
    PooledRequests, UpstreamOf, Addrs, Denied, Loopback,
    TlsConns, TlsHosts, NoName, Supports, Silent, H2Hosts, CaNotAfter, LeafValidity,
    TlsHorizon,
    TokenRequests, WithSvid, EXPIRY_BUFFER, EXCHANGE_TIMEOUT, Lifetimes,
    DEFAULT_EXPIRES_IN, CacheHorizon

VARIABLES
    active, loopPc, holds, client_conn, at, shutdown,
    route, token, todo, client, backend, log, reply, reached, paid,
    limiterClock, tokens, last_refill, limiterPc, now, release, setback,
    poolPc, checked, pins, idle, conn,
    tlsClock, h2, prober, leaf, tlsPc, target, offered, presented, probes,
    cacheClock, expires_at, valid_until, declared, writer, began, minted, cachePc,
    outcome, token_until, token_declared, refreshed

Accept == INSTANCE AcceptLoop WITH Conns <- Clients, pc <- loopPc, conn <- client_conn

Reverse == INSTANCE ReverseProxy

Limiter == INSTANCE RouteRateLimiter
    WITH Requests <- LimitedRequests, Horizon <- LimiterHorizon, clock <- limiterClock,
         pc <- limiterPc

Pool == INSTANCE PinnedPool
    WITH Requests <- PooledRequests, Target <- UpstreamOf, pc <- poolPc

Tls == INSTANCE InterceptHandshake
    WITH Conns <- TlsConns, Hosts <- TlsHosts, Horizon <- TlsHorizon, clock <- tlsClock,
         pc <- tlsPc

Cache == INSTANCE TokenCache
    WITH Requests <- TokenRequests, Horizon <- CacheHorizon, clock <- cacheClock, pc <- cachePc

-----------------------------------------------------------------------------
(* The accept loops pass the limit by no more than one connection for each  *)
(* loop besides the first, although they load and increment the counter in  *)
(* separate steps (server.rs, accept_loop).                                 *)
OvershootBounded == Accept!OvershootBounded

(* Nothing reaches an upstream unless the policy or a grant in time allowed *)
(* it, the token was checked where the route needs it, and no denial was    *)
(* logged (reverse.rs, handle_reverse_proxy and the handlers it hands to).  *)
ForwardedAreAuthorised == Reverse!ForwardedAreAuthorised

(* What the limiter admits is paid for with the burst, with the time the    *)
(* bucket has seen and with what late readings of the clock set it back by  *)
(* (rate_limit.rs, acquire_at).                                             *)
AdmissionsPaid == Limiter!AdmissionsPaid

(* No request runs on a connection to an address the filter denies, whoever *)
(* pinned the host and whenever the connection was opened (pool.rs).        *)
NeverToDenied == Pool!NeverToDenied

(* Connections that ask for the same new host together probe it once        *)
(* (tls_intercept/h2_probe.rs, get_or_probe).                               *)
OneProbePerHost == Tls!OneProbePerHost

(* A token served from the cache is one its endpoint still honours, although*)
(* the two count its life from different moments (oauth2.rs, EXPIRY_BUFFER).*)
CachedTokenHonoured == Cache!CachedTokenHonoured
=============================================================================
