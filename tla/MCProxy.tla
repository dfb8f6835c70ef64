------------------------------- MODULE MCProxy -------------------------------
(***************************************************************************)
(* The parts of the proxy side by side: moving says which of them takes    *)
(* steps, the others keep an initial state.                                *)
(***************************************************************************)
EXTENDS Proxy

VARIABLES moving

accept == <<active, loopPc, holds, client_conn, at, shutdown>>
reverse == <<route, token, todo, client, backend, log, reply, reached, paid>>
limiter == <<limiterClock, tokens, last_refill, limiterPc, now, release, setback>>
pool == <<poolPc, checked, pins, idle, conn>>
tls == <<tlsClock, h2, prober, leaf, tlsPc, target, offered, presented, probes>>
cache == <<cacheClock, expires_at, valid_until, declared, writer, began, minted, cachePc,
           outcome, token_until, token_declared, refreshed>>

\* Requests to one host: two on one route, one under another TLS configuration,
\* one over plain http.
Upstream(scheme, port, roots) == [host |-> "api", scheme |-> scheme, port |-> port, tls |-> roots]
Upstreams == [plain |-> Upstream("https", 443, "roots"), again |-> Upstream("https", 443, "roots"),
              pinnedCA |-> Upstream("https", 443, "routeCA"), local |-> Upstream("http", 80, "roots")]

ASSUME InstancesConfigured ==
    /\ Accept!ServerConfigured /\ Reverse!KindsHavePaths /\ Limiter!LimiterConfigured
    /\ Pool!AddressClasses /\ Tls!HandshakeConfigured /\ Cache!CacheConfigured
    /\ EXCHANGE_TIMEOUT <= EXPIRY_BUFFER

\* Where a part has several initial states it rests in the one named here.
Init ==
    /\ moving \in {"accept", "reverse", "limiter", "pool", "tls", "cache"}
    /\ Accept!Init /\ (moving = "accept" \/ at = [c \in Clients |-> Primary])
    /\ Reverse!Init
    /\ moving = "reverse" \/ (token /\ route = [kind |-> "plain", limited |-> FALSE, require_auth |-> TRUE])
    /\ Limiter!Init
    /\ Pool!Init
    /\ Tls!Init /\ (moving = "tls" \/ target = [c \in TlsConns |-> "a"])
    /\ Cache!Init /\ (moving = "cache" \/ (expires_at = 3 /\ valid_until = 3))

AcceptMoves ==
    /\ moving = "accept" /\ Accept!Next
    /\ UNCHANGED <<moving, reverse, limiter, pool, tls, cache>>
ReverseMoves ==
    /\ moving = "reverse" /\ Reverse!Next
    /\ UNCHANGED <<moving, accept, limiter, pool, tls, cache>>
LimiterMoves ==
    /\ moving = "limiter" /\ Limiter!Next
    /\ UNCHANGED <<moving, accept, reverse, pool, tls, cache>>
PoolMoves ==
    /\ moving = "pool" /\ Pool!Next
    /\ UNCHANGED <<moving, accept, reverse, limiter, tls, cache>>
TlsMoves ==
    /\ moving = "tls" /\ Tls!Next
    /\ UNCHANGED <<moving, accept, reverse, limiter, pool, cache>>
CacheMoves ==
    /\ moving = "cache" /\ Cache!Next
    /\ UNCHANGED <<moving, accept, reverse, limiter, pool, tls>>

Next == AcceptMoves \/ ReverseMoves \/ LimiterMoves \/ PoolMoves \/ TlsMoves \/ CacheMoves

Spec == Init /\ [][Next]_<<moving, accept, reverse, limiter, pool, tls, cache>>
=============================================================================
