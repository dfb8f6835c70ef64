----------------------------- MODULE TokenCache -----------------------------
(***************************************************************************)
(* The two access-token caches of nono-proxy/src/oauth2.rs and the requests*)
(* of reverse.rs that use them: TokenCache (client id and secret) and      *)
(* SpiffeAssertionTokenCache (a JWT-SVID from the workload API).           *)
(*                                                                         *)
(* A request looks at the cached token under the read lock, looks again    *)
(* under the write lock, and exchanges while it holds it.  The token       *)
(* endpoint mints at some instant between request and answer and counts    *)
(* the lifetime from there; the cache counts it from the answer.           *)
(***************************************************************************)
EXTENDS Integers, FiniteSets

CONSTANTS
    Requests,      \* requests of one route
    WithSvid,      \* TRUE for SpiffeAssertionTokenCache
    EXPIRY_BUFFER, \* EXPIRY_BUFFER_SECS, in ticks
    EXCHANGE_TIMEOUT,
    Lifetimes,     \* the expires_in values the endpoint may declare
    DEFAULT_EXPIRES_IN,  \* what the cache assumes when none is declared
    Horizon        \* bound on the clock

CacheConfigured ==
    /\ WithSvid \in BOOLEAN
    /\ EXPIRY_BUFFER \in Nat
    /\ EXCHANGE_TIMEOUT \in Nat
    /\ Lifetimes \subseteq Nat
    /\ Lifetimes # {}
    /\ DEFAULT_EXPIRES_IN \in Nat
    /\ Horizon \in Nat

VARIABLES
    clock,
    expires_at,   \* CachedToken::expires_at
    valid_until,  \* what the endpoint holds the cached token to
    declared,     \* whether the endpoint declared the cached token's lifetime
    writer,       \* the requests that hold the write lock: none or one
    began,        \* when the exchange under way began
    minted,       \* when the endpoint minted for it, or -1
    pc,
    outcome,      \* how a request came by its token
    token_until,  \* valid_until of the token a request carries
    token_declared,
    refreshed     \* history: exchanges that succeeded since the first

cache == <<expires_at, valid_until, declared>>
exchange == <<began, minted>>
carried == <<outcome, token_until, token_declared>>
vars == <<clock, cache, writer, exchange, pc, carried, refreshed>>

\* new: the first exchange, without which there is no route.
Init ==
    /\ clock = 0
    /\ \E life \in Lifetimes, age \in 0 .. EXCHANGE_TIMEOUT :
          /\ expires_at = life
          /\ valid_until = life - age
    /\ declared = TRUE
    /\ writer = {}
    /\ began = 0
    /\ minted = -1
    /\ pc = [r \in Requests |-> "idle"]
    /\ outcome = [r \in Requests |-> "none"]
    /\ token_until = [r \in Requests |-> 0]
    /\ token_declared = [r \in Requests |-> TRUE]
    /\ refreshed = 0

\* An exchange is over when its timeout is.
Tick ==
    /\ clock < Horizon
    /\ (\E r \in Requests : pc[r] = "exchange") => clock - began < EXCHANGE_TIMEOUT
    /\ clock' = clock + 1
    /\ UNCHANGED <<cache, writer, exchange, pc, carried, refreshed>>

\* A mutant: the expiry is taken at its word.
cacheFreshToTheEnd == clock < expires_at

cacheFresh == clock + EXPIRY_BUFFER < expires_at

\* The request goes on with the cached token.
TakeCached(r, how) ==
    /\ outcome' = [outcome EXCEPT ![r] = how]
    /\ token_until' = [token_until EXCEPT ![r] = valid_until]
    /\ token_declared' = [token_declared EXCEPT ![r] = declared]
    /\ pc' = [pc EXCEPT ![r] = "body"]

\* The fast path, under the read lock.
FastPath(r) ==
    /\ pc[r] = "idle"
    /\ writer = {}
    /\ \/ cacheFresh /\ TakeCached(r, "cached")
       \/ /\ ~cacheFresh
          /\ pc' = [pc EXCEPT ![r] = "write"]
          /\ UNCHANGED carried
    /\ UNCHANGED <<clock, cache, writer, exchange, refreshed>>

StartExchange ==
    /\ began' = clock
    /\ minted' = -1

\* The guard is dropped.
EndExchange ==
    /\ writer' = {}
    /\ began' = 0
    /\ minted' = -1

\* The write lock, and the second look.
SlowPath(r) ==
    /\ pc[r] = "write"
    /\ writer = {}
    /\ \/ /\ cacheFresh
          /\ TakeCached(r, "cached")
          /\ UNCHANGED <<writer, exchange>>
       \/ /\ ~cacheFresh
          /\ writer' = {r}
          /\ pc' = [pc EXCEPT ![r] = IF WithSvid THEN "svid" ELSE "exchange"]
          /\ StartExchange
          /\ UNCHANGED carried
    /\ UNCHANGED <<clock, cache, refreshed>>

\* fetch_token: the assertion, or ProxyError::Credential, which fails the
\* request instead of falling back.  Nothing limits how long it takes.
FetchSvid(r) ==
    /\ pc[r] = "svid"
    /\ \/ /\ pc' = [pc EXCEPT ![r] = "exchange"]
          /\ StartExchange
          /\ UNCHANGED <<writer, carried>>
       \/ /\ pc' = [pc EXCEPT ![r] = "failed"]
          /\ outcome' = [outcome EXCEPT ![r] = "error"]
          /\ EndExchange
          /\ UNCHANGED <<token_until, token_declared>>
    /\ UNCHANGED <<clock, cache, refreshed>>

\* The endpoint mints a token.
Mint(r) ==
    /\ pc[r] = "exchange"
    /\ minted = -1
    /\ minted' = clock
    /\ UNCHANGED <<clock, cache, writer, began, pc, carried, refreshed>>

\* The answer: the token and its lifetime replace the cached ones.
ExchangeOk(r, life, isDeclared) ==
    /\ pc[r] = "exchange"
    /\ minted # -1
    /\ expires_at' = clock + (IF isDeclared THEN life ELSE DEFAULT_EXPIRES_IN)
    /\ valid_until' = minted + life
    /\ declared' = isDeclared
    /\ refreshed' = refreshed + 1
    /\ outcome' = [outcome EXCEPT ![r] = "fresh"]
    /\ token_until' = [token_until EXCEPT ![r] = minted + life]
    /\ token_declared' = [token_declared EXCEPT ![r] = isDeclared]
    /\ pc' = [pc EXCEPT ![r] = "body"]
    /\ EndExchange
    /\ UNCHANGED clock

\* Refused, unreadable or timed out: the stale token is used.
ExchangeErr(r) ==
    /\ pc[r] = "exchange"
    /\ TakeCached(r, "stale")
    /\ EndExchange
    /\ UNCHANGED <<clock, cache, refreshed>>

\* handle_oauth2_like: the caller is checked, the host resolved and the body
\* read, any of which may end the request; then it is sent upstream.
Send(r) ==
    /\ pc[r] = "body"
    /\ \E end \in {"failed", IF clock < token_until[r] THEN "sentValid" ELSE "sentExpired"} :
          pc' = [pc EXCEPT ![r] = end]
    /\ token_until' = [token_until EXCEPT ![r] = 0]
    /\ UNCHANGED <<clock, cache, writer, exchange, outcome, token_declared, refreshed>>

Done == {"failed", "sentValid", "sentExpired"}

Terminated ==
    /\ clock = Horizon
    /\ \A r \in Requests : pc[r] \in Done
    /\ UNCHANGED vars

Next ==
    \/ Tick
    \/ \E r \in Requests :
          \/ FastPath(r) \/ SlowPath(r) \/ FetchSvid(r)
          \/ Mint(r) \/ ExchangeErr(r) \/ Send(r)
          \/ \E life \in Lifetimes, d \in BOOLEAN : ExchangeOk(r, life, d)
    \/ Terminated

\* tokio's lock is first come, first served and its timeout ends an exchange;
\* that the workload API answers and the client sends its body is assumed.
Fairness ==
    /\ WF_vars(Tick)
    /\ \A r \in Requests :
          /\ WF_vars(FastPath(r)) /\ WF_vars(SlowPath(r)) /\ WF_vars(FetchSvid(r))
          /\ WF_vars(ExchangeErr(r)) /\ WF_vars(Send(r))

Spec == Init /\ [][Next]_vars /\ Fairness

-----------------------------------------------------------------------------
TypeOK ==
    /\ clock \in 0 .. Horizon
    /\ expires_at \in Nat
    /\ valid_until \in Int
    /\ declared \in BOOLEAN
    /\ writer \in SUBSET Requests /\ Cardinality(writer) <= 1
    /\ began \in 0 .. Horizon
    /\ minted \in -1 .. Horizon
    /\ pc \in [Requests -> {"idle", "write", "svid", "exchange", "body"} \cup Done]
    /\ outcome \in [Requests -> {"none", "cached", "fresh", "stale", "error"}]
    /\ token_until \in [Requests -> Int]
    /\ token_declared \in [Requests -> BOOLEAN]
    /\ refreshed \in Nat

\* EXPIRY_BUFFER_SECS covers EXCHANGE_TIMEOUT: a token served from the cache is
\* one its endpoint still honours, although the cache counts its life from the
\* answer and the endpoint from the minting (oauth2.rs:30, 37, 156, 173).
CachedTokenHonoured ==
    [][\A r \in Requests :
          outcome'[r] = "cached" /\ outcome[r] # "cached" /\ declared
            => clock < token_until'[r]]_vars

\* The least lifetime the cache may count with.
shortest == CHOOSE l \in Lifetimes \cup {DEFAULT_EXPIRES_IN} :
               \A k \in Lifetimes \cup {DEFAULT_EXPIRES_IN} : l <= k

\* Requests that meet an expiring token together do not each exchange: there is
\* no more than one successful exchange per lifetime, less the buffer.
RefreshesBounded == refreshed * (shortest - EXPIRY_BUFFER) <= clock

\* Every request leaves the cache, with a token or an error, however many wait
\* for the lock and however often the exchange fails.
RequestsLeave == \A r \in Requests : pc[r] \in {"write", "svid", "exchange"} ~> pc[r] \in Done

\* oauth2.rs:29-30, "Buffer subtracted from `expires_in` to refresh before the
\* token actually expires. Avoids edge cases where a token expires between check
\* and use": a token that passed the check is valid when it is sent.
CheckedTokenValidInUse ==
    \A r \in Requests :
        pc[r] = "sentExpired" => ~(outcome[r] = "cached" /\ token_declared[r])
=============================================================================
