-------------------------- MODULE RouteRateLimiter --------------------------
(***************************************************************************)
(* The per-route token bucket of nono-proxy/src/rate_limit.rs and the two  *)
(* callers that await its delay (reverse.rs, tls_intercept/handle.rs).     *)
(*                                                                         *)
(* acquire reads the clock first and takes the bucket's lock afterwards,   *)
(* so readings may reach the bucket out of order.  Time is counted in the  *)
(* ticks in which one unit accrues; a token is Token units, so a request   *)
(* rate of any whole number of ticks per token is exact.                   *)
(***************************************************************************)
EXTENDS Integers, FiniteSets

CONSTANTS
    Requests,   \* concurrent requests of the route
    Token,      \* units of one token: ticks per request at the configured rate
    Burst,      \* the configured burst
    MaxDelay,   \* max_delay in ticks
    Horizon,    \* bound: no request starts after this tick
    MaxLag      \* bound: ticks a request may spend between clock and lock

LimiterConfigured ==
    /\ Token \in Nat \ {0}
    /\ Burst \in Nat
    /\ MaxDelay \in Nat
    /\ Horizon \in Nat
    /\ MaxLag \in Nat

\* burst.max(1)
capacity == Token * (IF Burst < 1 THEN 1 ELSE Burst)

LastTick == Horizon + MaxLag + MaxDelay

VARIABLES
    clock,        \* the monotonic clock
    tokens,       \* Bucket::tokens, in units; negative when reserved ahead
    last_refill,  \* Bucket::last_refill
    pc,           \* "idle", "read", "sleep", "forwarded", "rejected"
    now,          \* the reading a request carries to the lock
    release,      \* when the delay of a request ends
    setback       \* history: time by which last_refill was moved back, summed

vars == <<clock, tokens, last_refill, pc, now, release, setback>>

Init ==
    /\ clock = 0
    /\ tokens = capacity
    /\ last_refill = 0
    /\ pc = [r \in Requests |-> "idle"]
    /\ now = [r \in Requests |-> 0]
    /\ release = [r \in Requests |-> 0]
    /\ setback = 0

Tick ==
    /\ clock < LastTick
    /\ \A r \in Requests : pc[r] = "read" => clock - now[r] < MaxLag
    /\ clock' = clock + 1
    /\ UNCHANGED <<tokens, last_refill, pc, now, release, setback>>

\* acquire: Instant::now(), before the lock.
ReadClock(r) ==
    /\ pc[r] = "idle"
    /\ clock <= Horizon
    /\ now' = [now EXCEPT ![r] = clock]
    /\ pc' = [pc EXCEPT ![r] = "read"]
    /\ UNCHANGED <<clock, tokens, last_refill, release, setback>>

\* The bucket after the refill of a reading: saturating, capped.
elapsed(r) == IF now[r] > last_refill THEN now[r] - last_refill ELSE 0

refilled(r) == IF tokens + elapsed(r) > capacity THEN capacity
                                                 ELSE tokens + elapsed(r)

wait(r) == Token - refilled(r)

\* A mutant: a delayed request reserves no token.
AcquireAtNoReserve(r) ==
    /\ pc[r] = "read"
    /\ last_refill' = now[r]
    /\ setback' = setback + (IF now[r] < last_refill THEN last_refill - now[r] ELSE 0)
    /\ tokens' = IF wait(r) <= 0 THEN refilled(r) - Token ELSE refilled(r)
    /\ release' = [release EXCEPT ![r] = clock + (IF wait(r) > 0 THEN wait(r) ELSE 0)]
    /\ pc' = [pc EXCEPT ![r] = IF wait(r) <= MaxDelay THEN "sleep" ELSE "rejected"]
    /\ UNCHANGED <<clock, now>>

\* acquire_at, under the lock: refill, then take a token, reserve one that
\* accrues within max_delay, or reject.  The delay starts when it returns.
AcquireAt(r) ==
    /\ pc[r] = "read"
    /\ last_refill' = now[r]
    /\ setback' = setback + (IF now[r] < last_refill THEN last_refill - now[r] ELSE 0)
    /\ \/ /\ refilled(r) >= Token
          /\ tokens' = refilled(r) - Token
          /\ release' = [release EXCEPT ![r] = clock]
          /\ pc' = [pc EXCEPT ![r] = "sleep"]
       \/ /\ refilled(r) < Token
          /\ wait(r) <= MaxDelay
          /\ tokens' = refilled(r) - Token
          /\ release' = [release EXCEPT ![r] = clock + wait(r)]
          /\ pc' = [pc EXCEPT ![r] = "sleep"]
       \/ /\ refilled(r) < Token
          /\ wait(r) > MaxDelay
          /\ tokens' = refilled(r)
          /\ pc' = [pc EXCEPT ![r] = "rejected"]
          /\ UNCHANGED release
    /\ UNCHANGED <<clock, now>>

\* tokio::time::sleep(delay), then the request goes on to its upstream.
Forward(r) ==
    /\ pc[r] = "sleep"
    /\ clock >= release[r]
    /\ pc' = [pc EXCEPT ![r] = "forwarded"]
    /\ UNCHANGED <<clock, tokens, last_refill, now, release, setback>>

Terminated ==
    /\ clock = LastTick
    /\ \A r \in Requests : pc[r] \in {"idle", "forwarded", "rejected"}
    /\ UNCHANGED vars

Next ==
    \/ Tick
    \/ \E r \in Requests : ReadClock(r) \/ AcquireAt(r) \/ Forward(r)
    \/ Terminated

\* Time goes on and the runtime runs the tasks that are ready; when a client
\* sends its request is its own affair.
Fairness ==
    /\ WF_vars(Tick)
    /\ \A r \in Requests : WF_vars(AcquireAt(r)) /\ WF_vars(Forward(r))

Spec == Init /\ [][Next]_vars /\ Fairness

-----------------------------------------------------------------------------
Admitted == {r \in Requests : pc[r] \in {"sleep", "forwarded"}}
Forwarded == {r \in Requests : pc[r] = "forwarded"}

TypeOK ==
    /\ clock \in 0 .. LastTick
    /\ tokens \in (-MaxDelay) .. capacity
    /\ last_refill \in 0 .. Horizon
    /\ pc \in [Requests -> {"idle", "read", "sleep", "forwarded", "rejected"}]
    /\ now \in [Requests -> 0 .. Horizon]
    /\ release \in [Requests -> Nat]
    /\ setback \in Nat

\* What is admitted is paid for: with the burst, with the time the bucket has
\* seen, and with the time it was set back by readings that came late to the
\* lock.  In particular the limiter is exact while readings come in order.
AdmissionsPaid ==
    Token * Cardinality(Admitted) + tokens <= capacity + last_refill + setback

\* What has been forwarded by now is paid for by now: the delays spread the
\* reservations over the time in which their tokens accrue, whatever the order in
\* which requests reach the lock, but for the time the bucket was set back.
ForwardingPaced ==
    Token * Cardinality(Forwarded) <= capacity + clock + setback

\* No request hangs: whoever asked the limiter is forwarded or rejected.
AskedIsAnswered ==
    \A r \in Requests :
        pc[r] = "read" ~> pc[r] \in {"forwarded", "rejected"}

\* "A RouteRateLimiter caps the rate of L7 HTTP requests the proxy forwards"
\* (rate_limit.rs:3): never more than the burst and what accrued since start.
RateCapped == Token * Cardinality(Forwarded) <= capacity + clock
=============================================================================
