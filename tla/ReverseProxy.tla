---------------------------- MODULE ReverseProxy ----------------------------
(***************************************************************************)
(* One request on the reverse-proxy path (nono-proxy/src/reverse.rs), from *)
(* the parsed head to the audit event.  Requests share only the caches,    *)
(* pools and limiters that TokenCache, PinnedPool and RouteRateLimiter     *)
(* model, so one request is enough here.  The other actors are the client, *)
(* who may hang up at any time, and the blocking approval thread, which    *)
(* outlives the deadline.                                                  *)
(***************************************************************************)
EXTENDS Integers, Sequences, SequencesExt

CONSTANTS Kinds   \* how the route authenticates to its upstream, see Path

VARIABLES
    route,     \* [kind, limited], and the server's require_auth
    token,     \* the request carries the session token
    todo,      \* the stages still to run; empty when the handler has returned
    client,    \* "there" or "gone"
    backend,   \* the approval thread: "idle", "running", or what it answered
    log,       \* audit events, in order
    reply,     \* the status sent to the client, 0 when none was
    reached,   \* the upstream was sent the request
    paid       \* the route's limiter was asked

vars == <<route, token, todo, client, backend, log, reply, reached, paid>>

Answers == {"granted", "denied", "backend_timeout", "backend_error"}

\* The stages of a request after the endpoint policy, by the route's credential:
\* handle_oauth2_credential and handle_spiffe_assertion_credential take the
\* token before they authenticate, handle_spiffe_route after; aws_auth routes are
\* not implemented; the others authenticate, pay the limiter and, for a command
\* credential, run the command.
Path ==
    [static    |-> <<"auth", "limit", "check", "body", "send">>,
     plain     |-> <<"auth", "limit", "check", "body", "send">>,
     cmd       |-> <<"auth", "limit", "capture", "check", "body", "send">>,
     oauth2    |-> <<"acquire", "auth", "check", "body", "send">>,
     assertion |-> <<"acquire", "auth", "check", "body", "send">>,
     spiffe    |-> <<"auth", "acquire", "check", "body", "send">>,
     aws       |-> <<"unsupported">>]

KindsHavePaths == Kinds \subseteq DOMAIN Path

At(stage) == todo # <<>> /\ Head(todo) = stage

OAuth2Like == route.kind \in {"oauth2", "assertion"}

Init ==
    /\ route \in [kind : Kinds, limited : BOOLEAN, require_auth : BOOLEAN]
    /\ token \in BOOLEAN
    /\ todo = <<"start", "policy">> \o Path[route.kind]
    /\ client = "there"
    /\ backend = "idle"
    /\ log = <<>>
    /\ reply = 0
    /\ reached = FALSE
    /\ paid = FALSE

-----------------------------------------------------------------------------
Proceed ==
    /\ todo' = Tail(todo)
    /\ UNCHANGED reply

\* The handler returns an error without a reply: the connection closes.
Drop ==
    /\ todo' = <<>>
    /\ UNCHANGED reply

\* send_error: a client that is gone gets nothing.
Answer(status) ==
    /\ todo' = <<>>
    /\ reply' = IF client = "there" THEN status ELSE reply

Log(event) == log' = Append(log, event)

\* The denial is logged, then sent.
Refuse(event, status) == Log(event) /\ Answer(status)

\* The denial is sent, then logged: the write to a client that is gone may fail,
\* and `?` then leaves before the event.
RefuseThenLog(event, status) ==
    \/ Log(event) /\ Answer(status)
    \/ /\ client = "gone"
       /\ Drop
       /\ UNCHANGED log

RefuseSilently(status) == Answer(status) /\ UNCHANGED log

\* A stage of the handler that leaves the approval thread, the upstream and the
\* limiter alone.
Stage(stage) ==
    /\ At(stage)
    /\ UNCHANGED <<route, token, client, backend, reached, paid>>

-----------------------------------------------------------------------------
\* The head of handle_reverse_proxy: an upgrade attempt is refused, an unknown
\* service drops the connection, a managed credential that could not be loaded
\* refuses the request (only the static and command routes can be without one).
Start ==
    /\ Stage("start")
    /\ \/ \E status \in {400, 501} : Refuse("upgrade_rejected", status)
       \/ Drop /\ UNCHANGED log
       \/ route.kind \in {"static", "cmd"} /\ Refuse("credential_missing", 503)
       \/ Proceed /\ UNCHANGED log

\* enforce_endpoint_policy: a rule allows, denies, or asks a backend; a backend
\* that is missing or unknown denies.
Policy ==
    /\ At("policy")
    /\ backend = "idle"
    /\ \/ Log("policy_allowed") /\ Proceed /\ UNCHANGED backend
       \/ Refuse("policy_denied", 403) /\ UNCHANGED backend
       \/ Refuse("approve_error", 403) /\ UNCHANGED backend
       \/ Log("approve_requested") /\ backend' = "running" /\ UNCHANGED <<todo, reply>>
    /\ UNCHANGED <<route, token, client, reached, paid>>

\* The thread of spawn_blocking returns; session-scoped answers have been
\* collapsed.  It may do so after the deadline.
BackendAnswers ==
    /\ backend = "running"
    /\ backend' \in Answers
    /\ UNCHANGED <<route, token, todo, client, log, reply, reached, paid>>

Decide ==
    /\ Stage("policy")
    /\ \/ backend = "granted" /\ Log("approve_granted") /\ Proceed
       \/ backend = "denied" /\ Refuse("approve_denied", 403)
       \/ backend = "backend_timeout" /\ Refuse("approve_timeout", 403)
       \/ backend = "backend_error" /\ Refuse("approve_error", 403)

\* timeout_at, which polls the thread's result before the timer.
DeadlinePasses ==
    /\ Stage("policy")
    /\ backend = "running"
    /\ Refuse("approve_timeout", 403)

Unsupported == Stage("unsupported") /\ RefuseSilently(501)

\* The OAuth2 cache always has a token to give; the assertion cache's error drops
\* the connection, and handle_spiffe_route refuses.
Acquire ==
    /\ Stage("acquire")
    /\ \/ Proceed /\ UNCHANGED log
       \/ route.kind = "assertion" /\ Drop /\ UNCHANGED log
       \/ route.kind = "spiffe" /\ Refuse("credential_missing", 503)

\* Only the branch for the other routes looks at require_auth.
MustAuthenticate == route.require_auth \/ OAuth2Like \/ route.kind = "spiffe"

\* A mutant: SPIFFE routes honour require_auth and OAuth2 routes forget to check.
AuthForgotten ==
    /\ Stage("auth")
    /\ \/ (token \/ OAuth2Like \/ ~route.require_auth) /\ Proceed /\ UNCHANGED log
       \/ ~token /\ ~OAuth2Like /\ route.require_auth /\ Refuse("auth_failed", 401)

\* The status of a failed check: a route without a credential, and SPIFFE's, ask
\* for Proxy-Authorization.
Challenge == IF route.kind \in {"plain", "spiffe"} THEN 407 ELSE 401

Auth ==
    /\ Stage("auth")
    /\ \/ (token \/ ~MustAuthenticate) /\ Proceed /\ UNCHANGED log
       \/ ~token /\ MustAuthenticate /\ Refuse("auth_failed", Challenge)

\* The limiter is asked inside the require_auth branch.
Limit ==
    /\ At("limit")
    /\ IF route.require_auth /\ route.limited
         THEN /\ paid' = TRUE
              /\ \/ Proceed /\ UNCHANGED log
                 \/ Refuse("rate_limited", 429)
         ELSE /\ Proceed
              /\ UNCHANGED <<log, paid>>
    /\ UNCHANGED <<route, token, client, backend, reached>>

\* capture_cmd_credential, which logs its own event, and its caller.
Capture ==
    /\ Stage("capture")
    /\ \/ Log("captured") /\ Proceed
       \/ log' = log \o <<"capture_failed", "credential_missing">> /\ Answer(503)
       \/ Refuse("credential_missing", 503)   \* the blocking task itself failed

\* check_host and validate_http_upstream_target; a path that cannot be transformed,
\* an upstream that does not parse and a failing lookup leave by `?`.
Check ==
    /\ Stage("check")
    /\ \/ Proceed /\ UNCHANGED log
       \/ Drop /\ UNCHANGED log
       \/ ~OAuth2Like /\ RefuseThenLog("host_denied", 403)
       \/ ~OAuth2Like /\ RefuseThenLog("connect_failed", 502)
       \/ OAuth2Like /\ \E status \in {403, 502} : RefuseSilently(status)

\* read_request_body: a body that is malformed or too long is refused, and a
\* client that hangs up in the middle ends the handler.
Body ==
    /\ Stage("body")
    /\ \/ Proceed /\ UNCHANGED log
       \/ \E status \in {400, 413} : RefuseSilently(status)
       \/ client = "gone" /\ Drop /\ UNCHANGED log

\* pool_forward, or forward_request on a SPIFFE route: the request goes out.  The
\* other routes build it first, and leave by `?` when that fails.
Send ==
    /\ At("send")
    /\ ~reached
    /\ \/ reached' = TRUE /\ UNCHANGED <<todo, reply, log>>
       \/ RefuseThenLog("connect_failed", 502) /\ UNCHANGED reached
       \/ route.kind # "spiffe" /\ Drop /\ UNCHANGED <<log, reached>>
    /\ UNCHANGED <<route, token, client, backend, paid>>

\* The response comes back and is streamed to the client, or the exchange fails.
\* The event comes last; a write to a client that is gone may fail, and with it
\* the error reply that precedes the other event.
Respond ==
    /\ Stage("send")
    /\ reached
    /\ \/ Log("l7_request") /\ Answer(200)
       \/ RefuseThenLog("connect_failed", 502)

HangUp ==
    /\ client = "there"
    /\ client' = "gone"
    /\ UNCHANGED <<route, token, todo, backend, log, reply, reached, paid>>

Done ==
    /\ todo = <<>>
    /\ UNCHANGED vars

Next ==
    \/ Start \/ Policy \/ Decide \/ DeadlinePasses \/ Unsupported \/ Acquire
    \/ Auth \/ Limit \/ Capture \/ Check \/ Body \/ Send \/ Respond
    \/ BackendAnswers \/ HangUp
    \/ Done

\* The runtime polls a task that is ready and its timers fire.  Nothing makes the
\* client send its body, or the resolver, the upstream and the backend answer.
Fairness ==
    /\ WF_vars(Start) /\ WF_vars(Policy) /\ WF_vars(Decide) /\ WF_vars(DeadlinePasses)
    /\ WF_vars(Unsupported) /\ WF_vars(Auth) /\ WF_vars(Limit)

Spec == Init /\ [][Next]_vars /\ Fairness

-----------------------------------------------------------------------------
Ended == todo = <<>>

Verdicts == {"policy_allowed", "policy_denied", "approve_granted", "approve_denied",
             "approve_timeout", "approve_error"}

\* The last event of a request, by the status the client got.
Outcomes ==
    (200 :> {"l7_request"}) @@ (400 :> {"upgrade_rejected"}) @@ (401 :> {"auth_failed"})
    @@ (407 :> {"auth_failed"})
    @@ (403 :> {"policy_denied", "approve_denied", "approve_timeout", "approve_error",
                "host_denied"})
    @@ (429 :> {"rate_limited"}) @@ (501 :> {"upgrade_rejected"})
    @@ (502 :> {"connect_failed"}) @@ (503 :> {"credential_missing"})

Events == UNION Range(Outcomes)
            \union {"policy_allowed", "approve_requested", "approve_granted", "captured",
                    "capture_failed"}

TypeOK ==
    /\ route \in [kind : Kinds, limited : BOOLEAN, require_auth : BOOLEAN]
    /\ token \in BOOLEAN
    /\ IsSuffix(todo, <<"start", "policy">> \o Path[route.kind])
    /\ client \in {"there", "gone"}
    /\ backend \in {"idle", "running"} \union Answers
    /\ Range(log) \subseteq Events
    /\ reply \in {0, 413} \union DOMAIN Outcomes
    /\ reached \in BOOLEAN /\ paid \in BOOLEAN

\* Nothing reaches an upstream unless the endpoint policy allowed it or a backend
\* granted it before the deadline, the session token was checked where the route
\* needs it, and no denial of this request was logged; in particular an answer
\* that comes after the deadline changes nothing.
ForwardedAreAuthorised ==
    reached =>
        /\ Range(log) \intersect {"policy_allowed", "approve_granted"} # {}
        /\ token \/ (~route.require_auth /\ route.kind \in {"static", "cmd", "plain"})
        /\ Range(log) \intersect {"policy_denied", "approve_denied", "approve_timeout",
                                  "auth_failed", "rate_limited", "host_denied"} = {}

\* The audit log holds one verdict of the endpoint policy per request, whatever
\* the order of the backend's answer and the deadline; an answer after the
\* deadline adds no second one.
OneVerdict == Len(SelectSeq(log, LAMBDA e : e \in Verdicts)) <= 1

\* On the routes that audit their refusals the client's status and the last event
\* agree.  OAuth2 routes refuse a host, AWS routes refuse and every route refuses
\* a body without an event.
StatusMatchesEvent ==
    /\ reply \in DOMAIN Outcomes
    /\ ~OAuth2Like /\ route.kind # "aws"
    /\ log # <<>>
    /\ ~(reply = 400 /\ Last(log) # "upgrade_rejected")
    => Last(log) \in Outcomes[reply]

\* A request that waits for an approval is decided at its deadline, even when the
\* backend never answers.
ApprovalEnds == backend = "running" ~> ~At("policy")

\* networking.mdx:562, "All proxy decisions are logged via `tracing`": a client
\* refused with 403 has an event that says so.
DecisionsAudited ==
    reply = 403 => log # <<>> /\ Last(log) \in Outcomes[403]

\* The same sentence, and forward.rs:93-94, "stream the response back into
\* `inbound`, and emit the L7 audit event": what reached an upstream is recorded.
ReachedAreAudited ==
    Ended /\ reached => Last(log) \in {"l7_request", "connect_failed"}

\* config.rs:882-888, "Caps the rate of L7 requests forwarded to this route's
\* upstream ... reverse-proxy routes and TLS-intercepted CONNECT".
LimitedRoutesPay == reached /\ route.limited => paid

\* networking.mdx:360, --no-auth "Disable session-token auth - accept every
\* request on the bind address".
NoAuthAcceptsAll == ~route.require_auth => ~Contains(log, "auth_failed")
=============================================================================
