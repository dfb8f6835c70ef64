---------------------------- MODULE HostApproval ----------------------------
(***************************************************************************)
(* Interactive approval of a host that is not on the proxy's allowlist:    *)
(* nono-proxy/src/connect.rs (handle_connect, authorize_host,              *)
(* maybe_approve_host, run_prompt, InFlight, InFlightLeader), filter.rs    *)
(* and the plain-HTTP forward path of server.rs.                           *)
(*                                                                         *)
(* Connections run concurrently.  The first one to a (host, port) leads:   *)
(* it asks the backend on a blocking thread; the others follow its slot.   *)
(* A slot is named by its leader: a connection leads at most once.         *)
(***************************************************************************)
EXTENDS Naturals, FiniteSets

CONSTANTS
    Conns,        \* connections of one proxy session
    NoConn,       \* no connection
    Keys,         \* normalised (host, port) targets
    Allowlisted,  \* targets on the static allowlist
    HardDenied,   \* targets of the deny list or the metadata guard
    Modes         \* subset of {"connect", "forward", "chained"}

ASSUME TargetClasses ==
    /\ NoConn \notin Conns
    /\ Allowlisted \subseteq Keys
    /\ HardDenied \subseteq Keys
    /\ Allowlisted \cap HardDenied = {}

VARIABLES
    pc,                 \* where each connection stands
    key,                \* the target it asked for
    mode,               \* "connect", "forward" or "chained" (external proxy)
    session_decisions,  \* "unset", "allow" or "deny" per target
    in_flight,          \* the leader whose slot is open, per target
    published,          \* what a slot's sender holds: "none" or a decision
    slot,               \* the slot a follower awaits
    thread,             \* the blocking call of a leader
    late,               \* the leader's deadline has passed
    decision,           \* what run_prompt returned to the leader
    addrs,              \* the vetted lookup: "unknown", "some" or "empty"
    audit,              \* history: the events logged for the connection
    upstream            \* history: it opened a connection to the upstream

vars == <<pc, key, mode, session_decisions, in_flight, published, slot,
          thread, late, decision, addrs, audit, upstream>>

Decisions == {"Granted", "GrantedForSession", "Denied", "DeniedForSession",
              "Timeout"}

is_granted(d) == d \in {"Granted", "GrantedForSession"}

Init ==
    /\ pc = [c \in Conns |-> "new"]
    /\ key \in [Conns -> Keys]
    /\ mode \in [Conns -> Modes]
    /\ session_decisions = [k \in Keys |-> "unset"]
    /\ in_flight = [k \in Keys |-> NoConn]
    /\ published = [c \in Conns |-> "none"]
    /\ slot = [c \in Conns |-> NoConn]
    /\ thread = [c \in Conns |-> "none"]
    /\ late = [c \in Conns |-> FALSE]
    /\ decision = [c \in Conns |-> "none"]
    /\ addrs = [c \in Conns |-> "unknown"]
    /\ audit = [c \in Conns |-> {}]
    /\ upstream = [c \in Conns |-> FALSE]

Log(c, e) == audit' = [audit EXCEPT ![c] = @ \cup {e}]

GoTo(c, l) == pc' = [pc EXCEPT ![c] = l]

promptVars == <<in_flight, published, slot, thread, late, decision>>

-----------------------------------------------------------------------------
\* The host filter.  A denied name is settled before any lookup; the looked-up
\* addresses of an allowed one are checked against the link-local range.
CheckHost(c) ==
    /\ pc[c] = "new"
    /\ \/ /\ key[c] \in Allowlisted
          /\ \E r \in {"some", "empty"} : addrs' = [addrs EXCEPT ![c] = r]
          /\ GoTo(c, "connect")
          /\ UNCHANGED audit
       \/ /\ \/ key[c] \in HardDenied
             \/ key[c] \in Allowlisted   \* it resolves to a blocked address
             \/ mode[c] = "chained"      \* no approval on the chained path
          /\ Log(c, "Denied")
          /\ GoTo(c, "done")
          /\ UNCHANGED addrs
       \/ /\ key[c] \notin Allowlisted \cup HardDenied
          /\ mode[c] # "chained"
          /\ GoTo(c, "elect")
          /\ UNCHANGED <<addrs, audit>>
    /\ UNCHANGED <<key, mode, session_decisions, promptVars, upstream>>

\* One turn of the election: the session decisions are read under the lock of
\* the in-flight map.
Elect(c) ==
    LET k == key[c] IN
    /\ pc[c] = "elect"
    /\ \/ /\ session_decisions[k] = "allow"
          /\ GoTo(c, "resolve")
          /\ UNCHANGED <<in_flight, slot, thread>>
       \/ /\ session_decisions[k] = "deny"
          /\ GoTo(c, "refused")
          /\ UNCHANGED <<in_flight, slot, thread>>
       \/ /\ session_decisions[k] = "unset"
          /\ in_flight[k] # NoConn
          /\ slot' = [slot EXCEPT ![c] = in_flight[k]]
          /\ GoTo(c, "follow")
          /\ UNCHANGED <<in_flight, thread>>
       \/ /\ session_decisions[k] = "unset"
          /\ in_flight[k] = NoConn
          /\ in_flight' = [in_flight EXCEPT ![k] = c]
          /\ thread' = [thread EXCEPT ![c] = "queued"]
          /\ GoTo(c, "prompt")
          /\ UNCHANGED slot
    /\ UNCHANGED <<key, mode, session_decisions, published, late, decision,
                   addrs, audit, upstream>>

\* A worker of the blocking pool picks the call up.
PromptStarts(c) ==
    /\ thread[c] = "queued"
    /\ thread' = [thread EXCEPT ![c] = "running"]
    /\ UNCHANGED <<pc, key, mode, session_decisions, in_flight, published,
                   slot, late, decision, addrs, audit, upstream>>

\* The backend's own deadline goes by.
DeadlinePasses(c) ==
    /\ pc[c] = "prompt"
    /\ ~late[c]
    /\ late' = [late EXCEPT ![c] = TRUE]
    /\ UNCHANGED <<pc, key, mode, session_decisions, in_flight, published,
                   slot, thread, decision, addrs, audit, upstream>>

\* run_prompt returns d: the session-scoped answers are remembered.  The slot
\* is still open.
Settle(c, d) ==
    /\ decision' = [decision EXCEPT ![c] = d]
    /\ session_decisions' =
         [session_decisions EXCEPT ![key[c]] =
            CASE d = "GrantedForSession" -> "allow"
              [] d = "DeniedForSession"  -> "deny"
              [] OTHER                   -> @]
    /\ GoTo(c, "settled")

\* The configured timeout does not fit an Instant: denied, nothing is asked.
TimeoutTooLarge(c) ==
    /\ pc[c] = "prompt"
    /\ thread[c] = "queued"
    /\ ~late[c]
    /\ thread' = [thread EXCEPT ![c] = "none"]
    /\ Settle(c, "Denied")
    /\ UNCHANGED <<key, mode, in_flight, published, slot, late, addrs,
                   audit, upstream>>

\* A mutant: the deadline is not looked at again once the call has returned.
PromptReturnsUnchecked(c) ==
    /\ thread[c] = "running"
    /\ thread' = [thread EXCEPT ![c] = "ended"]
    /\ \/ /\ pc[c] = "prompt"
          /\ \E d \in Decisions : Settle(c, d)
       \/ /\ pc[c] # "prompt"
          /\ UNCHANGED <<pc, session_decisions, decision>>
    /\ UNCHANGED <<key, mode, in_flight, published, slot, late, addrs,
                   audit, upstream>>

\* The blocking call ends.  A leader that still waits takes the answer, unless
\* the deadline went by; an error denies; an abandoned answer is dropped.
PromptReturns(c) ==
    /\ thread[c] = "running"
    /\ thread' = [thread EXCEPT ![c] = "ended"]
    /\ \/ /\ pc[c] = "prompt"
          /\ \E d \in Decisions : Settle(c, IF late[c] THEN "Timeout" ELSE d)
       \/ /\ pc[c] = "prompt"
          /\ Settle(c, "Denied")
       \/ /\ pc[c] # "prompt"
          /\ UNCHANGED <<pc, session_decisions, decision>>
    /\ UNCHANGED <<key, mode, in_flight, published, slot, late, addrs,
                   audit, upstream>>

\* The backstop of tokio::time::timeout, later than the deadline.  A queued
\* call is cancelled, a running one goes on alone.
Backstop(c) ==
    /\ pc[c] = "prompt"
    /\ late[c]
    /\ thread' = [thread EXCEPT ![c] = IF @ = "queued" THEN "ended" ELSE @]
    /\ Settle(c, "Timeout")
    /\ UNCHANGED <<key, mode, in_flight, published, slot, late, addrs,
                   audit, upstream>>

\* InFlightLeader::drop: remove the slot and publish, under the map's lock.
CloseSlot(c, d) ==
    /\ in_flight' = [in_flight EXCEPT ![key[c]] = NoConn]
    /\ published' = [published EXCEPT ![c] = d]

LeaderResolves(c) ==
    /\ pc[c] = "settled"
    /\ CloseSlot(c, decision[c])
    /\ GoTo(c, IF is_granted(decision[c]) THEN "resolve" ELSE "refused")
    /\ UNCHANGED <<key, mode, session_decisions, slot, thread, late, decision,
                   addrs, audit, upstream>>

\* A mutant: without the guard, a dropped leader leaves its slot open.
CancelWithoutGuard(c) ==
    /\ pc[c] \in {"prompt", "follow"}
    /\ GoTo(c, "cancelled")
    /\ UNCHANGED <<key, mode, session_decisions, promptVars, addrs,
                   audit, upstream>>

\* The leader's task is dropped while it waits: the guard still closes the
\* slot.  A follower's task is dropped without a trace.
Cancel(c) ==
    /\ \/ /\ pc[c] = "prompt"
          /\ CloseSlot(c, "Denied")
       \/ /\ pc[c] = "follow"
          /\ UNCHANGED <<in_flight, published>>
    /\ GoTo(c, "cancelled")
    /\ UNCHANGED <<key, mode, session_decisions, slot, thread, late, decision,
                   addrs, audit, upstream>>

\* What the sender of c's slot holds.
await_decision(c) == published[slot[c]]

\* The slot a follower awaits has been published.  A single-use grant sends it
\* back to the election; a session-scoped one lets it pass; the rest refuse.
FollowerWakes(c) ==
    LET d == await_decision(c) IN
    /\ pc[c] = "follow"
    /\ d # "none"
    /\ GoTo(c, CASE d = "Granted"           -> "elect"
                 [] d = "GrantedForSession" -> "resolve"
                 [] OTHER                   -> "refused")
    /\ UNCHANGED <<key, mode, session_decisions, promptVars, addrs, audit,
                   upstream>>

-----------------------------------------------------------------------------
\* outcome_from_allow on a refusal: the denial is logged, then answered.
Refuse(c) ==
    /\ pc[c] = "refused"
    /\ Log(c, "ApproveDenied")
    /\ GoTo(c, "done")
    /\ UNCHANGED <<key, mode, session_decisions, promptVars, addrs,
                   upstream>>

\* A mutant: a lookup that fails the guard is logged and then used.
ResolveApprovedAnyway(c) ==
    /\ pc[c] = "resolve"
    /\ \E r \in {"some", "empty"} : addrs' = [addrs EXCEPT ![c] = r]
    /\ \E e \in {"ApproveGranted", "ApproveDenied"} : Log(c, e)
    /\ GoTo(c, "connect")
    /\ UNCHANGED <<key, mode, session_decisions, promptVars, upstream>>

\* resolve_approved: each connection looks the host up for itself.  The
\* forward path logs the grant here, the tunnel only once it is answered.
ResolveApproved(c) ==
    /\ pc[c] = "resolve"
    /\ \/ /\ \E r \in {"some", "empty"} : addrs' = [addrs EXCEPT ![c] = r]
          /\ IF mode[c] = "forward" THEN Log(c, "ApproveGranted")
                                    ELSE UNCHANGED audit
          /\ GoTo(c, "connect")
       \/ /\ Log(c, "ApproveDenied")    \* a blocked address: approval is no help
          /\ GoTo(c, "done")
          /\ UNCHANGED addrs
    /\ UNCHANGED <<key, mode, session_decisions, promptVars,
                   upstream>>

\* The forward path only: the endpoint rules refuse the request, or its body
\* is malformed or too large (answered, and not logged).
RejectRequest(c) ==
    /\ pc[c] = "connect"
    /\ mode[c] # "connect"
    /\ \/ Log(c, "Denied") /\ GoTo(c, "done")
       \/ GoTo(c, "rejected") /\ UNCHANGED audit
    /\ UNCHANGED <<key, mode, session_decisions, promptVars, addrs, upstream>>

\* Connecting to the vetted addresses, never to the name; the chained path
\* connects to the external proxy.
ConnectUpstream(c) ==
    /\ pc[c] = "connect"
    /\ \/ /\ addrs[c] = "some" \/ mode[c] = "chained"
          /\ upstream' = [upstream EXCEPT ![c] = TRUE]
          /\ GoTo(c, "answer")
          /\ UNCHANGED audit
       \/ /\ Log(c, "UpstreamConnectFailed")
          /\ GoTo(c, "done")
          /\ UNCHANGED upstream
    /\ UNCHANGED <<key, mode, session_decisions, promptVars, addrs>>

\* The tunnel: 200, then the event, then the relay.  A client that hung up
\* fails the write and ends the handler before the event.  The forward path
\* logs the outcome of the exchange either way.
Answer(c) ==
    /\ pc[c] = "answer"
    /\ \/ /\ mode[c] = "connect"
          /\ Log(c, IF key[c] \in Allowlisted THEN "Allowed"
                                                 ELSE "ApproveGranted")
          /\ GoTo(c, "relay")
       \/ /\ mode[c] = "connect"
          /\ GoTo(c, "hungup")
          /\ UNCHANGED audit
       \/ /\ mode[c] # "connect"
          /\ \E e \in {"Request", "UpstreamConnectFailed"} : Log(c, e)
          /\ GoTo(c, "done")
    /\ UNCHANGED <<key, mode, session_decisions, promptVars, addrs,
                   upstream>>

RelayEnds(c) ==
    /\ pc[c] = "relay"
    /\ GoTo(c, "done")
    /\ UNCHANGED <<key, mode, session_decisions, promptVars, addrs,
                   audit, upstream>>

Finished(c) == pc[c] \in {"done", "rejected", "hungup", "cancelled"}

Terminated ==
    /\ \A c \in Conns : Finished(c) /\ thread[c] \in {"none", "ended"}
    /\ UNCHANGED vars

Step(c) ==
    \/ CheckHost(c) \/ Elect(c) \/ PromptStarts(c) \/ DeadlinePasses(c)
    \/ TimeoutTooLarge(c) \/ PromptReturns(c) \/ Backstop(c) \/ LeaderResolves(c) \/ Cancel(c)
    \/ FollowerWakes(c) \/ Refuse(c) \/ ResolveApproved(c)
    \/ RejectRequest(c) \/ ConnectUpstream(c) \/ Answer(c) \/ RelayEnds(c)

Next == (\E c \in Conns : Step(c)) \/ Terminated

\* The runtime polls every task that can go on, and timers fire; connecting
\* has a timeout.  Nothing is assumed of the backend, whose answer may never
\* come, of clients or of upstreams: a forwarded request waits for its body and
\* for its response without a timeout.
Fairness ==
    \A c \in Conns :
        /\ WF_vars(CheckHost(c)) /\ WF_vars(Elect(c))
        /\ WF_vars(DeadlinePasses(c)) /\ WF_vars(Backstop(c))
        /\ WF_vars(LeaderResolves(c)) /\ WF_vars(FollowerWakes(c))
        /\ WF_vars(Refuse(c)) /\ WF_vars(ResolveApproved(c))
        /\ WF_vars(mode[c] = "connect" /\ (ConnectUpstream(c) \/ Answer(c)))

Spec == Init /\ [][Next]_vars /\ Fairness

-----------------------------------------------------------------------------
TypeOK ==
    /\ pc \in [Conns -> {"new", "elect", "prompt", "settled", "follow",
                         "refused", "resolve", "connect", "answer", "relay",
                         "done", "rejected", "hungup", "cancelled"}]
    /\ key \in [Conns -> Keys]
    /\ mode \in [Conns -> Modes]
    /\ session_decisions \in [Keys -> {"unset", "allow", "deny"}]
    /\ in_flight \in [Keys -> Conns \cup {NoConn}]
    /\ published \in [Conns -> Decisions \cup {"none"}]
    /\ slot \in [Conns -> Conns \cup {NoConn}]
    /\ thread \in [Conns -> {"none", "queued", "running", "ended"}]
    /\ late \in [Conns -> BOOLEAN]
    /\ decision \in [Conns -> Decisions \cup {"none"}]
    /\ addrs \in [Conns -> {"unknown", "some", "empty"}]
    /\ audit \in [Conns -> SUBSET {"Denied", "Allowed", "ApproveGranted",
                                   "ApproveDenied", "UpstreamConnectFailed",
                                   "Request"}]
    /\ upstream \in [Conns -> BOOLEAN]

\* No connection reaches an upstream without authority: the target is on the
\* allowlist, or no deny list names it and the user let it pass for the
\* session, or answered this very connection before its deadline.  A
\* single-use grant never carries a follower (connect.rs:504-513).
ReachedWithAuthority ==
    \A c \in Conns : upstream[c] =>
        \/ key[c] \in Allowlisted
        \/ /\ key[c] \notin HardDenied
           /\ \/ session_decisions[key[c]] = "allow"
              \/ is_granted(decision[c]) /\ ~late[c]

\* Connections to one target never ask side by side: whoever arrives while a
\* prompt is open waits for it (connect.rs:484-503).
OnePromptPerTarget ==
    \A c, d \in Conns :
        /\ pc[c] \in {"prompt", "settled"}
        /\ pc[d] \in {"prompt", "settled"}
        /\ key[c] = key[d]
        => c = d

\* What the log says of a connection is what happened to it: a denial by
\* policy or by the user never stands beside an opened upstream (a failed
\* exchange may, server.rs:2466-2482), and a connection that ended or relays
\* was logged (unless the client or the task went away, or the request was
\* malformed).  An opened tunnel says who allowed it.
LogMatchesOutcome ==
    \A c \in Conns :
        /\ pc[c] \in {"done", "relay"} => audit[c] # {}
        /\ upstream[c] => audit[c] \cap {"Denied", "ApproveDenied"} = {}
        /\ pc[c] = "relay" => audit[c] = {IF key[c] \in Allowlisted
                                          THEN "Allowed" ELSE "ApproveGranted"}

\* "Always allow" and "Always deny" hold for the rest of the session: no late
\* or concurrent answer replaces one (connect.rs:481-490, 589-600).
SessionAnswerIsFinal ==
    [][\A k \in Keys : session_decisions[k] # "unset"
                          => session_decisions'[k] = session_decisions[k]]_vars

\* Whatever the backend does, and whichever task is dropped, a connection that
\* enters the election is settled: no follower waits for a leader that is
\* gone, and none is sent round for ever.  A tunnel ends or relays; a forwarded
\* request ends or is let through, and from there on it goes at the pace of its
\* client and its upstream (server.rs:2354, forward.rs:126-158).
ElectedSettles ==
    \A c \in Conns :
        pc[c] = "elect" ~> \/ Finished(c) \/ pc[c] = "relay"
                           \/ pc[c] = "connect" /\ mode[c] = "forward"

\* The abstract arbiter this handler implements: the session's answers are the
\* cache, a question stands while its leader waits within the deadline.
Arbiter == INSTANCE HostArbiter WITH
    target  <- key,
    policy  <- session_decisions,
    asked   <- {c \in Conns : pc[c] = "prompt" /\ ~late[c]},
    granted <- {c \in Conns : decision[c] = "Granted"},
    reached <- {c \in Conns : upstream[c]}

\* Every behaviour of the handlers, with their elections, prompts, timeouts and
\* dropped tasks, is one of the arbiter: one question at a time about a target,
\* no answer to one that was given up (connect.rs:580-591), a single-use answer
\* serves one connection, a session answer is given once, and no upstream is
\* reached but on one of them (connect.rs:440-519).
ImplementsArbiter == Arbiter!Spec
=============================================================================
