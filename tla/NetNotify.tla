------------------------------ MODULE NetNotify ------------------------------
(***************************************************************************)
(* Network notifications: connect, bind and the send family, trapped by    *)
(* seccomp and decided by the supervisor thread                            *)
(* (crates/nono-cli/src/exec_strategy/supervisor_linux.rs and the loop in  *)
(* exec_strategy.rs).  The child, its threads and its descendants run on   *)
(* between any two steps.                                                  *)
(***************************************************************************)
EXTENDS Naturals, Sequences, FiniteSets

CONSTANTS
    MaxNotifications,  \* bound: notifications of a behaviour
    Names, Objects,    \* socket path names, canonical paths
    Ports,             \* TCP and UDP ports
    Allowlist,         \* UnixSocketCapability: pairs of a canonical path and an operation
    Approvable,        \* pairs that may be put to the approval backend
    ConnectPorts, LoopbackPorts, BindPorts,   \* granted ports
    ProxyFallback, AfUnixMediation,           \* SeccompPolicy
    Calls,             \* the system calls the child may make
    Burst, DenialBurst,                       \* sizes of the two token buckets
    MaxRefills, MaxRelinks, MaxAuditFailures  \* bounds of the model

Missing == "missing"
NoId == 0
Ids == 1 .. MaxNotifications   \* the kernel counts them up
Ops == {"connect", "bind", "send"}
Answers == {"granted", "granted_for_session", "denied", "denied_for_session"}
Granting == {"granted", "granted_for_session"}
SessionScoped == {"granted_for_session", "denied_for_session"}
Keys == Objects \X Ops

\* What read_notif_sockaddr makes of the child's memory.
UnixAddrs == [family : {"unix"}, kind : {"pathname"}, name : Names]
                 \cup [family : {"unix"}, kind : {"abstract", "unnamed"}]
InetAddrs == [family : {"inet"}, port : Ports, loopback : BOOLEAN]

ASSUME NetConstants ==
    /\ Missing \notin Objects
    /\ Allowlist \subseteq Keys
    /\ Approvable \subseteq Objects \X {"connect", "bind"}
    /\ ConnectPorts \subseteq Ports /\ LoopbackPorts \subseteq Ports /\ BindPorts \subseteq Ports
    /\ ProxyFallback \in BOOLEAN /\ AfUnixMediation \in BOOLEAN
    /\ Calls \subseteq [nr : Ops, dests : Seq(UnixAddrs \cup InetAddrs), readable : BOOLEAN]
    /\ {MaxNotifications, Burst, DenialBurst, MaxRefills, MaxRelinks, MaxAuditFailures} \subseteq Nat

VARIABLES
    notif,      \* kernel: state of each notification, with the answer it got
    link,       \* file system: what a socket path name resolves to
    loop,       \* the supervisor loop: running, draining, flushing, ended
    work,       \* the notification in hand; settled: the destinations let through, and why
    tokens, throttle, suppressed,   \* RateLimiter and NetworkDenialThrottle
    decisions,  \* UnixSocketSessionDecisions
    audit,      \* capability audit records: key and answer
    events,     \* network audit events: single denials, and denials in summaries
    denied,     \* history: calls refused with EACCES by the policy
    used        \* bounds: refills, relinks, audit failures

vars == <<notif, link, loop, work, tokens, throttle, suppressed, decisions, audit,
          events, denied, used>>

Idle == [pc |-> "poll", id |-> NoId, call |-> [nr |-> "send", dests |-> <<>>, readable |-> TRUE],
         at |-> 1, key |-> <<>>, answer |-> "none", record |-> FALSE, settled |-> {}]

Init ==
    /\ notif = [i \in Ids |-> "unused"]
    /\ link \in [Names -> Objects \cup {Missing}]
    /\ loop = "running"
    /\ work = Idle
    /\ tokens = Burst /\ throttle = DenialBurst /\ suppressed = 0
    /\ decisions = [k \in Keys |-> "none"]
    /\ audit = {}
    /\ events = [single |-> 0, summed |-> 0]
    /\ denied = 0
    /\ used = [refills |-> 0, relinks |-> 0, failures |-> 0]

-----------------------------------------------------------------------------
(* The sandboxed processes and the kernel *)

child == <<notif, link>>

\* A trapped call: its thread sleeps until it is answered or interrupted.
Trap(i) ==
    /\ notif[i] = "unused" /\ loop # "ended"
    /\ \A j \in Ids : j < i => notif[j] # "unused"
    /\ notif' = [notif EXCEPT ![i] = "pending"]
    /\ UNCHANGED <<link, loop, work, tokens, throttle, suppressed, decisions, audit, events,
                   denied, used>>

Interrupt(i) ==
    /\ notif[i] \in {"pending", "received"}
    /\ notif' = [notif EXCEPT ![i] = "gone"]
    /\ UNCHANGED <<link, loop, work, tokens, throttle, suppressed, decisions, audit, events,
                   denied, used>>

Relink(n, o) ==
    /\ used.relinks < MaxRelinks /\ link[n] # o
    /\ link' = [link EXCEPT ![n] = o]
    /\ used' = [used EXCEPT !.relinks = @ + 1]
    /\ UNCHANGED <<notif, loop, work, tokens, throttle, suppressed, decisions, audit, events,
                   denied>>

-----------------------------------------------------------------------------
(* Policy *)

network_notification_out_of_scope(a) ==
    \/ ~ProxyFallback /\ AfUnixMediation /\ a.family # "unix"
    \/ ProxyFallback /\ ~AfUnixMediation /\ a.family = "unix"

unix_socket_allowlist_allows(o, op) == <<o, op>> \in Allowlist
unix_socket_approvable(o, op) == <<o, op>> \in Approvable

decide_af_unix_pathname(a, op) ==
    LET o == link[a.name]
    IN CASE o = Missing -> "deny"
         [] o # Missing /\ unix_socket_allowlist_allows(o, op) -> "allow"
         [] o # Missing /\ ~unix_socket_allowlist_allows(o, op) ->
                IF unix_socket_approvable(o, op) THEN "ask" ELSE "deny"

decide_inet(a, op) ==
    IF op = "bind"
    THEN a.port \in BindPorts \cup LoopbackPorts
    ELSE \/ op = "connect" /\ a.port \in ConnectPorts
         \/ a.loopback /\ a.port \in LoopbackPorts

decide_network_notification(a, op) ==
    CASE network_notification_out_of_scope(a) -> "allow"
      [] ~network_notification_out_of_scope(a) /\ a.family = "unix" ->
             IF a.kind = "pathname" THEN decide_af_unix_pathname(a, op) ELSE "deny"
      [] ~network_notification_out_of_scope(a) /\ a.family = "inet" ->
             IF decide_inet(a, op) THEN "allow" ELSE "deny"

-----------------------------------------------------------------------------
(* handle_received_network_notification *)

At(pc) == work.pc = pc
Dest == work.call.dests[work.at]
Alive(i) == notif[i] = "received"

\* The ioctl answers the notification, or fails because it is gone; an error
\* that reaches the drain ends it.
Respond(i, answer) == IF Alive(i) THEN [notif EXCEPT ![i] = answer] ELSE notif
AfterError == IF loop = "draining" THEN "flushing" ELSE loop
LoopAfter(i) == IF Alive(i) THEN loop ELSE AfterError

\* recv_notif and the reads of the sockaddrs: unreadable memory is refused,
\* no destination or nothing to mediate goes on at once.
RecvNotif(i, c) ==
    /\ loop \in {"running", "draining"} /\ At("poll")
    /\ notif[i] = "pending"
    /\ IF ~c.readable
       THEN notif' = [notif EXCEPT ![i] = "eperm"] /\ UNCHANGED work
       ELSE IF \A n \in DOMAIN c.dests : network_notification_out_of_scope(c.dests[n])
       THEN notif' = [notif EXCEPT ![i] = "continued"] /\ UNCHANGED work
       ELSE /\ notif' = [notif EXCEPT ![i] = "received"]
            /\ work' = [Idle EXCEPT !.pc = "check", !.id = i, !.call = c]
    /\ UNCHANGED <<link, loop, tokens, throttle, suppressed, decisions, audit, events,
                   denied, used>>

NotifIdValid ==
    /\ At("check")
    /\ work' = IF Alive(work.id) THEN [work EXCEPT !.pc = "decide"] ELSE Idle
    /\ UNCHANGED <<child, loop, tokens, throttle, suppressed, decisions, audit, events,
                   denied, used>>

\* The next destination, or the end of the loop over them.
NextDest == [work EXCEPT !.pc = IF work.at = Len(work.call.dests) THEN "continue" ELSE "decide",
                         !.at = @ + 1, !.key = <<>>, !.answer = "none",
                         !.settled = @ \cup {[at |-> work.at, key |-> work.key]}]

\* Mutant of Decide: the first destination that is allowed settles the call.
DecideFirst ==
    /\ At("decide")
    /\ LET d == decide_network_notification(Dest, work.call.nr)
           key == IF d = "ask" THEN <<link[Dest.name], work.call.nr>> ELSE <<>>
       IN /\ work' = CASE d = "allow" -> [NextDest EXCEPT !.pc = "continue"]
                       [] d = "deny" -> [work EXCEPT !.pc = "deny"]
                       [] d = "ask" -> [work EXCEPT !.pc = "ask", !.key = key]
    /\ UNCHANGED <<child, loop, tokens, throttle, suppressed, decisions, audit, events,
                   denied, used>>

Decide ==
    /\ At("decide")
    /\ LET d == decide_network_notification(Dest, work.call.nr)
           key == IF d = "ask" THEN <<link[Dest.name], work.call.nr>> ELSE <<>>
       IN /\ work' = CASE d = "allow" -> NextDest
                       [] d = "deny" -> [work EXCEPT !.pc = "deny"]
                       [] d = "ask" -> [work EXCEPT !.pc = "ask", !.key = key]
    /\ UNCHANGED <<child, loop, tokens, throttle, suppressed, decisions, audit, events,
                   denied, used>>

Refill(bucket, size, k) == IF bucket + k > size THEN size ELSE bucket + k

\* request_unix_socket_approval up to the prompt: nobody is asked while
\* draining, after a session-scoped answer, or without a token.
LookUpDecision(k) ==
    /\ At("ask")
    /\ used.refills + k <= MaxRefills
    /\ IF loop = "draining"
       THEN k = 0 /\ work' = [work EXCEPT !.pc = "revalidate", !.answer = "denied"]
            /\ UNCHANGED tokens
       ELSE IF decisions[work.key] # "none"
       THEN k = 0 /\ work' = [work EXCEPT !.pc = "revalidate", !.answer = decisions[work.key]]
            /\ UNCHANGED tokens
       ELSE IF Refill(tokens, Burst, k) = 0
       THEN tokens' = 0 /\ work' = [work EXCEPT !.pc = "revalidate", !.answer = "denied"]
       ELSE /\ tokens' = Refill(tokens, Burst, k) - 1
            /\ work' = [work EXCEPT !.pc = "prompt"]
    /\ used' = [used EXCEPT !.refills = @ + k]
    /\ UNCHANGED <<child, loop, throttle, suppressed, decisions, audit, events, denied>>

\* The backend answers; an error or a timeout counts as a denial.
BackendAnswers(a) ==
    /\ At("prompt")
    /\ work' = [work EXCEPT !.pc = "audit", !.answer = a]
    /\ UNCHANGED <<child, loop, tokens, throttle, suppressed, decisions, audit, events,
                   denied, used>>

\* record_capability_audit, then the session-scoped answer is kept.  Without
\* the record the call is refused and nothing is kept.
RecordAudit ==
    /\ At("audit")
    /\ \/ /\ audit' = audit \cup {[key |-> work.key, answer |-> work.answer]}
          /\ decisions' = IF work.answer \in SessionScoped
                          THEN [decisions EXCEPT ![work.key] = work.answer] ELSE decisions
          /\ work' = [work EXCEPT !.pc = "revalidate"]
          /\ UNCHANGED <<notif, used, loop>>
       \/ /\ used.failures < MaxAuditFailures
          /\ used' = [used EXCEPT !.failures = @ + 1]
          /\ notif' = Respond(work.id, "eacces")
          /\ work' = Idle
          /\ loop' = AfterError
          /\ UNCHANGED <<audit, decisions>>
    /\ UNCHANGED <<link, tokens, throttle, suppressed, events, denied>>

\* The call may have gone away while the user thought about it.
Revalidate ==
    /\ At("revalidate")
    /\ work' = CASE ~Alive(work.id) -> Idle
                 [] Alive(work.id) /\ work.answer \in Granting -> NextDest
                 [] Alive(work.id) /\ work.answer \notin Granting -> [work EXCEPT !.pc = "deny"]
    /\ UNCHANGED <<child, loop, tokens, throttle, suppressed, decisions, audit, events,
                   denied, used>>

\* Mutant of Admit: the denial that is admitted again resets the count of the
\* suppressed ones without a summary.
AdmitDropsCount(k) ==
    /\ At("deny")
    /\ used.refills + k <= MaxRefills
    /\ LET left == Refill(throttle, DenialBurst, k)
       IN /\ work' = [work EXCEPT !.pc = "respond", !.record = left > 0]
          /\ throttle' = IF left > 0 THEN left - 1 ELSE 0
          /\ suppressed' = IF left > 0 THEN 0 ELSE suppressed + 1
    /\ used' = [used EXCEPT !.refills = @ + k]
    /\ UNCHANGED <<child, loop, tokens, decisions, audit, events, denied>>

\* NetworkDenialThrottle::admit; a denial within the budget first writes the
\* summary of those suppressed before it.
Admit(k) ==
    /\ At("deny")
    /\ used.refills + k <= MaxRefills
    /\ LET left == Refill(throttle, DenialBurst, k)
       IN IF left > 0
          THEN /\ throttle' = left - 1
               /\ events' = [events EXCEPT !.summed = @ + suppressed]
               /\ suppressed' = 0
               /\ work' = [work EXCEPT !.pc = "respond", !.record = TRUE]
          ELSE /\ throttle' = 0
               /\ suppressed' = suppressed + 1
               /\ work' = [work EXCEPT !.pc = "respond", !.record = FALSE]
               /\ UNCHANGED events
    /\ used' = [used EXCEPT !.refills = @ + k]
    /\ UNCHANGED <<child, loop, tokens, decisions, audit, denied>>

\* EACCES, then the event of an admitted denial.
RespondDenied ==
    /\ At("respond")
    /\ notif' = Respond(work.id, "eacces")
    /\ denied' = denied + (IF Alive(work.id) THEN 1 ELSE 0)
    /\ events' = IF Alive(work.id) /\ work.record
                 THEN [events EXCEPT !.single = @ + 1] ELSE events
    /\ loop' = LoopAfter(work.id)
    /\ work' = Idle
    /\ UNCHANGED <<link, tokens, throttle, suppressed, decisions, audit, used>>

\* continue_notif: the kernel carries the call out, reading the child's memory
\* again.
ContinueNotif ==
    /\ At("continue")
    /\ notif' = Respond(work.id, "continued")
    /\ loop' = LoopAfter(work.id)
    /\ work' = Idle
    /\ UNCHANGED <<link, tokens, throttle, suppressed, decisions, audit, events,
                   denied, used>>

-----------------------------------------------------------------------------
(* The end of the loop *)

\* The orphan sweep, the startup timeout or an error returns at once; a
\* status from waitpid first drains the pending notifications.
LoopEnds(next) ==
    /\ loop = "running" /\ At("poll")
    /\ next \in {"draining", "flushing"}
    /\ loop' = next
    /\ UNCHANGED <<child, work, tokens, throttle, suppressed, decisions, audit, events,
                   denied, used>>

DrainEnds ==
    /\ loop = "draining" /\ At("poll")
    /\ \A i \in Ids : notif[i] # "pending"
    /\ loop' = "flushing"
    /\ UNCHANGED <<child, work, tokens, throttle, suppressed, decisions, audit, events,
                   denied, used>>

\* run_supervisor_loop: whatever the exit, suppressed denials are reported.
FlushSuppressed ==
    /\ loop = "flushing" /\ At("poll")
    /\ events' = [events EXCEPT !.summed = @ + suppressed]
    /\ suppressed' = 0
    /\ loop' = "ended"
    /\ UNCHANGED <<child, work, tokens, throttle, decisions, audit, denied, used>>

-----------------------------------------------------------------------------
SupervisorStep ==
    \/ \E i \in Ids, c \in Calls : RecvNotif(i, c)
    \/ NotifIdValid \/ Decide \/ RecordAudit \/ Revalidate \/ RespondDenied \/ ContinueNotif
    \/ \E k \in 0 .. MaxRefills : LookUpDecision(k) \/ Admit(k)
    \/ \E a \in Answers : BackendAnswers(a)
    \/ DrainEnds \/ FlushSuppressed

Next ==
    \/ \E i \in Ids : Trap(i) \/ Interrupt(i)
    \/ \E n \in Names, o \in Objects \cup {Missing} : Relink(n, o)
    \/ \E next \in {"draining", "flushing"} : LoopEnds(next)
    \/ SupervisorStep

Spec == Init /\ [][Next]_vars
FairSpec == Spec /\ WF_vars(SupervisorStep)

-----------------------------------------------------------------------------
(* Properties *)

\* Every variable has its type.
TypeOK ==
    /\ notif \in [Ids -> {"unused", "pending", "received", "gone", "eperm", "eacces", "continued"}]
    /\ link \in [Names -> Objects \cup {Missing}]
    /\ loop \in {"running", "draining", "flushing", "ended"}
    /\ work.pc \in {"poll", "check", "decide", "ask", "prompt", "audit", "revalidate", "deny",
                    "respond", "continue"}
    /\ work.id \in Ids \cup {NoId} /\ work.call \in Calls \cup {Idle.call}
    /\ work.key \in Keys \cup {<<>>} /\ work.answer \in Answers \cup {"none"}
    /\ tokens \in 0 .. Burst /\ throttle \in 0 .. DenialBurst /\ suppressed \in Nat
    /\ decisions \in [Keys -> SessionScoped \cup {"none"}]
    /\ audit \subseteq [key : Keys, answer : Answers]
    /\ events \in [single : Nat, summed : Nat]
    /\ denied \in Nat

\* A mediated call that the supervisor lets the kernel carry out had every one
\* of its destinations allowed by the policy, or granted by an answer that is
\* in the audit log (handle_received_network_notification: the loop over the
\* sockaddrs, request_unix_socket_approval).
Settled(n) == \E b \in work.settled :
    /\ b.at = n
    /\ b.key # <<>> => \E a \in Granting : [key |-> b.key, answer |-> a] \in audit
ContinuedWasPermitted == At("continue") => \A n \in DOMAIN work.call.dests : Settled(n)

\* Every call refused by the policy is in the audit trail, on its own or in
\* the count of a summary, and nothing is left uncounted when the loop has
\* ended, whichever way it ended (NetworkDenialThrottle).
DenialsAccounted ==
    /\ denied <= events.single + events.summed + suppressed
    /\ loop = "ended" => denied <= events.single + events.summed

\* After an answer for the session that was recorded the user is not asked
\* about that socket and operation again, and the answer is never replaced.
SessionAnswersStand ==
    [][\A k \in Keys : decisions[k] # "none" =>
           decisions'[k] = decisions[k] /\ ~(work'.pc = "prompt" /\ work'.key = k)]_vars

\* A notification that was received is answered, unless its caller gave up,
\* and the loop that has seen its child exit comes to an end.
ReceivedAnswered ==
    /\ \A i \in Ids : notif[i] = "received" ~> notif[i] # "received"
    /\ loop = "flushing" ~> loop = "ended"
=============================================================================
