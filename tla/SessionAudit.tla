---------------------------- MODULE SessionAudit ----------------------------
(***************************************************************************)
(* The audit log of one supervised session: the hash-chained recorder      *)
(* (crates/nono/src/audit.rs), the threads that append to it, the proxy's  *)
(* live sink and buffer (crates/nono-proxy/src/audit.rs), and the session  *)
(* finalizer (crates/nono-cli/src/rollback_runtime.rs).                    *)
(*                                                                         *)
(* Hashes are collision free: an event is its own leaf hash, a chain hash  *)
(* is the sequence of the leaves it commits to, and so is a Merkle root.   *)
(* The log file is a sequence of lines; a line is a sequence of records    *)
(* and torn fragments, because a failed write leaves a line without its    *)
(* newline and the next append continues it.                               *)
(***************************************************************************)
EXTENDS Naturals, Sequences, FiniteSets

CONSTANTS
    ProxyEvents,            \* network events, one per proxy connection task
    SupervisorEvents,       \* network events of the supervisor thread
    DecisionEvents,         \* capability decisions and URL opens, same thread
    CommandEvents,          \* command-policy events, one per mediation thread
    CommandOf, OutcomeOf,   \* what a command-policy event is about
    MaxAuditEvents,         \* MAX_AUDIT_EVENTS of the proxy buffer
    MaxCommands,            \* COMMAND_POLICY_SUMMARY_MAX_COMMANDS
    AuditIntegrityEnabled,  \* FALSE under --no-audit-integrity
    MaxFaults               \* bound on the failing writes of a behaviour

Started == "session_started"
SandboxRuntime == "sandbox_runtime"
Ended == "session_ended"

NetworkEvents == ProxyEvents \cup SupervisorEvents
Payloads == NetworkEvents \cup DecisionEvents \cup CommandEvents
                \cup {Started, SandboxRuntime, Ended}
Commands == {CommandOf[e] : e \in CommandEvents}
Outcomes == {"Pending", "Allowed", "Denied", "Other"}

AuditConstants ==
    /\ MaxAuditEvents \in Nat /\ MaxCommands \in Nat /\ MaxFaults \in Nat
    /\ AuditIntegrityEnabled \in BOOLEAN
    /\ OutcomeOf \in [CommandEvents -> Outcomes]
    /\ DOMAIN CommandOf = CommandEvents
    /\ ProxyEvents \cap SupervisorEvents = {}
    /\ NetworkEvents \cap (DecisionEvents \cup CommandEvents) = {}
    /\ DecisionEvents \cap CommandEvents = {}
    /\ {Started, SandboxRuntime, Ended}
         \cap (NetworkEvents \cup DecisionEvents \cup CommandEvents) = {}

VARIABLES
    lines,            \* audit-events.ndjson
    unterminated,     \* the last line has no newline yet
    next_sequence, previous_chain, leaf_hashes, ended,   \* AuditRecorder
    rollup,           \* its CommandPolicySummaryBuilder
    recorder_lock,    \* the finalizer holds the recorder mutex across appends
    sink,             \* the proxy's live sink is attached
    buffer,           \* AuditLog::events
    supervisor_events,\* the supervisor's own buffer
    push,             \* how far the delivery of each event has come
    phase,            \* the supervisor thread
    drained, unrecorded, network_events,     \* locals of finalize_supervised_exit
    metadata,         \* session.json, once phase is "saved"
    faults,           \* failing writes so far
    torn_write        \* history: some failed write left bytes in the log

file == <<lines, unterminated>>
recorder == <<next_sequence, previous_chain, leaf_hashes>>
locals == <<drained, unrecorded, network_events, metadata>>
vars == <<lines, unterminated, next_sequence, previous_chain, leaf_hashes,
          ended, rollup, recorder_lock, sink, buffer, supervisor_events, push,
          phase, drained, unrecorded, network_events, metadata, faults, torn_write>>

Chains == Seq(Payloads)
AuditEventRecord ==
    [sequence : Nat, prev_chain : Chains, leaf_hash : Payloads,
     chain_hash : Chains, whole : BOOLEAN]
BufferedAuditEvent == [event : NetworkEvents, live_recorded : BOOLEAN]
CommandSummary == [allowed : Nat, denied : Nat, other : Nat]
IsCommandPolicySummary(r) ==
    /\ DOMAIN r = {"mediation_active", "event_count", "invocation_count",
                   "commands", "truncated"}
    /\ r.mediation_active \in BOOLEAN /\ r.truncated \in BOOLEAN
    /\ r.event_count \in Nat /\ r.invocation_count \in Nat
    /\ DOMAIN r.commands \subseteq Commands
    /\ r.commands \in [DOMAIN r.commands -> CommandSummary]
IntegritySummary == [event_count : Nat, chain_head : Chains, merkle_root : Chains]
NoIntegrity == [event_count |-> 0, chain_head |-> <<>>, merkle_root |-> <<>>]
IsSessionMetadata(m) ==
    /\ DOMAIN m = {"audit_event_count", "audit_integrity", "network_events",
                   "rollup"}
    /\ m.audit_event_count \in Nat /\ m.audit_integrity \in IntegritySummary
    /\ m.network_events \in Seq(NetworkEvents)
    /\ IsCommandPolicySummary(m.rollup)
Phases == {"starting", "started", "marked", "running", "exited", "detached",
           "sorting", "replaying", "sealed", "saved", "failed"}
Pushes == {"idle", "delivering", "unattached", "recorded", "rejected",
           "buffered", "dropped"}

TypeOK ==
    /\ lines \in Seq(Seq(AuditEventRecord))
    /\ unterminated \in BOOLEAN
    /\ next_sequence \in Nat
    /\ previous_chain \in Chains
    /\ leaf_hashes \in Seq(Payloads)
    /\ ended \in BOOLEAN
    /\ IsCommandPolicySummary(rollup)
    /\ recorder_lock \in BOOLEAN
    /\ sink \in BOOLEAN
    /\ buffer \in Seq(BufferedAuditEvent)
    /\ supervisor_events \in Seq(BufferedAuditEvent)
    /\ push \in [ProxyEvents \cup SupervisorEvents \cup DecisionEvents
                    \cup CommandEvents -> Pushes]
    /\ phase \in Phases
    /\ drained \in Seq(BufferedAuditEvent)
    /\ unrecorded \in Seq(NetworkEvents)
    /\ network_events \in Seq(NetworkEvents)
    /\ IsSessionMetadata(metadata)
    /\ faults \in 0..MaxFaults
    /\ torn_write \in BOOLEAN

-----------------------------------------------------------------------------
(* The recorder                                                            *)

EmptyRollup ==
    [mediation_active |-> FALSE, event_count |-> 0, invocation_count |-> 0,
     commands |-> [c \in {} |-> [allowed |-> 0, denied |-> 0, other |-> 0]],
     truncated |-> FALSE]

NoMetadata ==
    [audit_event_count |-> 0, audit_integrity |-> NoIntegrity,
     network_events |-> <<>>, rollup |-> EmptyRollup]

hash_chain(previous, leaf) == Append(previous, leaf)

Record(event) ==
    [sequence |-> next_sequence, prev_chain |-> previous_chain,
     leaf_hash |-> event, chain_hash |-> hash_chain(previous_chain, event),
     whole |-> TRUE]

(* The bytes a failed write leaves behind.                                 *)
Torn(record) == [record EXCEPT !.whole = FALSE]

(* Bytes go to the end of the file: they continue an unterminated line.    *)
Written(item) ==
    IF unterminated THEN [lines EXCEPT ![Len(lines)] = Append(@, item)]
                    ELSE Append(lines, <<item>>)

Advance(event) ==
    /\ next_sequence' = next_sequence + 1
    /\ previous_chain' = hash_chain(previous_chain, event)
    /\ leaf_hashes' = Append(leaf_hashes, event)

append_event(event) ==
    /\ ~ended
    /\ lines' = Written(Record(event))
    /\ unterminated' = FALSE
    /\ Advance(event)
    /\ UNCHANGED <<faults, torn_write>>

(* write_all and the newline can fail before the first byte, part of the   *)
(* way through the line, or between the line and its newline.              *)
append_fails(event) ==
    /\ ~ended
    /\ faults < MaxFaults
    /\ faults' = faults + 1
    /\ \/ UNCHANGED <<lines, unterminated, torn_write>>
       \/ /\ \E item \in {Torn(Record(event)), Record(event)} : lines' = Written(item)
          /\ unterminated' = TRUE
          /\ torn_write' = TRUE
    /\ UNCHANGED recorder

append_refused ==
    /\ ended
    /\ UNCHANGED <<lines, unterminated, next_sequence, previous_chain,
                   leaf_hashes, faults, torn_write>>

append_error(event) == append_fails(event) \/ append_refused

(* CommandPolicySummaryBuilder::observe: totals always, the per-command    *)
(* counts only for the first MaxCommands commands.                         *)
Bump(summary, outcome) ==
    CASE outcome = "Allowed" -> [summary EXCEPT !.allowed = @ + 1]
      [] outcome = "Denied"  -> [summary EXCEPT !.denied = @ + 1]
      [] OTHER               -> [summary EXCEPT !.other = @ + 1]

Entry(c) == IF c \in DOMAIN rollup.commands
            THEN rollup.commands[c]
            ELSE [allowed |-> 0, denied |-> 0, other |-> 0]

(* A plausible bug: a command beyond the bound is not counted at all.      *)
ObservedIfNamed(e) ==
    IF CommandOf[e] \notin DOMAIN rollup.commands
          /\ Cardinality(DOMAIN rollup.commands) >= MaxCommands
    THEN [rollup EXCEPT !.truncated = TRUE]
    ELSE [rollup EXCEPT
            !.event_count = @ + 1,
            !.invocation_count = IF OutcomeOf[e] = "Pending" THEN @ ELSE @ + 1]

Observed(e) ==
    LET c == CommandOf[e]
        totals == [rollup EXCEPT
            !.event_count = @ + 1,
            !.invocation_count = IF OutcomeOf[e] = "Pending" THEN @ ELSE @ + 1]
    IN  IF OutcomeOf[e] = "Pending" THEN totals
        ELSE IF c \notin DOMAIN rollup.commands
                /\ Cardinality(DOMAIN rollup.commands) >= MaxCommands
        THEN [totals EXCEPT !.truncated = TRUE]
        ELSE [totals EXCEPT !.commands =
                [d \in DOMAIN rollup.commands \cup {c} |->
                    IF d = c THEN Bump(Entry(c), OutcomeOf[e])
                             ELSE rollup.commands[d]]]

finalize ==
    IF previous_chain = <<>> THEN NoIntegrity
    ELSE [event_count |-> Len(leaf_hashes), chain_head |-> previous_chain,
          merkle_root |-> leaf_hashes]

-----------------------------------------------------------------------------
(* Verification of a log, and what it commits to                           *)

Parses(line) == Len(line) = 1 /\ line[1].whole
LogRecord(i) == lines[i][1]
ChainBefore(i) == IF i = 1 THEN <<>> ELSE LogRecord(i - 1).chain_hash

RecordsVerify ==
    \A i \in 1..Len(lines) :
        /\ Parses(lines[i])
        /\ LogRecord(i).sequence = i - 1
        /\ LogRecord(i).prev_chain = ChainBefore(i)
        /\ LogRecord(i).chain_hash = hash_chain(ChainBefore(i), LogRecord(i).leaf_hash)

LoggedLeaves == [i \in 1..Len(lines) |-> LogRecord(i).leaf_hash]

verify_audit_log(stored) ==
    /\ RecordsVerify
    /\ stored # NoIntegrity =>
         /\ lines # <<>>
         /\ stored.chain_head = LogRecord(Len(lines)).chain_hash
         /\ stored.merkle_root = LoggedLeaves

-----------------------------------------------------------------------------
(* The supervisor thread, before and while the child runs                  *)

Init ==
    /\ lines = <<>> /\ unterminated = FALSE
    /\ next_sequence = 0 /\ previous_chain = <<>> /\ leaf_hashes = <<>>
    /\ ended = FALSE /\ rollup = EmptyRollup /\ recorder_lock = FALSE
    /\ sink = FALSE /\ buffer = <<>> /\ supervisor_events = <<>>
    /\ push = [e \in ProxyEvents \cup SupervisorEvents \cup DecisionEvents
                        \cup CommandEvents |-> "idle"]
    /\ phase = "starting"
    /\ drained = <<>> /\ unrecorded = <<>> /\ network_events = <<>> /\ metadata = NoMetadata
    /\ faults = 0 /\ torn_write = FALSE

record_session_started ==
    /\ phase = "starting"
    /\ \/ append_event(Started) /\ phase' = "started"
       \/ append_error(Started) /\ phase' = "failed"
    /\ UNCHANGED <<ended, rollup, recorder_lock, sink, buffer,
                   supervisor_events, push, locals>>

(* Command mediation leaves a marker even if no command is ever invoked.   *)
record_sandbox_runtime_event ==
    /\ phase = "started"
    /\ CommandEvents # {}
    /\ \/ /\ append_event(SandboxRuntime)
          /\ phase' = "marked"
          /\ rollup' = [rollup EXCEPT !.mediation_active = TRUE]
       \/ append_error(SandboxRuntime) /\ phase' = "failed" /\ UNCHANGED rollup
    /\ UNCHANGED <<ended, recorder_lock, sink, buffer, supervisor_events,
                   push, locals>>

(* The sink's read lock is held by every delivery until it is buffered.    *)
Delivering == {e \in ProxyEvents :
                 push[e] \in {"delivering", "unattached", "recorded", "rejected"}}

attach_sink ==
    /\ phase = IF CommandEvents = {} THEN "started" ELSE "marked"
    /\ Delivering = {}
    /\ sink' = TRUE
    /\ phase' = "running"
    /\ UNCHANGED <<file, recorder, ended, rollup, recorder_lock, buffer,
                   supervisor_events, push, locals, faults, torn_write>>

push_network_audit_event(e) ==
    /\ phase = "running"
    /\ push[e] = "idle"
    /\ \E live \in BOOLEAN :
         /\ IF live THEN append_event(e) ELSE append_error(e)
         /\ supervisor_events' = Append(supervisor_events,
                                   [event |-> e, live_recorded |-> live])
    /\ push' = [push EXCEPT ![e] = "buffered"]
    /\ UNCHANGED <<ended, rollup, recorder_lock, sink, buffer, phase, locals>>

record_capability_decision(e) ==
    /\ phase = "running"
    /\ push[e] = "idle"
    /\ \/ append_event(e) /\ push' = [push EXCEPT ![e] = "recorded"]
       \/ append_error(e) /\ push' = [push EXCEPT ![e] = "rejected"]
    /\ UNCHANGED <<ended, rollup, recorder_lock, sink, buffer,
                   supervisor_events, phase, locals>>

child_exits ==
    /\ phase = "running"
    /\ phase' = "exited"
    /\ UNCHANGED <<file, recorder, ended, rollup, recorder_lock, sink, buffer,
                   supervisor_events, push, locals, faults, torn_write>>

-----------------------------------------------------------------------------
(* Mediation threads and proxy tasks                                       *)

record_command_policy_event(e) ==
    /\ phase \notin {"starting", "started", "marked", "failed"}
    /\ ~recorder_lock
    /\ push[e] = "idle"
    /\ \/ /\ append_event(e)
          /\ rollup' = Observed(e)
          /\ push' = [push EXCEPT ![e] = "recorded"]
       \/ /\ append_error(e)
          /\ push' = [push EXCEPT ![e] = "rejected"]
          /\ UNCHANGED rollup
    /\ UNCHANGED <<ended, recorder_lock, sink, buffer, supervisor_events,
                   phase, locals>>

(* push_event: take the sink's read lock and look whether one is attached. *)
begin_push(e) ==
    /\ push[e] = "idle"
    /\ push' = [push EXCEPT ![e] = IF sink THEN "delivering" ELSE "unattached"]
    /\ UNCHANGED <<file, recorder, ended, rollup, recorder_lock, sink, buffer,
                   supervisor_events, phase, locals, faults, torn_write>>

(* The sink locks the recorder and appends.                                *)
deliver(e) ==
    /\ push[e] = "delivering"
    /\ ~recorder_lock
    /\ \/ append_event(e) /\ push' = [push EXCEPT ![e] = "recorded"]
       \/ append_error(e) /\ push' = [push EXCEPT ![e] = "rejected"]
    /\ UNCHANGED <<ended, rollup, recorder_lock, sink, buffer,
                   supervisor_events, phase, locals>>

(* Buffer the event with its outcome, if there is room, and release.       *)
buffer_event(e) ==
    /\ push[e] \in {"unattached", "recorded", "rejected"}
    /\ IF Len(buffer) < MaxAuditEvents
       THEN /\ buffer' = Append(buffer, [event |-> e,
                             live_recorded |-> push[e] = "recorded"])
            /\ push' = [push EXCEPT ![e] = "buffered"]
       ELSE /\ push' = [push EXCEPT ![e] = "dropped"]
            /\ UNCHANGED buffer
    /\ UNCHANGED <<file, recorder, ended, rollup, recorder_lock, sink,
                   supervisor_events, phase, locals, faults, torn_write>>

-----------------------------------------------------------------------------
(* finalize_supervised_exit                                                *)

(* A plausible bug: detaching does not wait for deliveries in flight.      *)
detach_sink_at_once ==
    /\ phase = "exited"
    /\ sink' = FALSE
    /\ phase' = "detached"
    /\ UNCHANGED <<file, recorder, ended, rollup, recorder_lock, buffer,
                   supervisor_events, push, locals, faults, torn_write>>

detach_sink ==
    /\ phase = "exited"
    /\ Delivering = {}
    /\ sink' = FALSE
    /\ phase' = "detached"
    /\ UNCHANGED <<file, recorder, ended, rollup, recorder_lock, buffer,
                   supervisor_events, push, locals, faults, torn_write>>

(* Both buffers are emptied into one list.                                 *)
drain_buffered ==
    /\ phase = "detached"
    /\ drained' = buffer \o supervisor_events
    /\ buffer' = <<>> /\ supervisor_events' = <<>>
    /\ phase' = "sorting"
    /\ UNCHANGED <<file, recorder, ended, rollup, recorder_lock, sink, push,
                   unrecorded, network_events, metadata, faults, torn_write>>

(* A plausible bug: everything buffered is recorded again.                 *)
sort_as_unrecorded ==
    /\ phase = "sorting"
    /\ drained # <<>>
    /\ drained' = Tail(drained)
    /\ unrecorded' = Append(unrecorded, Head(drained).event)
    /\ network_events' = Append(network_events, Head(drained).event)
    /\ UNCHANGED <<file, recorder, ended, rollup, recorder_lock, sink, buffer,
                   supervisor_events, push, phase, metadata, faults, torn_write>>

(* The loop over them picks out what was not recorded live.                *)
sort_buffered ==
    /\ phase = "sorting"
    /\ drained # <<>>
    /\ drained' = Tail(drained)
    /\ unrecorded' = IF Head(drained).live_recorded THEN unrecorded
                     ELSE Append(unrecorded, Head(drained).event)
    /\ network_events' = Append(network_events, Head(drained).event)
    /\ UNCHANGED <<file, recorder, ended, rollup, recorder_lock, sink, buffer,
                   supervisor_events, push, phase, metadata, faults, torn_write>>

(* The recorder is locked for the rest of the log.                         *)
lock_recorder ==
    /\ phase = "sorting"
    /\ drained = <<>>
    /\ recorder_lock' = TRUE
    /\ phase' = "replaying"
    /\ UNCHANGED <<file, recorder, ended, rollup, sink, buffer, supervisor_events,
                   push, locals, faults, torn_write>>

replay_event ==
    /\ phase = "replaying"
    /\ unrecorded # <<>>
    /\ \/ /\ append_event(Head(unrecorded))
          /\ unrecorded' = Tail(unrecorded)
          /\ UNCHANGED <<phase, recorder_lock>>
       \/ /\ append_error(Head(unrecorded))
          /\ phase' = "failed"
          /\ recorder_lock' = FALSE
          /\ UNCHANGED unrecorded
    /\ UNCHANGED <<ended, rollup, sink, buffer, supervisor_events, push,
                   drained, network_events, metadata>>

(* A plausible bug: the recorder stays open after session_ended.           *)
record_session_ended_open ==
    /\ phase = "replaying"
    /\ unrecorded = <<>>
    /\ append_event(Ended)
    /\ phase' = "sealed"
    /\ recorder_lock' = FALSE
    /\ UNCHANGED <<ended, rollup, sink, buffer, supervisor_events, push, locals>>

record_session_ended ==
    /\ phase = "replaying"
    /\ unrecorded = <<>>
    /\ \/ append_event(Ended) /\ ended' = TRUE /\ phase' = "sealed"
       \/ append_error(Ended) /\ phase' = "failed" /\ UNCHANGED ended
    /\ recorder_lock' = FALSE
    /\ UNCHANGED <<rollup, sink, buffer, supervisor_events, push, locals>>

(* The counts, the summary and the rollup were read under the same lock as *)
(* session_ended; nothing changes them after it.                           *)
write_session_metadata ==
    /\ phase = "sealed"
    /\ \/ /\ metadata' =
                [audit_event_count |-> Len(leaf_hashes),
                 audit_integrity |-> IF AuditIntegrityEnabled THEN finalize
                                     ELSE NoIntegrity,
                 network_events |-> network_events,
                 rollup |-> rollup]
          /\ phase' = "saved"
          /\ UNCHANGED faults
       \/ /\ faults < MaxFaults
          /\ faults' = faults + 1
          /\ phase' = "failed"
          /\ UNCHANGED metadata
    /\ UNCHANGED <<file, recorder, ended, rollup, recorder_lock, sink, buffer,
                   supervisor_events, push, drained, unrecorded, network_events,
                   torn_write>>

-----------------------------------------------------------------------------
Supervisor ==
    \/ record_session_started \/ record_sandbox_runtime_event \/ attach_sink
    \/ detach_sink \/ drain_buffered \/ sort_buffered \/ lock_recorder \/ replay_event
    \/ record_session_ended \/ write_session_metadata

Next ==
    \/ Supervisor
    \/ child_exits
    \/ \E e \in SupervisorEvents : push_network_audit_event(e)
    \/ \E e \in DecisionEvents : record_capability_decision(e)
    \/ \E e \in CommandEvents : record_command_policy_event(e)
    \/ \E e \in ProxyEvents : begin_push(e) \/ deliver(e) \/ buffer_event(e)

Spec == Init /\ [][Next]_vars

(* Threads are scheduled; the child and the proxy's clients owe nothing.   *)
FairSpec ==
    /\ Spec
    /\ WF_vars(Supervisor)
    /\ \A e \in ProxyEvents : WF_vars(deliver(e) \/ buffer_event(e))

-----------------------------------------------------------------------------
(* Properties                                                              *)

(* Whatever order the threads append in and whichever writes fail, as long *)
(* as a failing write leaves no bytes behind, the log verifies against the *)
(* recorder's own summary at every moment (append_event, verify_audit_log).*)
RecorderMatchesLog ==
    ~torn_write => verify_audit_log(finalize) /\ Len(lines) = next_sequence

(* A session that saved its metadata has a log that `nono audit verify`    *)
(* accepts, count included, for ever: late appends cannot outgrow it.      *)
SavedSessionVerifies ==
    phase = "saved" /\ ~torn_write =>
        /\ verify_audit_log(metadata.audit_integrity)
        /\ metadata.audit_event_count = Len(lines)

Occurrences(e) == {i \in 1..Len(lines) : LogRecord(i).leaf_hash = e}

(* The saved network events and the log agree: every one of them is logged *)
(* exactly once, whether it was recorded live or replayed, and a logged    *)
(* one is missing from session.json only if the buffer was full.           *)
NetworkEventsRecordedOnce ==
    phase = "saved" /\ ~torn_write =>
        \A e \in NetworkEvents :
            LET saved == {i \in 1..Len(metadata.network_events) :
                              metadata.network_events[i] = e}
            IN  /\ saved # {} => Cardinality(Occurrences(e)) = 1
                /\ Occurrences(e) # {} => saved # {} \/ push[e] = "dropped"

(* session_started precedes everything, including live proxy events, and   *)
(* session_ended follows everything.                                       *)
LifecycleOrder ==
    ~torn_write =>
        /\ lines # <<>> => Occurrences(Started) = {1}
        /\ Occurrences(Ended) = IF ended THEN {Len(lines)} ELSE {}

Logged == {e \in CommandEvents : \E i \in 1..Len(lines) : LogRecord(i).leaf_hash = e}
LoggedAs(c, outcome) == Cardinality({e \in Logged : CommandOf[e] = c /\ OutcomeOf[e] = outcome})

(* The rollup counts exactly the command-policy events the log holds, also *)
(* when appends fail and when it stops naming new commands.                *)
RollupMatchesLog ==
    ~torn_write =>
        /\ rollup.event_count = Cardinality(Logged)
        /\ rollup.invocation_count = Cardinality({e \in Logged : OutcomeOf[e] # "Pending"})
        /\ \A c \in DOMAIN rollup.commands :
             ~rollup.truncated =>
               rollup.commands[c] = [allowed |-> LoggedAs(c, "Allowed"),
                                     denied |-> LoggedAs(c, "Denied"),
                                     other |-> LoggedAs(c, "Other")]
        /\ ~rollup.truncated => \A e \in Logged :
             OutcomeOf[e] # "Pending" => CommandOf[e] \in DOMAIN rollup.commands

(* Once session_ended is recorded nothing can change the file any more.    *)
SealedAfterEnd == [][ended => UNCHANGED file]_vars

(* When the child has exited, the finalizer ends: waiting for deliveries   *)
(* in flight cannot block it for ever, since they need only the recorder,  *)
(* which it does not hold meanwhile.                                       *)
FinalizationEnds == phase = "exited" ~> phase \in {"saved", "failed"}
=============================================================================
