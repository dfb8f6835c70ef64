------------------------- MODULE SessionAuditProofs -------------------------
(***************************************************************************)
(* Proofs about SessionAudit, for any events, threads, buffer size and     *)
(* number of failing writes: the recorder and its file agree, a saved      *)
(* session verifies for ever, a network event is logged once and saved     *)
(* once, and the command-policy rollup counts the log.  The first two need *)
(* nothing of the constants; the others use that the kinds of events are   *)
(* disjoint (AuditConstants).                                              *)
(***************************************************************************)
EXTENDS SessionAudit, FiniteSetTheorems, TLAPS

\* A sequence, of whatever elements.
IsSeq(q) == q \in Seq({q[i] : i \in 1 .. Len(q)})

Linked(i) ==
    /\ Parses(lines[i]) /\ LogRecord(i).sequence = i - 1
    /\ LogRecord(i).prev_chain = ChainBefore(i)
    /\ LogRecord(i).chain_hash = hash_chain(ChainBefore(i), LogRecord(i).leaf_hash)
    /\ LogRecord(i).leaf_hash = leaf_hashes[i]

\* The recorder's counters describe the file.
RecorderInStep ==
    /\ IsSeq(lines) /\ IsSeq(leaf_hashes) /\ ~unterminated
    /\ next_sequence = Len(lines) /\ Len(leaf_hashes) = Len(lines)
    /\ previous_chain = ChainBefore(Len(lines) + 1)
    /\ \A i \in 1 .. Len(lines) : Linked(i)

\* Metadata is saved after the seal, from what the recorder held then.
SealedBeforeSaved ==
    /\ phase \in {"sealed", "saved"} => ended
    /\ phase = "saved" => /\ metadata.audit_event_count = Len(leaf_hashes)
                          /\ metadata.audit_integrity \in {finalize, NoIntegrity}

AuditInv == (~torn_write => RecorderInStep) /\ SealedBeforeSaved

log == <<lines, unterminated, next_sequence, previous_chain, leaf_hashes, torn_write>>

-----------------------------------------------------------------------------
(* Appending *)

\* Appending to a sequence of whatever elements.
LEMMA AppendFacts ==
  ASSUME NEW q, NEW e, IsSeq(q)
  PROVE  /\ IsSeq(Append(q, e)) /\ Len(q) \in Nat /\ Len(Append(q, e)) = Len(q) + 1
         /\ Append(q, e)[Len(q) + 1] = e
         /\ \A i \in 1 .. Len(q) : Append(q, e)[i] = q[i]
  <1> DEFINE S == {q[i] : i \in 1 .. Len(q)} \cup {e}
             a == Append(q, e)
  <1>1. q \in Seq(S) /\ e \in S
    BY DEF IsSeq
  <1> HIDE DEF S
  <1>2. /\ a \in Seq(S) /\ Len(q) \in Nat /\ Len(a) = Len(q) + 1 /\ a[Len(q) + 1] = e
        /\ \A i \in 1 .. Len(q) : a[i] = q[i]
    BY <1>1
  <1> HIDE DEF a
  <1>3. a \in Seq({a[i] : i \in 1 .. Len(a)})
    BY <1>2
  <1> QED BY <1>2, <1>3 DEF IsSeq, a

\* An append that succeeds keeps file and recorder in step: the record goes on
\* a line of its own and continues the chain.
LEMMA AppendInStep ==
  ASSUME RecorderInStep, NEW e, append_event(e)
  PROVE  RecorderInStep'
  <1> DEFINE r == Record(e)
             n == Len(lines)
  <1>1. /\ lines' = Append(lines, <<r>>) /\ unterminated' = FALSE
        /\ next_sequence' = next_sequence + 1 /\ previous_chain' = Append(previous_chain, e)
        /\ leaf_hashes' = Append(leaf_hashes, e)
    BY DEF append_event, Written, Advance, hash_chain, RecorderInStep
  <1>2. /\ r.sequence = n /\ r.prev_chain = ChainBefore(n + 1) /\ r.leaf_hash = e
        /\ r.chain_hash = Append(ChainBefore(n + 1), e) /\ r.whole = TRUE
    BY DEF Record, hash_chain, RecorderInStep
  <1>3. previous_chain = ChainBefore(n + 1)
    BY DEF RecorderInStep
  <1> HIDE DEF r
  <1>4. /\ IsSeq(lines') /\ n \in Nat /\ Len(lines') = n + 1 /\ lines'[n + 1] = <<r>>
        /\ \A i \in 1 .. n : lines'[i] = lines[i]
    BY <1>1, AppendFacts DEF RecorderInStep
  <1>5. /\ IsSeq(leaf_hashes') /\ Len(leaf_hashes') = n + 1 /\ leaf_hashes'[n + 1] = e
        /\ \A i \in 1 .. n : leaf_hashes'[i] = leaf_hashes[i]
    BY <1>1, AppendFacts DEF RecorderInStep
  <1>6. ASSUME NEW i \in 1 .. n + 1 PROVE Linked(i)'
    <2>1. ChainBefore(i)' = ChainBefore(i)
      BY <1>4, <1>6 DEF ChainBefore, LogRecord
    <2>2. CASE i \in 1 .. n
      <3>1. Linked(i) /\ lines'[i] = lines[i] /\ leaf_hashes'[i] = leaf_hashes[i]
        BY <1>4, <1>5, <2>2 DEF RecorderInStep
      <3> QED BY <2>1, <3>1 DEF Linked, Parses, LogRecord, hash_chain
    <2>3. CASE i = n + 1
      <3>1. lines'[i] = <<r>> /\ leaf_hashes'[i] = e /\ Len(<<r>>) = 1 /\ <<r>>[1] = r
        BY <1>4, <1>5, <2>3
      <3>2. /\ r.sequence = i - 1 /\ r.prev_chain = ChainBefore(i)
            /\ r.chain_hash = Append(ChainBefore(i), e)
        BY <1>2, <1>4, <2>3
      <3> QED BY <1>2, <2>1, <3>1, <3>2 DEF Linked, Parses, LogRecord, hash_chain
    <2> QED BY <1>4, <2>2, <2>3
  <1>7. previous_chain' = ChainBefore(Len(lines) + 1)'
    <2>1. <<r>>[1] = r /\ Len(lines') + 1 # 1 /\ (Len(lines') + 1) - 1 = n + 1
      BY <1>4
    <2>2. ChainBefore(Len(lines) + 1)' = r.chain_hash
      BY <1>4, <2>1 DEF ChainBefore, LogRecord
    <2> QED BY <1>1, <1>2, <1>3, <2>2
  <1>8. next_sequence' = Len(lines')
    BY <1>1, <1>4 DEF RecorderInStep
  <1> QED BY <1>1, <1>4, <1>5, <1>6, <1>7, <1>8 DEF RecorderInStep

\* An append that fails leaves bytes and says so, or nothing.
LEMMA ErrorInStep ==
  ASSUME AuditInv, NEW e, append_error(e)
  PROVE  /\ ~torn_write' => RecorderInStep'
         /\ UNCHANGED leaf_hashes /\ UNCHANGED previous_chain
  <1>1. UNCHANGED <<next_sequence, previous_chain, leaf_hashes>>
    BY DEF append_error, append_fails, append_refused, recorder
  <1>2. torn_write' \/ UNCHANGED <<lines, unterminated, torn_write>>
    BY DEF append_error, append_fails, append_refused
  <1>3. CASE torn_write'
    BY <1>1, <1>3
  <1>4. CASE UNCHANGED <<lines, unterminated, torn_write>>
    BY <1>1, <1>4 DEF AuditInv, RecorderInStep, IsSeq, Linked, Parses, LogRecord,
                      ChainBefore,
                      hash_chain
  <1> QED BY <1>2, <1>3, <1>4

\* A step that does not touch the log keeps it in step.
LEMMA QuietInStep ==
  ASSUME AuditInv, UNCHANGED log
  PROVE  ~torn_write' => RecorderInStep'
  BY DEF AuditInv, log, RecorderInStep, IsSeq, Linked, Parses, LogRecord, ChainBefore,
         hash_chain

-----------------------------------------------------------------------------
(* The steps *)

\* What every step does to the log: an append before the seal, a failing
\* append, or nothing.
LogStep ==
    \/ ~ended /\ \E e : append_event(e)
    \/ \E e : append_error(e)
    \/ UNCHANGED log

\* Every step of every thread is one of these.
LEMMA StepsOfLog == ASSUME Next PROVE LogStep
  <1>1. CASE record_session_started \/ record_sandbox_runtime_event
    BY <1>1 DEF LogStep, record_session_started, record_sandbox_runtime_event,
                append_event
  <1>2. CASE attach_sink \/ child_exits \/ detach_sink \/ drain_buffered \/ sort_buffered
               \/ lock_recorder \/ write_session_metadata
    BY <1>2 DEF LogStep, attach_sink, child_exits, detach_sink, drain_buffered, sort_buffered,
                lock_recorder, write_session_metadata, log, file, recorder
  <1>3. CASE replay_event \/ record_session_ended
    BY <1>3 DEF LogStep, replay_event, record_session_ended, append_event
  <1>4. ASSUME NEW e, push_network_audit_event(e) \/ record_capability_decision(e)
                         \/ record_command_policy_event(e) \/ deliver(e)
        PROVE  LogStep
    BY <1>4 DEF LogStep, push_network_audit_event, record_capability_decision,
                record_command_policy_event, deliver, append_event
  <1>5. ASSUME NEW e, begin_push(e) \/ buffer_event(e) PROVE LogStep
    BY <1>5 DEF LogStep, begin_push, buffer_event, log, file, recorder
  <1> QED BY <1>1, <1>2, <1>3, <1>4, <1>5 DEF Next, Supervisor

\* What every step does to the end of the session.
LEMMA StepsOfPhase ==
  ASSUME Next
  PROVE  \/ UNCHANGED <<phase, ended, metadata>>
         \/ phase' \notin {"sealed", "saved"} /\ ended' = ended
         \/ phase' = "sealed" /\ ended'
         \/ /\ phase = "sealed" /\ phase' = "saved" /\ UNCHANGED ended /\ UNCHANGED log
            /\ metadata'.audit_event_count = Len(leaf_hashes)
            /\ metadata'.audit_integrity \in {finalize, NoIntegrity}
  <1>1. CASE record_session_started \/ record_sandbox_runtime_event \/ attach_sink
               \/ child_exits \/ detach_sink \/ drain_buffered \/ sort_buffered \/ lock_recorder
    BY <1>1 DEF record_session_started, record_sandbox_runtime_event, attach_sink,
                child_exits, detach_sink, drain_buffered, sort_buffered, lock_recorder
  <1>2. CASE replay_event
    BY <1>2 DEF replay_event
  <1>3. CASE record_session_ended
    BY <1>3 DEF record_session_ended
  <1>4. CASE write_session_metadata
    BY <1>4 DEF write_session_metadata, log, file, recorder
  <1>5. ASSUME NEW e, push_network_audit_event(e) \/ record_capability_decision(e)
                         \/ record_command_policy_event(e) \/ deliver(e) \/ begin_push(e)
                         \/ buffer_event(e)
        PROVE  UNCHANGED <<phase, ended, metadata>>
    BY <1>5 DEF push_network_audit_event, record_capability_decision,
                record_command_policy_event, deliver, begin_push, buffer_event, locals
  <1> QED BY <1>1, <1>2, <1>3, <1>4, <1>5 DEF Next, Supervisor

\* After the seal the recorder and the file stay as they are.
LEMMA SealHolds ==
  ASSUME Next, ended
  PROVE  UNCHANGED <<lines, unterminated, leaf_hashes, previous_chain>>
  <1>1. LogStep
    BY StepsOfLog
  <1> QED BY <1>1 DEF LogStep, append_error, append_fails, append_refused, log

\* Every step keeps the invariant.
LEMMA StepKeepsInv == ASSUME AuditInv, Next PROVE AuditInv'
  <1>1. ~torn_write' => RecorderInStep'
    <2>1. CASE \E e : append_event(e)
      <3>1. PICK e : append_event(e)
        BY <2>1
      <3>2. torn_write' = torn_write
        BY <3>1 DEF append_event
      <3> QED BY <3>1, <3>2, AppendInStep DEF AuditInv
    <2>2. CASE \E e : append_error(e)
      BY <2>2, ErrorInStep
    <2>3. CASE UNCHANGED log
      BY <2>3, QuietInStep
    <2> QED BY <2>1, <2>2, <2>3, StepsOfLog DEF LogStep
  <1>2. ended => UNCHANGED <<leaf_hashes, previous_chain>>
    BY SealHolds
  <1>3. CASE UNCHANGED <<phase, ended, metadata>>
    BY <1>1, <1>2, <1>3 DEF AuditInv, SealedBeforeSaved, finalize
  <1>4. CASE phase' \notin {"sealed", "saved"} /\ ended' = ended
    BY <1>1, <1>4 DEF AuditInv, SealedBeforeSaved
  <1>5. CASE phase' = "sealed" /\ ended'
    BY <1>1, <1>5 DEF AuditInv, SealedBeforeSaved
  <1>6. CASE /\ phase = "sealed" /\ phase' = "saved" /\ UNCHANGED ended /\ UNCHANGED log
             /\ metadata'.audit_event_count = Len(leaf_hashes)
             /\ metadata'.audit_integrity \in {finalize, NoIntegrity}
    BY <1>1, <1>6 DEF AuditInv, SealedBeforeSaved, finalize, log
  <1> QED BY <1>3, <1>4, <1>5, <1>6, StepsOfPhase

\* The invariant holds of an empty log.
LEMMA InitHolds == ASSUME Init PROVE AuditInv
  <1>1. /\ lines = <<>> /\ leaf_hashes = <<>> /\ next_sequence = 0 /\ previous_chain = <<>>
        /\ unterminated = FALSE /\ phase = "starting"
    BY DEF Init
  <1>2. Len(lines) = 0 /\ Len(leaf_hashes) = 0
    BY <1>1
  <1>3. IsSeq(lines) /\ IsSeq(leaf_hashes)
    BY <1>1 DEF IsSeq
  <1>4. previous_chain = ChainBefore(Len(lines) + 1)
    BY <1>1, <1>2 DEF ChainBefore
  <1>5. RecorderInStep
    BY <1>1, <1>2, <1>3, <1>4 DEF RecorderInStep
  <1> QED BY <1>1, <1>5 DEF AuditInv, SealedBeforeSaved

-----------------------------------------------------------------------------
(* The theorems *)

\* The recorder and the file stay in step until some write is torn, and what
\* is saved is what the recorder held when it was sealed.
THEOREM AuditInvariant == Spec => []AuditInv
  <1>1. AuditInv /\ UNCHANGED vars => AuditInv'
    <2> SUFFICES ASSUME AuditInv, UNCHANGED vars PROVE AuditInv'
      OBVIOUS
    <2>1. UNCHANGED log /\ UNCHANGED <<phase, ended, metadata>>
      BY DEF vars, log
    <2>2. ~torn_write' => RecorderInStep'
      BY <2>1, QuietInStep
    <2> QED BY <2>1, <2>2 DEF AuditInv, SealedBeforeSaved, finalize, log
  <1>2. AuditInv /\ [Next]_vars => AuditInv'
    BY <1>1, StepKeepsInv
  <1> QED BY <1>2, InitHolds, PTL DEF Spec

\* A recorder in step with its file has a summary the log verifies against.
LEMMA InStepVerifies ==
  ASSUME RecorderInStep
  PROVE  /\ verify_audit_log(finalize) /\ verify_audit_log(NoIntegrity)
         /\ Len(lines) = next_sequence /\ Len(leaf_hashes) = Len(lines)
  <1>1. /\ lines \in Seq({lines[i] : i \in 1 .. Len(lines)}) /\ Len(lines) \in Nat
        /\ leaf_hashes \in Seq({leaf_hashes[i] : i \in 1 .. Len(leaf_hashes)})
        /\ Len(leaf_hashes) = Len(lines) /\ Len(lines) = next_sequence
        /\ previous_chain = ChainBefore(Len(lines) + 1)
        /\ \A i \in 1 .. Len(lines) : Linked(i)
    BY DEF RecorderInStep, IsSeq
  <1>2. RecordsVerify
    BY <1>1 DEF RecordsVerify, Linked
  <1>3. leaf_hashes = LoggedLeaves
    <2>1. DOMAIN leaf_hashes = 1 .. Len(lines)
      BY <1>1
    <2>2. leaf_hashes = [i \in 1 .. Len(lines) |-> leaf_hashes[i]]
      BY <1>1, <2>1
    <2> QED BY <1>1, <2>2 DEF LoggedLeaves, Linked
  <1>4. CASE previous_chain = <<>>
    BY <1>1, <1>2, <1>4 DEF verify_audit_log, finalize
  <1>5. CASE previous_chain # <<>>
    <2>1. Len(lines) # 0
      BY <1>1, <1>5 DEF ChainBefore
    <2>2. lines # <<>> /\ (Len(lines) + 1) - 1 = Len(lines) /\ Len(lines) + 1 # 1
      BY <1>1, <2>1
    <2>3. previous_chain = LogRecord(Len(lines)).chain_hash
      BY <1>1, <2>2 DEF ChainBefore
    <2>4. finalize.chain_head = previous_chain /\ finalize.merkle_root = leaf_hashes
      BY <1>5 DEF finalize
    <2> QED BY <1>1, <1>2, <1>3, <2>2, <2>3, <2>4 DEF verify_audit_log
  <1> QED BY <1>4, <1>5

\* As long as no failing write leaves bytes behind, the log verifies against
\* the recorder's summary after every step of every thread.
THEOREM RecorderAlwaysMatches == Spec => []RecorderMatchesLog
  <1>1. AuditInv => RecorderMatchesLog
    BY InStepVerifies DEF AuditInv, RecorderMatchesLog
  <1> QED BY <1>1, AuditInvariant, PTL

\* A session that saved its metadata verifies for ever: no thread that comes
\* late can add to its log.
THEOREM SavedSessionsVerify == Spec => []SavedSessionVerifies
  <1>1. AuditInv => SavedSessionVerifies
    <2> SUFFICES ASSUME AuditInv, phase = "saved", ~torn_write
                 PROVE  /\ verify_audit_log(metadata.audit_integrity)
                        /\ metadata.audit_event_count = Len(lines)
      BY DEF SavedSessionVerifies
    <2>1. /\ verify_audit_log(finalize) /\ verify_audit_log(NoIntegrity)
          /\ Len(leaf_hashes) = Len(lines)
      BY InStepVerifies DEF AuditInv
    <2>2. /\ metadata.audit_event_count = Len(leaf_hashes)
          /\ metadata.audit_integrity \in {finalize, NoIntegrity}
      BY DEF AuditInv, SealedBeforeSaved
    <2> QED BY <2>1, <2>2
  <1> QED BY <1>1, AuditInvariant, PTL

\* Once session_ended is recorded the file does not change any more.
THEOREM FileIsSealed == Spec => SealedAfterEnd
  <1>1. [Next]_vars => [ended => UNCHANGED file]_vars
    <2> SUFFICES ASSUME Next, ended PROVE UNCHANGED file
      OBVIOUS
    <2> QED BY SealHolds DEF file
  <1> QED BY <1>1, PTL DEF Spec, SealedAfterEnd

-----------------------------------------------------------------------------
(* Where a network event is, between the push and session.json *)

Elems(q) == {q[i] : i \in 1 .. Len(q)}
Once(q) == \A i, j \in 1 .. Len(q) : q[i] = q[j] => i = j
Events(q) == {q[i].event : i \in 1 .. Len(q)}
EventOnce(q) == \A i, j \in 1 .. Len(q) : q[i].event = q[j].event => i = j

InLog(e) == e \in Elems(leaf_hashes)

NetTyped ==
    /\ leaf_hashes \in Seq(Payloads)
    /\ buffer \in Seq(BufferedAuditEvent) /\ supervisor_events \in Seq(BufferedAuditEvent)
    /\ drained \in Seq(BufferedAuditEvent)
    /\ unrecorded \in Seq(NetworkEvents) /\ network_events \in Seq(NetworkEvents)
    /\ push \in [NetworkEvents \cup DecisionEvents \cup CommandEvents -> Pushes]
    /\ phase \in Phases

\* A network event is logged at most once, after its push has got that far, and
\* then it is on its way to session.json unless the buffer was full.
LoggedOnce ==
    \A i, j \in 1 .. Len(leaf_hashes) :
        leaf_hashes[i] = leaf_hashes[j] /\ leaf_hashes[i] \in NetworkEvents => i = j
LoggedPlaced ==
    \A e \in NetworkEvents : InLog(e) =>
        \/ push[e] \in {"recorded", "dropped"}
        \/ e \in Events(buffer) \cup Events(supervisor_events) \cup Events(drained)
                   \cup Elems(network_events)
PushedOnly ==
    \A e \in NetworkEvents : /\ InLog(e) => push[e] \in {"recorded", "buffered", "dropped"}
                             /\ push[e] = "recorded" => InLog(e)

\* A buffered event says truly whether it is in the log.
Held(q) ==
    /\ EventOnce(q)
    /\ \A i \in 1 .. Len(q) : /\ push[q[i].event] = "buffered"
                              /\ q[i].live_recorded <=> InLog(q[i].event)
BuffersTrue ==
    /\ Held(buffer) /\ Events(buffer) \subseteq ProxyEvents
    /\ Held(supervisor_events) /\ Events(supervisor_events) \subseteq SupervisorEvents
    /\ Held(drained)

\* What has been sorted is in the log or about to be.
Sorted ==
    /\ Once(network_events) /\ \A e \in Elems(network_events) : push[e] = "buffered"
    /\ Once(unrecorded) /\ Elems(unrecorded) \subseteq Elems(network_events)
    /\ \A e \in Elems(network_events) : InLog(e) <=> e \notin Elems(unrecorded)

\* No event is in two places.
Apart ==
    /\ Events(buffer) \cap (Events(drained) \cup Elems(network_events)) = {}
    /\ Events(supervisor_events) \cap (Events(drained) \cup Elems(network_events)) = {}
    /\ Events(drained) \cap Elems(network_events) = {}

\* What the phase of the finalizer tells: no live delivery after the sink is
\* detached, nothing live in the buffer after the drain, nothing left to sort or
\* to replay after its loop.
NetPhase ==
    /\ \A e \in SupervisorEvents : push[e] \in {"idle", "buffered"}
    /\ phase \in {"detached", "sorting", "replaying", "sealed", "saved"} =>
         ~sink /\ \A e \in ProxyEvents : push[e] \notin {"delivering", "recorded"}
    /\ phase \in {"sorting", "replaying", "sealed", "saved"} =>
         supervisor_events = <<>> /\ \A i \in 1 .. Len(buffer) : ~buffer[i].live_recorded
    /\ phase # "sorting" => drained = <<>>
    /\ phase \in {"sealed", "saved"} => unrecorded = <<>>
    /\ phase = "saved" => metadata.network_events = network_events

NetInv == /\ NetTyped /\ LoggedOnce /\ LoggedPlaced /\ PushedOnly /\ BuffersTrue /\ Sorted
          /\ Apart /\ NetPhase

\* Appending adds an element, once if it is new.
LEMMA AppendElems ==
  ASSUME NEW S, NEW q \in Seq(S), NEW x \in S
  PROVE  /\ Append(q, x) \in Seq(S) /\ Elems(Append(q, x)) = Elems(q) \cup {x}
         /\ Once(q) /\ x \notin Elems(q) => Once(Append(q, x))
  <1> DEFINE a == Append(q, x)
             n == Len(q)
  <1>1. /\ n \in Nat /\ a \in Seq(S) /\ Len(a) = n + 1 /\ a[n + 1] = x
        /\ \A i \in 1 .. n : a[i] = q[i]
    OBVIOUS
  <1> HIDE DEF a, n
  <1>2. \A i \in 1 .. n + 1 : i \in 1 .. n \/ i = n + 1
    BY <1>1
  <1>3. Elems(a) = Elems(q) \cup {x}
    BY <1>1, <1>2 DEF Elems, n
  <1>4. ASSUME Once(q), x \notin Elems(q) PROVE Once(a)
    <2> SUFFICES ASSUME NEW i \in 1 .. n + 1, NEW j \in 1 .. n + 1, a[i] = a[j] PROVE i = j
      BY <1>1 DEF Once
    <2>1. \A k \in 1 .. n : a[k] # x
      BY <1>1, <1>4 DEF Elems, n
    <2> QED BY <1>1, <1>2, <1>4, <2>1 DEF Once, n
  <1> QED BY <1>1, <1>3, <1>4 DEF a

\* Buffering adds an event, once if it is new.
LEMMA AppendEvents ==
  ASSUME NEW q \in Seq(BufferedAuditEvent), NEW b \in BufferedAuditEvent
  PROVE  /\ Append(q, b) \in Seq(BufferedAuditEvent)
         /\ Len(Append(q, b)) = Len(q) + 1 /\ Len(q) \in Nat /\ Append(q, b)[Len(q) + 1] = b
         /\ \A i \in 1 .. Len(q) : Append(q, b)[i] = q[i]
         /\ Events(Append(q, b)) = Events(q) \cup {b.event}
         /\ EventOnce(q) /\ b.event \notin Events(q) => EventOnce(Append(q, b))
  <1> DEFINE a == Append(q, b)
             n == Len(q)
  <1>1. /\ n \in Nat /\ a \in Seq(BufferedAuditEvent) /\ Len(a) = n + 1 /\ a[n + 1] = b
        /\ \A i \in 1 .. n : a[i] = q[i]
    OBVIOUS
  <1> HIDE DEF a, n
  <1>2. \A i \in 1 .. n + 1 : i \in 1 .. n \/ i = n + 1
    BY <1>1
  <1>3. Events(a) = Events(q) \cup {b.event}
    BY <1>1, <1>2 DEF Events, n
  <1>4. ASSUME EventOnce(q), b.event \notin Events(q) PROVE EventOnce(a)
    <2> SUFFICES ASSUME NEW i \in 1 .. n + 1, NEW j \in 1 .. n + 1, a[i].event = a[j].event
                 PROVE  i = j
      BY <1>1 DEF EventOnce
    <2>1. \A k \in 1 .. n : a[k].event # b.event
      BY <1>1, <1>4 DEF Events, n
    <2> QED BY <1>1, <1>2, <1>4, <2>1 DEF EventOnce, n
  <1> QED BY <1>1, <1>3, <1>4 DEF a, n

\* The head of a queue without repetitions is not in its tail.
LEMMA TailElems ==
  ASSUME NEW S, NEW q \in Seq(S), q # <<>>, Once(q)
  PROVE  /\ Head(q) \in S /\ Tail(q) \in Seq(S) /\ Once(Tail(q))
         /\ Elems(q) = Elems(Tail(q)) \cup {Head(q)} /\ Head(q) \notin Elems(Tail(q))
  <1> DEFINE t == Tail(q)
             n == Len(q)
  <1>1. /\ n \in Nat \ {0} /\ t \in Seq(S) /\ Len(t) = n - 1 /\ Head(q) = q[1] /\ q[1] \in S
        /\ \A i \in 1 .. n - 1 : t[i] = q[i + 1]
    OBVIOUS
  <1> HIDE DEF t, n
  <1>2. \A i \in 1 .. n - 1 : i + 1 \in 1 .. n /\ i + 1 # 1
    BY <1>1
  <1>3. \A i \in 1 .. n : i = 1 \/ (i - 1 \in 1 .. n - 1 /\ (i - 1) + 1 = i)
    BY <1>1
  <1>4. Elems(q) = Elems(t) \cup {q[1]}
    <2>1. \A i \in 1 .. n - 1 : t[i] \in Elems(q)
      BY <1>1, <1>2 DEF Elems, n
    <2>2. ASSUME NEW i \in 1 .. n PROVE q[i] \in Elems(t) \cup {q[1]}
      <3>1. CASE i # 1
        <4> DEFINE k == i - 1
        <4>1. k \in 1 .. Len(t) /\ t[k] = q[i]
          BY <1>1, <1>3, <3>1
        <4> HIDE DEF k
        <4> QED BY <4>1 DEF Elems
      <3> QED BY <3>1
    <2>3. q[1] \in Elems(q)
      BY <1>1 DEF Elems, n
    <2>4. \A x \in Elems(q) : \E i \in 1 .. n : x = q[i]
      BY DEF Elems, n
    <2>5. \A x \in Elems(t) : \E i \in 1 .. n - 1 : x = t[i]
      BY <1>1 DEF Elems
    <2> QED BY <2>1, <2>2, <2>3, <2>4, <2>5
  <1>5. q[1] \notin Elems(t)
    BY <1>1, <1>2 DEF Elems, Once, n
  <1>6. Once(t)
    <2> SUFFICES ASSUME NEW i \in 1 .. n - 1, NEW j \in 1 .. n - 1, t[i] = t[j] PROVE i = j
      BY <1>1 DEF Once
    <2>1. i + 1 = j + 1
      BY <1>1, <1>2 DEF Once, n
    <2> QED BY <1>1, <2>1
  <1> QED BY <1>1, <1>4, <1>5, <1>6 DEF t

\* The same of buffered events.
LEMMA TailEvents ==
  ASSUME NEW q \in Seq(BufferedAuditEvent), q # <<>>, EventOnce(q)
  PROVE  /\ Head(q) \in BufferedAuditEvent /\ Tail(q) \in Seq(BufferedAuditEvent)
         /\ EventOnce(Tail(q)) /\ Events(q) = Events(Tail(q)) \cup {Head(q).event}
         /\ Head(q).event \notin Events(Tail(q))
         /\ 1 \in 1 .. Len(q) /\ Head(q) = q[1]
         /\ \A i \in 1 .. Len(Tail(q)) : i + 1 \in 1 .. Len(q) /\ Tail(q)[i] = q[i + 1]
  <1> DEFINE t == Tail(q)
             n == Len(q)
  <1>1. /\ n \in Nat \ {0} /\ t \in Seq(BufferedAuditEvent) /\ Len(t) = n - 1
        /\ Head(q) = q[1] /\ q[1] \in BufferedAuditEvent
        /\ \A i \in 1 .. n - 1 : t[i] = q[i + 1]
    OBVIOUS
  <1> HIDE DEF t, n
  <1>2. \A i \in 1 .. n - 1 : i + 1 \in 1 .. n /\ i + 1 # 1
    BY <1>1
  <1>3. \A i \in 1 .. n : i = 1 \/ (i - 1 \in 1 .. n - 1 /\ (i - 1) + 1 = i)
    BY <1>1
  <1>4. Events(q) = Events(t) \cup {q[1].event}
    <2>1. \A i \in 1 .. n - 1 : t[i].event \in Events(q)
      BY <1>1, <1>2 DEF Events, n
    <2>2. \A i \in 1 .. n : q[i] = q[1] \/ q[i] = t[i - 1]
      BY <1>1, <1>3
    <2>3. 1 \in 1 .. n
      BY <1>1
    <2> QED BY <1>1, <1>3, <2>1, <2>2, <2>3 DEF Events, n
  <1>5. q[1].event \notin Events(t)
    BY <1>1, <1>2 DEF Events, EventOnce, n
  <1>6. EventOnce(t)
    <2> SUFFICES ASSUME NEW i \in 1 .. n - 1, NEW j \in 1 .. n - 1, t[i].event = t[j].event
                 PROVE  i = j
      BY <1>1 DEF EventOnce
    <2>1. i + 1 = j + 1
      BY <1>1, <1>2 DEF EventOnce, n
    <2> QED BY <1>1, <2>1
  <1>7. 1 \in 1 .. n
    BY <1>1
  <1> QED BY <1>1, <1>2, <1>4, <1>5, <1>6, <1>7 DEF t, n

\* Two buffers without a common event, one after the other.
LEMMA ConcatEvents ==
  ASSUME NEW p \in Seq(BufferedAuditEvent), NEW q \in Seq(BufferedAuditEvent)
  PROVE  /\ p \o q \in Seq(BufferedAuditEvent) /\ Events(p \o q) = Events(p) \cup Events(q)
         /\ \A i \in 1 .. Len(p \o q) : (p \o q)[i] \in Elems(p) \cup Elems(q)
         /\ EventOnce(p) /\ EventOnce(q) /\ Events(p) \cap Events(q) = {} => EventOnce(p \o q)
  <1> DEFINE c == p \o q
             m == Len(p)
             n == Len(q)
  <1>1. /\ m \in Nat /\ n \in Nat /\ c \in Seq(BufferedAuditEvent) /\ Len(c) = m + n
        /\ \A i \in 1 .. m : c[i] = p[i]
        /\ \A i \in 1 .. m + n : i \notin 1 .. m => c[i] = q[i - m]
    OBVIOUS
  <1> HIDE DEF c, m, n
  <1>2. \A i \in 1 .. m + n : i \in 1 .. m \/ i - m \in 1 .. n
    BY <1>1
  <1>3. \A i \in 1 .. n : m + i \in 1 .. m + n /\ m + i \notin 1 .. m /\ (m + i) - m = i
    BY <1>1
  <1>4. \A i \in 1 .. m : i \in 1 .. m + n
    BY <1>1
  <1>5. \A i \in 1 .. m + n : c[i] \in Elems(p) \cup Elems(q)
    BY <1>1, <1>2 DEF Elems, m, n
  <1>6. Events(c) = Events(p) \cup Events(q)
    <2>1. \A i \in 1 .. m + n : c[i].event \in Events(p) \cup Events(q)
      BY <1>1, <1>2 DEF Events, m, n
    <2>2. \A i \in 1 .. m : p[i].event \in Events(c)
      BY <1>1, <1>4 DEF Events
    <2>3. \A i \in 1 .. n : q[i].event \in Events(c)
      <3>1. \A i \in 1 .. n : c[m + i] = q[i] /\ m + i \in 1 .. Len(c)
        BY <1>1, <1>3
      <3> QED BY <3>1 DEF Events
    <2> QED BY <1>1, <2>1, <2>2, <2>3 DEF Events, m, n
  <1>7. ASSUME EventOnce(p), EventOnce(q), Events(p) \cap Events(q) = {} PROVE EventOnce(c)
    <2> SUFFICES ASSUME NEW i \in 1 .. m + n, NEW j \in 1 .. m + n, c[i].event = c[j].event
                 PROVE  i = j
      BY <1>1 DEF EventOnce
    <2>1. \A k \in 1 .. m + n : /\ k \in 1 .. m => c[k].event \in Events(p)
                                /\ k \notin 1 .. m => c[k].event \in Events(q)
      BY <1>1, <1>2 DEF Events, m, n
    <2>2. CASE i \in 1 .. m /\ j \in 1 .. m
      BY <1>1, <1>7, <2>2 DEF EventOnce, m
    <2>3. CASE i \notin 1 .. m /\ j \notin 1 .. m
      <3>0. /\ c[i] = q[i - m] /\ i - m \in 1 .. n
            /\ c[j] = q[j - m] /\ j - m \in 1 .. n
        BY <1>1, <1>2, <2>3
      <3>1. i - m = j - m
        BY <1>7, <3>0 DEF EventOnce, n
      <3> QED BY <1>1, <3>1
    <2> QED BY <1>7, <2>1, <2>2, <2>3
  <1> QED BY <1>1, <1>5, <1>6, <1>7 DEF c

-----------------------------------------------------------------------------
(* The steps, for network events *)

places == <<buffer, supervisor_events, drained, unrecorded, network_events>>

\* A new leaf, of a network event that was not logged or of another event.
LEMMA LogGrows ==
  ASSUME NetTyped, LoggedOnce, NEW x \in Payloads, leaf_hashes' = Append(leaf_hashes, x),
         x \in NetworkEvents => ~InLog(x)
  PROVE  /\ leaf_hashes' \in Seq(Payloads) /\ LoggedOnce'
         /\ \A e : InLog(e)' <=> InLog(e) \/ e = x
  <1> DEFINE n == Len(leaf_hashes)
  <1>1. /\ leaf_hashes' \in Seq(Payloads) /\ \A e : InLog(e)' <=> InLog(e) \/ e = x
    BY AppendElems DEF NetTyped, InLog
  <1>2. /\ n \in Nat /\ Len(leaf_hashes') = n + 1 /\ leaf_hashes'[n + 1] = x
        /\ \A i \in 1 .. n : leaf_hashes'[i] = leaf_hashes[i]
    BY DEF NetTyped
  <1>3. LoggedOnce'
    <2> SUFFICES ASSUME NEW i \in 1 .. n + 1, NEW j \in 1 .. n + 1,
                        leaf_hashes'[i] = leaf_hashes'[j], leaf_hashes'[i] \in NetworkEvents
                 PROVE  i = j
      BY <1>2 DEF LoggedOnce
    <2>1. \A k \in 1 .. n + 1 : k \in 1 .. n \/ k = n + 1
      BY <1>2
    <2>2. x \in NetworkEvents => \A k \in 1 .. n : leaf_hashes'[k] # x
      BY <1>2 DEF InLog, Elems
    <2> QED BY <1>2, <2>1, <2>2 DEF LoggedOnce
  <1> QED BY <1>1, <1>3

\* A failing append leaves the recorder as it is.
LEMMA ErrorKeepsLeaves ==
  ASSUME NEW e, append_error(e) PROVE UNCHANGED leaf_hashes
  BY DEF append_error, append_fails, append_refused, recorder

\* What is buffered, drained or sorted is a network event.
LEMMA PlacesHoldEvents ==
  ASSUME NetTyped
  PROVE  /\ Events(buffer) \subseteq NetworkEvents
         /\ Events(supervisor_events) \subseteq NetworkEvents
         /\ Events(drained) \subseteq NetworkEvents
         /\ Elems(network_events) \subseteq NetworkEvents
         /\ Elems(unrecorded) \subseteq NetworkEvents
  <1>1. ASSUME NEW q \in Seq(BufferedAuditEvent) PROVE Events(q) \subseteq NetworkEvents
    <2>1. \A i \in 1 .. Len(q) : q[i] \in BufferedAuditEvent
      BY <1>1
    <2>2. \A b \in BufferedAuditEvent : b.event \in NetworkEvents
      BY DEF BufferedAuditEvent
    <2> QED BY <2>1, <2>2 DEF Events
  <1>2. ASSUME NEW q \in Seq(NetworkEvents) PROVE Elems(q) \subseteq NetworkEvents
    BY DEF Elems
  <1> QED BY <1>1, <1>2 DEF NetTyped

\* What is recorded of network events is as it was.
LEMMA NetFramed ==
  ASSUME NetInv, UNCHANGED places, \A e \in NetworkEvents : InLog(e)' <=> InLog(e),
         \A e \in NetworkEvents : push'[e] = push[e]
  PROVE  LoggedPlaced' /\ PushedOnly' /\ BuffersTrue' /\ Sorted' /\ Apart'
  <1>0. NetTyped /\ LoggedPlaced /\ PushedOnly /\ BuffersTrue /\ Sorted /\ Apart
    BY DEF NetInv
  <1>1. UNCHANGED <<Events(buffer), Events(supervisor_events), Events(drained),
                    Elems(network_events), Elems(unrecorded)>>
    BY DEF places, Events, Elems
  <1>2. LoggedPlaced' /\ PushedOnly'
    BY <1>0, <1>1 DEF LoggedPlaced, PushedOnly
  <1>3. ASSUME NEW q, Events(q) \subseteq NetworkEvents, Held(q) PROVE Held(q)'
    BY <1>3 DEF Held, Events
  <1>4. BuffersTrue'
    BY <1>0, <1>1, <1>3, PlacesHoldEvents DEF BuffersTrue, places
  <1>5. Sorted'
    BY <1>0, <1>1, PlacesHoldEvents DEF Sorted, Once, places
  <1>6. Apart'
    BY <1>0, <1>1 DEF Apart
  <1> QED BY <1>2, <1>4, <1>5, <1>6

\* The steps that concern no network event.
Neutral ==
    \/ record_session_started \/ record_sandbox_runtime_event \/ attach_sink
    \/ child_exits \/ detach_sink \/ lock_recorder \/ record_session_ended
    \/ write_session_metadata
    \/ \E e \in DecisionEvents : record_capability_decision(e)
    \/ \E e \in CommandEvents : record_command_policy_event(e)

\* They add at most a leaf of another kind and keep every place.
LEMMA NeutralFrame ==
  ASSUME AuditConstants, NetInv, Neutral
  PROVE  /\ UNCHANGED places
         /\ \/ UNCHANGED leaf_hashes
            \/ \E x \in Payloads \ NetworkEvents : leaf_hashes' = Append(leaf_hashes, x)
         /\ push' \in [NetworkEvents \cup DecisionEvents \cup CommandEvents -> Pushes]
         /\ \A e \in NetworkEvents : push'[e] = push[e]
  <1> DEFINE Leaf == \/ UNCHANGED leaf_hashes
                     \/ \E x \in Payloads \ NetworkEvents : leaf_hashes' = Append(leaf_hashes, x)
  <1>0. push \in [NetworkEvents \cup DecisionEvents \cup CommandEvents -> Pushes]
    BY DEF NetInv, NetTyped
  <1>1. ASSUME NEW x \in Payloads \ NetworkEvents, append_event(x) \/ append_error(x) PROVE Leaf
    BY <1>1, ErrorKeepsLeaves DEF append_event, Advance
  <1>2. {Started, SandboxRuntime, Ended} \cup DecisionEvents \cup CommandEvents
          \subseteq Payloads \ NetworkEvents
    BY DEF AuditConstants, Payloads
  <1> HIDE DEF Leaf
  <1>3. CASE record_session_started \/ record_sandbox_runtime_event \/ record_session_ended
    <2>1. Leaf
      BY <1>1, <1>2, <1>3 DEF record_session_started, record_sandbox_runtime_event,
                              record_session_ended
    <2> QED BY <1>0, <1>3, <2>1 DEF record_session_started, record_sandbox_runtime_event,
                  record_session_ended, places, locals, Leaf
  <1>4. CASE attach_sink \/ child_exits \/ detach_sink \/ lock_recorder \/ write_session_metadata
    BY <1>0, <1>4 DEF attach_sink, child_exits, detach_sink, lock_recorder,
                write_session_metadata, places, locals, recorder
  <1>5. ASSUME NEW e \in DecisionEvents \cup CommandEvents,
               record_capability_decision(e) \/ record_command_policy_event(e)
        PROVE  /\ UNCHANGED places /\ Leaf
               /\ push' \in [NetworkEvents \cup DecisionEvents \cup CommandEvents -> Pushes]
               /\ \A f \in NetworkEvents : push'[f] = push[f]
    <2>1. Leaf
      BY <1>1, <1>2, <1>5 DEF record_capability_decision, record_command_policy_event
    <2>2. UNCHANGED places
      BY <1>5 DEF record_capability_decision, record_command_policy_event, places, locals
    <2>3. \E r \in {"recorded", "rejected"} : push' = [push EXCEPT ![e] = r]
      BY <1>5 DEF record_capability_decision, record_command_policy_event
    <2>4. e \notin NetworkEvents
      BY <1>2
    <2>5. "recorded" \in Pushes /\ "rejected" \in Pushes
      BY DEF Pushes
    <2> QED BY <1>0, <2>1, <2>2, <2>3, <2>4, <2>5
  <1> QED BY <1>3, <1>4, <1>5 DEF Neutral, Leaf

\* Nor do they disturb what the phase says of them.
LEMMA NeutralPhase ==
  ASSUME AuditConstants, NetInv, Neutral
  PROVE  NetPhase' /\ phase' \in Phases
  <1>0. NetPhase /\ phase \in Phases
    BY DEF NetInv, NetTyped
  <1>1. UNCHANGED places /\ \A e \in NetworkEvents : push'[e] = push[e]
    BY NeutralFrame
  <1>2. UNCHANGED <<buffer, supervisor_events, drained, unrecorded, network_events>>
    BY <1>1 DEF places
  <1>3. ProxyEvents \subseteq NetworkEvents /\ SupervisorEvents \subseteq NetworkEvents
    BY DEF NetworkEvents
  <1>4. CASE record_session_started \/ record_sandbox_runtime_event
    BY <1>0, <1>1, <1>2, <1>3, <1>4
       DEF record_session_started, record_sandbox_runtime_event, NetPhase, Phases
  <1>5. CASE attach_sink \/ child_exits
    BY <1>0, <1>1, <1>2, <1>3, <1>5 DEF attach_sink, child_exits, NetPhase, Phases
  <1>6. CASE detach_sink
    <2>1. \A e \in ProxyEvents : push'[e] \notin {"delivering", "recorded"}
      BY <1>1, <1>3, <1>6 DEF detach_sink, Delivering
    <2> QED BY <1>0, <1>1, <1>2, <1>3, <1>6, <2>1 DEF detach_sink, NetPhase, Phases
  <1>7. CASE lock_recorder
    BY <1>0, <1>1, <1>2, <1>3, <1>7 DEF lock_recorder, NetPhase, Phases
  <1>8. CASE record_session_ended
    BY <1>0, <1>1, <1>2, <1>3, <1>8 DEF record_session_ended, NetPhase, Phases
  <1>9. CASE write_session_metadata
    BY <1>0, <1>1, <1>2, <1>3, <1>9 DEF write_session_metadata, NetPhase, Phases
  <1>10. ASSUME NEW e, record_capability_decision(e) \/ record_command_policy_event(e)
         PROVE  UNCHANGED <<phase, sink, metadata>>
    BY <1>10 DEF record_capability_decision, record_command_policy_event, locals
  <1>11. CASE UNCHANGED <<phase, sink, metadata>>
    BY <1>0, <1>1, <1>2, <1>3, <1>11 DEF NetPhase
  <1> QED BY <1>4, <1>5, <1>6, <1>7, <1>8, <1>9, <1>10, <1>11 DEF Neutral

\* So they keep the invariant.
LEMMA NeutralKeeps == ASSUME AuditConstants, NetInv, Neutral PROVE NetInv'
  <1>1. UNCHANGED places /\ \A e \in NetworkEvents : push'[e] = push[e]
    BY NeutralFrame
  <1>2. /\ leaf_hashes' \in Seq(Payloads) /\ LoggedOnce'
        /\ \A e \in NetworkEvents : InLog(e)' <=> InLog(e)
    <2>1. CASE UNCHANGED leaf_hashes
      BY <2>1 DEF NetInv, NetTyped, LoggedOnce, InLog, Elems
    <2>2. ASSUME NEW x \in Payloads \ NetworkEvents, leaf_hashes' = Append(leaf_hashes, x)
          PROVE  /\ leaf_hashes' \in Seq(Payloads) /\ LoggedOnce'
                 /\ \A e \in NetworkEvents : InLog(e)' <=> InLog(e)
      BY <2>2, LogGrows DEF NetInv
    <2> QED BY <2>1, <2>2, NeutralFrame
  <1>3. LoggedPlaced' /\ PushedOnly' /\ BuffersTrue' /\ Sorted' /\ Apart'
    BY <1>1, <1>2, NetFramed
  <1>4. NetTyped'
    BY <1>1, <1>2, NeutralFrame, NeutralPhase DEF NetInv, NetTyped, places
  <1> QED BY <1>2, <1>3, <1>4, NeutralPhase DEF NetInv

\* A proxy task looks for the sink: nothing is placed yet.
LEMMA BeginPushKeeps ==
  ASSUME AuditConstants, NetInv, NEW e \in ProxyEvents, begin_push(e)
  PROVE  NetInv'
  <1>1. /\ push[e] = "idle" /\ push' = [push EXCEPT ![e] = IF sink THEN "delivering" ELSE "unattached"]
        /\ UNCHANGED <<leaf_hashes, phase, sink, metadata, places>>
    BY DEF begin_push, recorder, locals, places
  <1>2. NetTyped /\ push \in [NetworkEvents \cup DecisionEvents \cup CommandEvents -> Pushes]
    BY DEF NetInv, NetTyped
  <1>3. e \in NetworkEvents /\ e \notin SupervisorEvents
    BY DEF NetworkEvents, AuditConstants
  <1>4. /\ push'[e] \in {"delivering", "unattached"} /\ (~sink => push'[e] = "unattached")
        /\ \A f \in NetworkEvents \ {e} : push'[f] = push[f]
        /\ push' \in [NetworkEvents \cup DecisionEvents \cup CommandEvents -> Pushes]
    BY <1>1, <1>2, <1>3 DEF Pushes
  <1>5. UNCHANGED <<Events(buffer), Events(supervisor_events), Events(drained),
                    Elems(network_events), Elems(unrecorded), Elems(leaf_hashes)>>
    BY <1>1 DEF places, Events, Elems
  <1>6. NetTyped' /\ LoggedOnce' /\ Apart'
    BY <1>1, <1>4, <1>5 DEF NetInv, NetTyped, LoggedOnce, Apart, places
  <1>7. LoggedPlaced' /\ PushedOnly'
    BY <1>1, <1>3, <1>4, <1>5 DEF NetInv, LoggedPlaced, PushedOnly, InLog
  <1>8. ASSUME NEW q, Events(q) \subseteq NetworkEvents, Held(q) PROVE Held(q)'
    <2>1. \A i \in 1 .. Len(q) : q[i].event \in NetworkEvents \ {e}
      BY <1>1, <1>8 DEF Held, Events
    <2> QED BY <1>4, <1>5, <1>8, <2>1 DEF Held, InLog
  <1>9. BuffersTrue'
    BY <1>1, <1>2, <1>5, <1>8, PlacesHoldEvents DEF NetInv, BuffersTrue, places
  <1>10. Sorted'
    BY <1>1, <1>2, <1>3, <1>4, <1>5, PlacesHoldEvents DEF NetInv, Sorted, Once, places, InLog
  <1>11. NetPhase'
    <2>1. \A f \in SupervisorEvents : push'[f] = push[f]
      BY <1>3, <1>4 DEF NetworkEvents
    <2>2. ~sink => \A f \in ProxyEvents : push'[f] = push[f] \/ push'[f] = "unattached"
      BY <1>4 DEF NetworkEvents
    <2> QED BY <1>1, <2>1, <2>2 DEF NetInv, NetPhase, places
  <1> QED BY <1>6, <1>7, <1>9, <1>10, <1>11 DEF NetInv

\* The sink appends the event, or fails to.
LEMMA DeliverKeeps ==
  ASSUME AuditConstants, NetInv, NEW e \in ProxyEvents, deliver(e)
  PROVE  NetInv'
  <1>1. push[e] = "delivering" /\ UNCHANGED <<phase, sink, metadata, places>>
    BY DEF deliver, locals, places
  <1>2. NetTyped /\ push \in [NetworkEvents \cup DecisionEvents \cup CommandEvents -> Pushes]
    BY DEF NetInv, NetTyped
  <1>3. e \in NetworkEvents /\ e \notin SupervisorEvents /\ e \in Payloads
    BY DEF NetworkEvents, AuditConstants, Payloads
  <1>4. ~InLog(e)
    BY <1>1, <1>3 DEF NetInv, PushedOnly
  <1>5. \/ leaf_hashes' = Append(leaf_hashes, e) /\ push' = [push EXCEPT ![e] = "recorded"]
        \/ UNCHANGED leaf_hashes /\ push' = [push EXCEPT ![e] = "rejected"]
    BY ErrorKeepsLeaves DEF deliver, append_event, Advance
  <1>6. /\ push'[e] \in {"recorded", "rejected"}
        /\ \A f \in NetworkEvents \ {e} : push'[f] = push[f]
        /\ push' \in [NetworkEvents \cup DecisionEvents \cup CommandEvents -> Pushes]
    BY <1>2, <1>3, <1>5 DEF Pushes
  <1>7. /\ leaf_hashes' \in Seq(Payloads) /\ LoggedOnce'
        /\ \A f \in NetworkEvents \ {e} : InLog(f)' <=> InLog(f)
        /\ InLog(e)' <=> push'[e] = "recorded"
    <2>1. CASE leaf_hashes' = Append(leaf_hashes, e) /\ push' = [push EXCEPT ![e] = "recorded"]
      BY <1>2, <1>3, <1>4, <2>1, LogGrows DEF NetInv
    <2>2. CASE UNCHANGED leaf_hashes /\ push' = [push EXCEPT ![e] = "rejected"]
      <3>1. push'[e] = "rejected"
        BY <1>2, <1>3, <2>2
      <3> QED BY <1>4, <2>2, <3>1 DEF NetInv, NetTyped, LoggedOnce, InLog, Elems
    <2> QED BY <1>5, <2>1, <2>2
  <1>8. UNCHANGED <<Events(buffer), Events(supervisor_events), Events(drained),
                    Elems(network_events), Elems(unrecorded)>>
    BY <1>1 DEF places, Events, Elems
  <1>9. NetTyped' /\ Apart'
    BY <1>1, <1>6, <1>7, <1>8 DEF NetInv, NetTyped, Apart, places
  <1>10. LoggedPlaced' /\ PushedOnly'
    BY <1>3, <1>6, <1>7, <1>8 DEF NetInv, LoggedPlaced, PushedOnly
  <1>11. ASSUME NEW q, Events(q) \subseteq NetworkEvents, Held(q) PROVE Held(q)'
    <2>1. \A i \in 1 .. Len(q) : q[i].event \in NetworkEvents \ {e}
      BY <1>1, <1>11 DEF Held, Events
    <2> QED BY <1>6, <1>7, <1>11, <2>1 DEF Held
  <1>12. BuffersTrue'
    BY <1>1, <1>2, <1>8, <1>11, PlacesHoldEvents DEF NetInv, BuffersTrue, places
  <1>13. e \notin Elems(network_events)
    BY <1>1 DEF NetInv, Sorted
  <1>14. Sorted'
    BY <1>1, <1>2, <1>6, <1>7, <1>8, <1>13, PlacesHoldEvents DEF NetInv, Sorted, Once, places
  <1>15. NetPhase'
    <2>1. phase \notin {"detached", "sorting", "replaying", "sealed", "saved"}
      BY <1>1 DEF NetInv, NetPhase
    <2>2. \A f \in SupervisorEvents : push'[f] = push[f]
      BY <1>3, <1>6 DEF NetworkEvents
    <2> QED BY <1>1, <2>1, <2>2 DEF NetInv, NetPhase, places
  <1> QED BY <1>7, <1>9, <1>10, <1>12, <1>14, <1>15 DEF NetInv

\* The event goes into the buffer with its outcome, or is dropped.
LEMMA BufferKeeps ==
  ASSUME AuditConstants, NetInv, NEW e \in ProxyEvents, buffer_event(e)
  PROVE  NetInv'
  <1> DEFINE b == [event |-> e, live_recorded |-> push[e] = "recorded"]
  <1>1. /\ push[e] \in {"unattached", "recorded", "rejected"}
        /\ UNCHANGED <<leaf_hashes, phase, sink, metadata, supervisor_events, drained, unrecorded,
                       network_events>>
    BY DEF buffer_event, recorder, locals
  <1>2. /\ NetTyped /\ push \in [NetworkEvents \cup DecisionEvents \cup CommandEvents -> Pushes]
        /\ buffer \in Seq(BufferedAuditEvent)
    BY DEF NetInv, NetTyped
  <1>3. e \in NetworkEvents /\ e \notin SupervisorEvents
    BY DEF NetworkEvents, AuditConstants
  <1>4. \/ buffer' = Append(buffer, b) /\ push' = [push EXCEPT ![e] = "buffered"]
        \/ UNCHANGED buffer /\ push' = [push EXCEPT ![e] = "dropped"]
    BY DEF buffer_event
  <1>5. b \in BufferedAuditEvent /\ b.event = e /\ (b.live_recorded <=> push[e] = "recorded")
    BY <1>3 DEF BufferedAuditEvent
  <1> HIDE DEF b
  <1>6. /\ push'[e] \in {"buffered", "dropped"}
        /\ \A f \in NetworkEvents \ {e} : push'[f] = push[f]
        /\ push' \in [NetworkEvents \cup DecisionEvents \cup CommandEvents -> Pushes]
    BY <1>2, <1>3, <1>4 DEF Pushes
  <1>7. InLog(e) <=> push[e] = "recorded"
    BY <1>1, <1>3 DEF NetInv, PushedOnly
  <1>8. e \notin Events(buffer) \cup Events(supervisor_events) \cup Events(drained)
                    \cup Elems(network_events)
    BY <1>1 DEF NetInv, BuffersTrue, Held, Sorted, Events
  <1>9. UNCHANGED <<Events(supervisor_events), Events(drained), Elems(network_events),
                    Elems(unrecorded), Elems(leaf_hashes)>>
    BY <1>1 DEF Events, Elems
  <1>10. /\ buffer' \in Seq(BufferedAuditEvent)
         /\ \/ Events(buffer)' = Events(buffer) \cup {e} /\ push'[e] = "buffered"
            \/ Events(buffer)' = Events(buffer) /\ push'[e] = "dropped"
    <2>1. CASE buffer' = Append(buffer, b) /\ push' = [push EXCEPT ![e] = "buffered"]
      <3>1. buffer' \in Seq(BufferedAuditEvent) /\ Events(buffer)' = Events(buffer) \cup {e}
        BY <1>2, <1>5, <2>1, AppendEvents DEF Events
      <3>2. push'[e] = "buffered"
        BY <1>2, <1>3, <2>1
      <3> QED BY <3>1, <3>2
    <2>2. CASE UNCHANGED buffer /\ push' = [push EXCEPT ![e] = "dropped"]
      <3>1. push'[e] = "dropped"
        BY <1>2, <1>3, <2>2
      <3> QED BY <1>2, <2>2, <3>1 DEF Events
    <2> QED BY <1>4, <2>1, <2>2
  <1>11. NetTyped' /\ LoggedOnce' /\ Apart'
    BY <1>1, <1>6, <1>8, <1>9, <1>10 DEF NetInv, NetTyped, LoggedOnce, Apart
  <1>12. LoggedPlaced' /\ PushedOnly'
    BY <1>3, <1>6, <1>9, <1>10 DEF NetInv, LoggedPlaced, PushedOnly, InLog
  <1>13. ASSUME NEW q, Events(q) \subseteq NetworkEvents \ {e}, Held(q) PROVE Held(q)'
    <2>1. \A i \in 1 .. Len(q) : q[i].event \in NetworkEvents \ {e}
      BY <1>13 DEF Events
    <2> QED BY <1>6, <1>9, <1>13, <2>1 DEF Held, InLog
  <1>14. /\ Events(buffer) \subseteq NetworkEvents \ {e}
         /\ Events(supervisor_events) \subseteq NetworkEvents \ {e}
         /\ Events(drained) \subseteq NetworkEvents \ {e}
    BY <1>2, <1>8, PlacesHoldEvents
  <1>15. Held(buffer)'
    <2>1. CASE UNCHANGED buffer
      BY <1>13, <1>14, <2>1 DEF NetInv, BuffersTrue
    <2>2. CASE buffer' = Append(buffer, b) /\ push' = [push EXCEPT ![e] = "buffered"]
      <3>1. /\ EventOnce(buffer') /\ Len(buffer') = Len(buffer) + 1 /\ Len(buffer) \in Nat
            /\ buffer'[Len(buffer) + 1] = b
            /\ \A i \in 1 .. Len(buffer) : buffer'[i] = buffer[i]
        BY <1>2, <1>5, <1>8, <2>2, AppendEvents DEF NetInv, BuffersTrue, Held
      <3>2. \A i \in 1 .. Len(buffer') : i \in 1 .. Len(buffer) \/ i = Len(buffer) + 1
        BY <3>1
      <3>3. push'[e] = "buffered" /\ (InLog(e)' <=> InLog(e))
        BY <1>2, <1>3, <1>9, <2>2 DEF InLog
      <3>4. \A i \in 1 .. Len(buffer) : /\ push'[buffer[i].event] = "buffered"
                                        /\ buffer[i].live_recorded <=> InLog(buffer[i].event)'
        <4>1. \A i \in 1 .. Len(buffer) : buffer[i].event \in NetworkEvents \ {e}
          BY <1>14 DEF Events
        <4>2. \A i \in 1 .. Len(buffer) : /\ push[buffer[i].event] = "buffered"
                                          /\ buffer[i].live_recorded <=> InLog(buffer[i].event)
          BY DEF NetInv, BuffersTrue, Held
        <4>3. \A f : InLog(f)' <=> InLog(f)
          BY <1>9 DEF InLog
        <4> QED BY <1>6, <3>1, <4>1, <4>2, <4>3
      <3> QED BY <1>5, <1>7, <3>1, <3>2, <3>3, <3>4 DEF Held
    <2> QED BY <1>4, <2>1, <2>2
  <1>16. BuffersTrue'
    BY <1>1, <1>9, <1>10, <1>13, <1>14, <1>15 DEF NetInv, BuffersTrue
  <1>17. Sorted'
    BY <1>1, <1>2, <1>6, <1>8, <1>9, PlacesHoldEvents DEF NetInv, Sorted, Once, InLog
  <1>18. NetPhase'
    <2>1. \A f \in SupervisorEvents : push'[f] = push[f]
      BY <1>3, <1>6 DEF NetworkEvents
    <2>2. \A f \in ProxyEvents : push'[f] = push[f] \/ push'[f] \in {"buffered", "dropped"}
      BY <1>6 DEF NetworkEvents
    <2>3. phase \in {"sorting", "replaying", "sealed", "saved"} =>
            \A i \in 1 .. Len(buffer') : ~buffer'[i].live_recorded
      <3> SUFFICES ASSUME phase \in {"sorting", "replaying", "sealed", "saved"}
                   PROVE  \A i \in 1 .. Len(buffer') : ~buffer'[i].live_recorded
        OBVIOUS
      <3>1. ~b.live_recorded /\ \A i \in 1 .. Len(buffer) : ~buffer[i].live_recorded
        BY <1>5 DEF NetInv, NetPhase
      <3>2. CASE buffer' = Append(buffer, b)
        <4>1. /\ Len(buffer') = Len(buffer) + 1 /\ Len(buffer) \in Nat
              /\ buffer'[Len(buffer) + 1] = b
              /\ \A i \in 1 .. Len(buffer) : buffer'[i] = buffer[i]
          BY <1>2, <1>5, <3>2, AppendEvents
        <4>2. \A i \in 1 .. Len(buffer') : i \in 1 .. Len(buffer) \/ i = Len(buffer) + 1
          BY <4>1
        <4> QED BY <3>1, <4>1, <4>2
      <3> QED BY <1>4, <3>1, <3>2
    <2> QED BY <1>1, <2>1, <2>2, <2>3 DEF NetInv, NetPhase
  <1> QED BY <1>11, <1>12, <1>16, <1>17, <1>18 DEF NetInv

\* The supervisor records its own event and buffers it with the outcome.
LEMMA PushNetworkKeeps ==
  ASSUME AuditConstants, NetInv, NEW e \in SupervisorEvents, push_network_audit_event(e)
  PROVE  NetInv'
  <1>1. /\ push[e] = "idle" /\ phase = "running" /\ push' = [push EXCEPT ![e] = "buffered"]
        /\ UNCHANGED <<phase, sink, metadata, buffer, drained, unrecorded, network_events>>
    BY DEF push_network_audit_event, locals
  <1>2. /\ NetTyped /\ push \in [NetworkEvents \cup DecisionEvents \cup CommandEvents -> Pushes]
        /\ supervisor_events \in Seq(BufferedAuditEvent)
    BY DEF NetInv, NetTyped
  <1>3. e \in NetworkEvents /\ e \notin ProxyEvents /\ e \in Payloads
    BY DEF NetworkEvents, AuditConstants, Payloads
  <1>4. PICK live \in BOOLEAN :
          /\ IF live THEN append_event(e) ELSE append_error(e)
          /\ supervisor_events' = Append(supervisor_events, [event |-> e, live_recorded |-> live])
    BY DEF push_network_audit_event
  <1> DEFINE b == [event |-> e, live_recorded |-> live]
  <1>5. /\ b \in BufferedAuditEvent /\ b.event = e /\ b.live_recorded = live
        /\ supervisor_events' = Append(supervisor_events, b)
    BY <1>3, <1>4 DEF BufferedAuditEvent
  <1> HIDE DEF b
  <1>6. /\ push'[e] = "buffered" /\ \A f \in NetworkEvents \ {e} : push'[f] = push[f]
        /\ push' \in [NetworkEvents \cup DecisionEvents \cup CommandEvents -> Pushes]
    BY <1>1, <1>2, <1>3 DEF Pushes
  <1>7. ~InLog(e)
    BY <1>1, <1>3 DEF NetInv, PushedOnly
  <1>8. /\ leaf_hashes' \in Seq(Payloads) /\ LoggedOnce'
        /\ \A f \in NetworkEvents \ {e} : InLog(f)' <=> InLog(f)
        /\ InLog(e)' <=> live
    <2>1. CASE live
      <3>1. leaf_hashes' = Append(leaf_hashes, e)
        BY <1>4, <2>1 DEF append_event, Advance
      <3> QED BY <1>2, <1>3, <1>7, <2>1, <3>1, LogGrows DEF NetInv
    <2>2. CASE ~live
      <3>1. UNCHANGED leaf_hashes
        BY <1>4, <2>2, ErrorKeepsLeaves
      <3> QED BY <1>7, <2>2, <3>1 DEF NetInv, NetTyped, LoggedOnce, InLog, Elems
    <2> QED BY <2>1, <2>2
  <1>9. e \notin Events(buffer) \cup Events(supervisor_events) \cup Events(drained)
                    \cup Elems(network_events)
    BY <1>1 DEF NetInv, BuffersTrue, Held, Sorted, Events
  <1>10. UNCHANGED <<Events(buffer), Events(drained), Elems(network_events), Elems(unrecorded)>>
    BY <1>1 DEF Events, Elems
  <1>11. /\ supervisor_events' \in Seq(BufferedAuditEvent)
         /\ Len(supervisor_events') = Len(supervisor_events) + 1 /\ Len(supervisor_events) \in Nat
         /\ supervisor_events'[Len(supervisor_events) + 1] = b
         /\ \A i \in 1 .. Len(supervisor_events) : supervisor_events'[i] = supervisor_events[i]
         /\ Events(supervisor_events') = Events(supervisor_events) \cup {e}
         /\ EventOnce(supervisor_events')
    BY <1>2, <1>5, <1>9, AppendEvents DEF NetInv, BuffersTrue, Held
  <1>12. NetTyped' /\ Apart'
    BY <1>1, <1>6, <1>8, <1>9, <1>10, <1>11 DEF NetInv, NetTyped, Apart
  <1>13. LoggedPlaced' /\ PushedOnly'
    BY <1>3, <1>6, <1>8, <1>10, <1>11 DEF NetInv, LoggedPlaced, PushedOnly
  <1>14. /\ Events(buffer) \subseteq NetworkEvents \ {e}
         /\ Events(supervisor_events) \subseteq NetworkEvents \ {e}
         /\ Events(drained) \subseteq NetworkEvents \ {e}
    BY <1>2, <1>9, PlacesHoldEvents
  <1>15. Held(buffer)' /\ Held(drained)'
    <2>1. ASSUME NEW q, Events(q) \subseteq NetworkEvents \ {e}, Held(q)
          PROVE  /\ EventOnce(q)
                 /\ \A i \in 1 .. Len(q) : /\ push'[q[i].event] = "buffered"
                                           /\ q[i].live_recorded <=> q[i].event \in Elems(leaf_hashes')
      <3>1. \A i \in 1 .. Len(q) : q[i].event \in NetworkEvents \ {e}
        BY <2>1 DEF Events
      <3>2. \A f \in NetworkEvents \ {e} : f \in Elems(leaf_hashes') <=> InLog(f)
        BY <1>8 DEF InLog
      <3> QED BY <1>6, <2>1, <3>1, <3>2 DEF Held
    <2>2. Held(buffer) /\ Held(drained)
      BY DEF NetInv, BuffersTrue
    <2> QED BY <1>1, <1>14, <2>1, <2>2 DEF Held, InLog
  <1>16. Held(supervisor_events)'
    <2> DEFINE n == Len(supervisor_events)
    <2>1. \A i \in 1 .. Len(supervisor_events') : i \in 1 .. n \/ i = n + 1
      BY <1>11
    <2>2. \A i \in 1 .. n : supervisor_events[i].event \in NetworkEvents \ {e}
      BY <1>14 DEF Events
    <2>3. \A i \in 1 .. n :
            /\ push[supervisor_events[i].event] = "buffered"
            /\ supervisor_events[i].live_recorded <=> InLog(supervisor_events[i].event)
      BY DEF NetInv, BuffersTrue, Held
    <2>4. \A f \in NetworkEvents \ {e} : f \in Elems(leaf_hashes') <=> InLog(f)
      BY <1>8 DEF InLog
    <2>5. \A i \in 1 .. n :
            /\ push'[supervisor_events[i].event] = "buffered"
            /\ supervisor_events[i].live_recorded
                 <=> supervisor_events[i].event \in Elems(leaf_hashes')
      BY <1>6, <2>2, <2>3, <2>4
    <2>6. b.live_recorded <=> b.event \in Elems(leaf_hashes')
      BY <1>5, <1>8 DEF InLog
    <2> HIDE DEF n
    <2> QED BY <1>5, <1>6, <1>11, <2>1, <2>5, <2>6 DEF Held, InLog, n
  <1>17. BuffersTrue'
    BY <1>10, <1>11, <1>15, <1>16 DEF NetInv, BuffersTrue
  <1>18. Sorted'
    BY <1>1, <1>2, <1>6, <1>8, <1>9, <1>10, PlacesHoldEvents DEF NetInv, Sorted, Once
  <1>19. NetPhase'
    <2>1. \A f \in SupervisorEvents : push'[f] = push[f] \/ push'[f] = "buffered"
      BY <1>6 DEF NetworkEvents
    <2> QED BY <1>1, <2>1 DEF NetInv, NetPhase
  <1> QED BY <1>8, <1>12, <1>13, <1>17, <1>18, <1>19 DEF NetInv

\* The buffers move to the finalizer's list, whole.
LEMMA DrainKeeps ==
  ASSUME AuditConstants, NetInv, drain_buffered
  PROVE  NetInv'
  <1>1. /\ phase = "detached" /\ phase' = "sorting" /\ drained' = buffer \o supervisor_events
        /\ buffer' = <<>> /\ supervisor_events' = <<>>
        /\ UNCHANGED <<leaf_hashes, push, sink, metadata, unrecorded, network_events>>
    BY DEF drain_buffered, recorder
  <1>2. /\ NetTyped /\ buffer \in Seq(BufferedAuditEvent)
        /\ supervisor_events \in Seq(BufferedAuditEvent) /\ drained = <<>>
    BY <1>1 DEF NetInv, NetTyped, NetPhase
  <1>3. UNCHANGED <<Elems(leaf_hashes), Elems(network_events), Elems(unrecorded)>>
    BY <1>1 DEF Elems
  <1>4. Events(buffer') = {} /\ Events(supervisor_events') = {} /\ Events(drained) = {}
    BY <1>1, <1>2 DEF Events
  <1>5. Events(buffer) \cap Events(supervisor_events) = {}
    BY DEF NetInv, BuffersTrue, AuditConstants
  <1>6. /\ drained' \in Seq(BufferedAuditEvent) /\ EventOnce(drained')
        /\ Events(drained') = Events(buffer) \cup Events(supervisor_events)
        /\ \A i \in 1 .. Len(drained') : drained'[i] \in Elems(buffer) \cup Elems(supervisor_events)
    BY <1>1, <1>2, <1>5, ConcatEvents DEF NetInv, BuffersTrue, Held
  <1>7. NetTyped' /\ LoggedOnce' /\ PushedOnly' /\ Sorted'
    BY <1>1, <1>3, <1>6 DEF NetInv, NetTyped, LoggedOnce, PushedOnly, Sorted, InLog, Once, Phases
  <1>8. Apart' /\ LoggedPlaced'
    BY <1>1, <1>3, <1>4, <1>6 DEF NetInv, Apart, LoggedPlaced, InLog
  <1>9. BuffersTrue'
    <2>1. \A b \in Elems(buffer) \cup Elems(supervisor_events) :
            push[b.event] = "buffered" /\ (b.live_recorded <=> InLog(b.event))
      BY DEF NetInv, BuffersTrue, Held, Elems
    <2>2. Held(drained)'
      BY <1>1, <1>3, <1>6, <2>1 DEF Held, InLog
    <2>3. Held(buffer)' /\ Held(supervisor_events)'
      BY <1>1 DEF Held, EventOnce
    <2> QED BY <1>4, <2>2, <2>3 DEF BuffersTrue
  <1>10. NetPhase'
    BY <1>1 DEF NetInv, NetPhase
  <1> QED BY <1>7, <1>8, <1>9, <1>10 DEF NetInv

\* One drained event is listed, and marked for replay unless it is in the log.
LEMMA SortKeeps ==
  ASSUME NetInv, sort_buffered
  PROVE  NetInv'
  <1> DEFINE b == Head(drained)
             x == b.event
  <1>1. /\ phase = "sorting" /\ drained # <<>> /\ drained' = Tail(drained)
        /\ unrecorded' = IF b.live_recorded THEN unrecorded ELSE Append(unrecorded, x)
        /\ network_events' = Append(network_events, x)
        /\ UNCHANGED <<leaf_hashes, push, sink, metadata, phase, buffer, supervisor_events>>
    BY DEF sort_buffered, recorder
  <1>2. /\ NetTyped /\ drained \in Seq(BufferedAuditEvent) /\ EventOnce(drained)
        /\ unrecorded \in Seq(NetworkEvents) /\ network_events \in Seq(NetworkEvents)
    BY DEF NetInv, NetTyped, BuffersTrue, Held
  <1>3. /\ b \in BufferedAuditEvent /\ drained' \in Seq(BufferedAuditEvent) /\ EventOnce(drained')
        /\ Events(drained) = Events(drained') \cup {x} /\ x \notin Events(drained')
        /\ 1 \in 1 .. Len(drained) /\ b = drained[1]
        /\ \A i \in 1 .. Len(drained') : i + 1 \in 1 .. Len(drained) /\ drained'[i] = drained[i + 1]
    BY <1>1, <1>2, TailEvents
  <1>4. /\ push[x] = "buffered" /\ (b.live_recorded <=> InLog(x))
        /\ b.live_recorded \in BOOLEAN /\ x \in NetworkEvents
    BY <1>3 DEF NetInv, BuffersTrue, Held, BufferedAuditEvent
  <1> HIDE DEF b, x
  <1>5. UNCHANGED <<Elems(leaf_hashes), Events(buffer), Events(supervisor_events)>>
    BY <1>1 DEF Elems, Events
  <1>6. x \notin Elems(network_events) /\ x \notin Events(buffer) \cup Events(supervisor_events)
    BY <1>3 DEF NetInv, Apart
  <1>7. x \notin Elems(unrecorded)
    BY <1>6 DEF NetInv, Sorted
  <1>8. /\ network_events' \in Seq(NetworkEvents) /\ Once(network_events')
        /\ Elems(network_events') = Elems(network_events) \cup {x}
    BY <1>1, <1>2, <1>4, <1>6, AppendElems DEF NetInv, Sorted
  <1>9. /\ unrecorded' \in Seq(NetworkEvents) /\ Once(unrecorded')
        /\ Elems(unrecorded') = IF InLog(x) THEN Elems(unrecorded) ELSE Elems(unrecorded) \cup {x}
    <2>1. CASE b.live_recorded
      BY <1>1, <1>2, <1>4, <2>1 DEF NetInv, Sorted
    <2>2. CASE ~b.live_recorded
      BY <1>1, <1>2, <1>4, <1>7, <2>2, AppendElems DEF NetInv, Sorted
    <2> QED BY <2>1, <2>2
  <1>10. NetTyped' /\ LoggedOnce' /\ PushedOnly'
    BY <1>1, <1>3, <1>5, <1>8, <1>9 DEF NetInv, NetTyped, LoggedOnce, PushedOnly, InLog
  <1>11. LoggedPlaced' /\ Apart'
    BY <1>1, <1>3, <1>5, <1>6, <1>8 DEF NetInv, LoggedPlaced, Apart, InLog
  <1>12. BuffersTrue'
    <2>1. Held(drained)'
      BY <1>1, <1>3, <1>5 DEF NetInv, BuffersTrue, Held, InLog
    <2>2. Held(buffer)' /\ Held(supervisor_events)'
      BY <1>1, <1>5 DEF NetInv, BuffersTrue, Held, EventOnce, InLog
    <2> QED BY <1>5, <2>1, <2>2 DEF NetInv, BuffersTrue
  <1>13. Sorted'
    BY <1>1, <1>4, <1>5, <1>7, <1>8, <1>9 DEF NetInv, Sorted, InLog
  <1>14. NetPhase'
    BY <1>1 DEF NetInv, NetPhase
  <1> QED BY <1>10, <1>11, <1>12, <1>13, <1>14 DEF NetInv

\* An event that was not recorded live is recorded now, or the session fails.
LEMMA ReplayKeeps ==
  ASSUME NetInv, replay_event
  PROVE  NetInv'
  <1> DEFINE x == Head(unrecorded)
  <1>1. /\ phase = "replaying" /\ unrecorded # <<>>
        /\ UNCHANGED <<push, sink, metadata, buffer, supervisor_events, drained, network_events>>
    BY DEF replay_event
  <1>2. /\ NetTyped /\ unrecorded \in Seq(NetworkEvents) /\ Once(unrecorded) /\ drained = <<>>
    BY <1>1 DEF NetInv, NetTyped, Sorted, NetPhase
  <1>3. /\ x \in NetworkEvents /\ Tail(unrecorded) \in Seq(NetworkEvents) /\ Once(Tail(unrecorded))
        /\ Elems(unrecorded) = Elems(Tail(unrecorded)) \cup {x} /\ x \notin Elems(Tail(unrecorded))
    BY <1>1, <1>2, TailElems
  <1>4. \/ leaf_hashes' = Append(leaf_hashes, x) /\ unrecorded' = Tail(unrecorded) /\ phase' = phase
        \/ UNCHANGED <<leaf_hashes, unrecorded>> /\ phase' = "failed"
    BY ErrorKeepsLeaves DEF replay_event, append_event, Advance
  <1> HIDE DEF x
  <1>5. UNCHANGED <<Events(buffer), Events(supervisor_events), Events(drained), Elems(network_events)>>
    BY <1>1 DEF Elems, Events
  <1>6. CASE leaf_hashes' = Append(leaf_hashes, x) /\ unrecorded' = Tail(unrecorded) /\ phase' = phase
    <2>1. x \in Elems(network_events) /\ ~InLog(x) /\ push[x] = "buffered"
      BY <1>3 DEF NetInv, Sorted
    <2>2. x \notin Events(buffer) \cup Events(supervisor_events) \cup Events(drained)
      BY <2>1 DEF NetInv, Apart
    <2>3. x \in Payloads
      BY <1>3 DEF Payloads
    <2>4. /\ leaf_hashes' \in Seq(Payloads) /\ LoggedOnce'
          /\ \A e : e \in Elems(leaf_hashes') <=> InLog(e) \/ e = x
      BY <1>6, <2>1, <2>3, LogGrows DEF NetInv, InLog
    <2>5. NetTyped' /\ PushedOnly' /\ Apart' /\ LoggedPlaced'
      BY <1>1, <1>3, <1>5, <1>6, <2>1, <2>4
         DEF NetInv, NetTyped, PushedOnly, LoggedPlaced, Apart, InLog
    <2>6. ASSUME NEW q, x \notin Events(q), Held(q)
          PROVE  /\ EventOnce(q)
                 /\ \A i \in 1 .. Len(q) : /\ push[q[i].event] = "buffered"
                                           /\ q[i].live_recorded <=> q[i].event \in Elems(leaf_hashes')
      <3>1. \A i \in 1 .. Len(q) : q[i].event # x
        BY <2>6 DEF Events
      <3> QED BY <2>4, <2>6, <3>1 DEF Held
    <2>7. BuffersTrue'
      BY <1>1, <1>5, <2>2, <2>6 DEF NetInv, BuffersTrue, Held, InLog
    <2>8. Sorted'
      BY <1>1, <1>3, <1>5, <1>6, <2>1, <2>4 DEF NetInv, Sorted, InLog
    <2>9. NetPhase'
      BY <1>1, <1>6 DEF NetInv, NetPhase
    <2> QED BY <2>4, <2>5, <2>7, <2>8, <2>9 DEF NetInv
  <1>7. CASE UNCHANGED <<leaf_hashes, unrecorded>> /\ phase' = "failed"
    <2>1. UNCHANGED places /\ \A e : InLog(e)' <=> InLog(e)
      BY <1>1, <1>7 DEF places, InLog, Elems
    <2>2. LoggedPlaced' /\ PushedOnly' /\ BuffersTrue' /\ Sorted' /\ Apart'
      BY <1>1, <2>1, NetFramed
    <2>3. NetTyped' /\ LoggedOnce' /\ NetPhase'
      BY <1>1, <1>2, <1>7 DEF NetInv, NetTyped, LoggedOnce, NetPhase, Phases
    <2> QED BY <2>2, <2>3 DEF NetInv
  <1> QED BY <1>4, <1>6, <1>7

\* Nothing has happened to any event yet.
LEMMA NetBegins == ASSUME AuditConstants, Init PROVE NetInv
  <1>1. /\ leaf_hashes = <<>> /\ buffer = <<>> /\ supervisor_events = <<>> /\ drained = <<>>
        /\ unrecorded = <<>> /\ network_events = <<>> /\ phase = "starting"
        /\ push = [e \in ProxyEvents \cup SupervisorEvents \cup DecisionEvents
                            \cup CommandEvents |-> "idle"]
    BY DEF Init
  <1>2. NetTyped
    BY <1>1 DEF NetTyped, Pushes, Phases, NetworkEvents
  <1>3. \A e \in NetworkEvents : push[e] = "idle"
    BY <1>1 DEF NetworkEvents
  <1>4. LoggedOnce /\ LoggedPlaced /\ PushedOnly
    BY <1>1, <1>3 DEF LoggedOnce, LoggedPlaced, PushedOnly, InLog, Elems
  <1>5. BuffersTrue /\ Sorted /\ Apart
    BY <1>1 DEF BuffersTrue, Sorted, Apart, Held, EventOnce, Events, Once, Elems
  <1>6. NetPhase
    BY <1>1, <1>3 DEF NetPhase, NetworkEvents
  <1> QED BY <1>2, <1>4, <1>5, <1>6 DEF NetInv

\* Every step of every thread keeps the account.
LEMMA NetStep == ASSUME AuditConstants, NetInv, [Next]_vars PROVE NetInv'
  <1>1. CASE UNCHANGED vars
    <2>1. UNCHANGED places /\ (\A e : InLog(e)' <=> InLog(e)) /\ UNCHANGED push
      BY <1>1 DEF vars, places, InLog, Elems
    <2>2. LoggedPlaced' /\ PushedOnly' /\ BuffersTrue' /\ Sorted' /\ Apart'
      BY <2>1, NetFramed
    <2>3. NetTyped' /\ LoggedOnce' /\ NetPhase'
      BY <1>1 DEF vars, NetInv, NetTyped, LoggedOnce, NetPhase
    <2> QED BY <2>2, <2>3 DEF NetInv
  <1>2. CASE Neutral
    BY <1>2, NeutralKeeps
  <1>3. CASE drain_buffered \/ sort_buffered \/ replay_event
    BY <1>3, DrainKeeps, SortKeeps, ReplayKeeps
  <1>4. CASE \E e \in SupervisorEvents : push_network_audit_event(e)
    BY <1>4, PushNetworkKeeps
  <1>5. CASE \E e \in ProxyEvents : begin_push(e) \/ deliver(e) \/ buffer_event(e)
    BY <1>5, BeginPushKeeps, DeliverKeeps, BufferKeeps
  <1> QED BY <1>1, <1>2, <1>3, <1>4, <1>5 DEF Next, Supervisor, Neutral

\* Where every network event is, at every moment of every session.
THEOREM NetworkEventsFollowed == AuditConstants /\ Spec => []NetInv
  <1> DEFINE I == AuditConstants /\ NetInv
  <1>1. AuditConstants /\ Init => I
    BY NetBegins
  <1>2. I /\ [Next]_vars => I'
    <2> SUFFICES ASSUME I, [Next]_vars PROVE I'
      OBVIOUS
    <2>1. NetInv'
      BY NetStep
    <2> QED BY <2>1
  <1>3. I => NetInv
    OBVIOUS
  <1> HIDE DEF I
  <1> QED BY <1>1, <1>2, <1>3, PTL DEF Spec

\* What was saved and what was logged are the same network events, each once,
\* except for those the full buffer dropped.
THEOREM NetworkEventsOnce == AuditConstants /\ Spec => []NetworkEventsRecordedOnce
  <1>1. AuditInv /\ NetInv => NetworkEventsRecordedOnce
    <2> SUFFICES ASSUME AuditInv, NetInv, phase = "saved", ~torn_write, NEW e \in NetworkEvents
                 PROVE  LET saved == {i \in 1 .. Len(metadata.network_events) :
                                          metadata.network_events[i] = e}
                        IN  /\ saved # {} => Cardinality(Occurrences(e)) = 1
                            /\ Occurrences(e) # {} => saved # {} \/ push[e] = "dropped"
      BY DEF NetworkEventsRecordedOnce
    <2> DEFINE saved == {i \in 1 .. Len(metadata.network_events) : metadata.network_events[i] = e}
    <2>1. /\ metadata.network_events = network_events /\ unrecorded = <<>> /\ drained = <<>>
          /\ supervisor_events = <<>> /\ \A i \in 1 .. Len(buffer) : ~buffer[i].live_recorded
      BY DEF NetInv, NetPhase
    <2>2. saved # {} <=> e \in Elems(network_events)
      BY <2>1 DEF Elems
    <2>3. Occurrences(e) = {i \in 1 .. Len(leaf_hashes) : leaf_hashes[i] = e}
      BY DEF Occurrences, AuditInv, RecorderInStep, Linked
    <2>4. Occurrences(e) # {} <=> InLog(e)
      BY <2>3 DEF InLog, Elems
    <2> HIDE DEF saved
    <2>5. ASSUME saved # {} PROVE Cardinality(Occurrences(e)) = 1
      <3>1. Elems(unrecorded) = {}
        BY <2>1 DEF Elems
      <3>2. InLog(e)
        BY <2>2, <2>5, <3>1 DEF NetInv, Sorted
      <3>3. PICK i \in 1 .. Len(leaf_hashes) : leaf_hashes[i] = e
        BY <3>2 DEF InLog, Elems
      <3>4. Occurrences(e) = {i}
        BY <2>3, <3>3 DEF NetInv, LoggedOnce
      <3> QED BY <3>4, FS_Singleton
    <2>6. ASSUME Occurrences(e) # {} PROVE saved # {} \/ push[e] = "dropped"
      <3>1. InLog(e)
        BY <2>4, <2>6
      <3>2. e \notin Events(buffer)
        BY <2>1, <3>1 DEF NetInv, BuffersTrue, Held, Events
      <3>3. Events(supervisor_events) = {} /\ Events(drained) = {}
        BY <2>1 DEF Events
      <3>4. push[e] # "recorded"
        BY DEF NetInv, NetPhase, NetworkEvents
      <3> QED BY <2>2, <3>1, <3>2, <3>3, <3>4 DEF NetInv, LoggedPlaced
    <2> QED BY <2>5, <2>6 DEF saved
  <1> QED BY <1>1, AuditInvariant, NetworkEventsFollowed, PTL

-----------------------------------------------------------------------------
(* The rollup of command-policy events *)

CommandLog == {e \in CommandEvents : InLog(e)}
About(c, outcome) == {e \in CommandEvents : CommandOf[e] = c /\ OutcomeOf[e] = outcome}
Settled == {e \in CommandEvents : OutcomeOf[e] # "Pending"}
Counts(c) == [allowed |-> Cardinality(CommandLog \cap About(c, "Allowed")),
              denied |-> Cardinality(CommandLog \cap About(c, "Denied")),
              other |-> Cardinality(CommandLog \cap About(c, "Other"))]

RollupFields == {"mediation_active", "event_count", "invocation_count", "commands", "truncated"}

\* A mediation thread records its event once, and is done when it has.
CommandsOnce ==
    /\ leaf_hashes \in Seq(Payloads)
    /\ DOMAIN push = NetworkEvents \cup DecisionEvents \cup CommandEvents
    /\ IsFiniteSet(CommandLog) /\ \A e \in CommandLog : push[e] = "recorded"

\* The totals count every logged event.  The counts by command are complete as
\* long as every settled command has its entry.
RollupCounts ==
    /\ DOMAIN rollup = RollupFields /\ rollup.truncated \in BOOLEAN
    /\ rollup.event_count = Cardinality(CommandLog)
    /\ rollup.invocation_count = Cardinality(CommandLog \cap Settled)
    /\ ~rollup.truncated => /\ \A c \in DOMAIN rollup.commands : rollup.commands[c] = Counts(c)
                            /\ \A e \in CommandLog \cap Settled :
                                 CommandOf[e] \in DOMAIN rollup.commands

RollupInv == CommandsOnce /\ RollupCounts

\* Counting a part of a set that gains one element.
LEMMA CountGrows ==
  ASSUME NEW S, NEW P, NEW x, IsFiniteSet(S), x \notin S
  PROVE  /\ Cardinality(S \cap P) \in Nat
         /\ Cardinality((S \cup {x}) \cap P) =
              IF x \in P THEN Cardinality(S \cap P) + 1 ELSE Cardinality(S \cap P)
  <1>1. IsFiniteSet(S \cap P)
    BY FS_Subset
  <1>2. Cardinality(S \cap P) \in Nat
    BY <1>1, FS_CardinalityType
  <1>3. CASE x \in P
    <2>1. (S \cup {x}) \cap P = (S \cap P) \cup {x} /\ x \notin S \cap P
      BY <1>3
    <2>2. Cardinality((S \cap P) \cup {x}) = Cardinality(S \cap P) + 1
      BY <1>1, <2>1, FS_AddElement
    <2> QED BY <1>2, <1>3, <2>1, <2>2
  <1>4. CASE x \notin P
    <2>1. (S \cup {x}) \cap P = S \cap P
      BY <1>4
    <2> QED BY <1>2, <1>4, <2>1
  <1> QED BY <1>3, <1>4

\* A leaf that is no command-policy event.
LEMMA OtherLeaf ==
  ASSUME leaf_hashes \in Seq(Payloads), NEW x \in Payloads, leaf_hashes' = Append(leaf_hashes, x)
  PROVE  /\ leaf_hashes' \in Seq(Payloads) /\ \A e : e \in Elems(leaf_hashes') <=> InLog(e) \/ e = x
         /\ x \notin CommandEvents => CommandLog' = CommandLog
         /\ x \in CommandEvents => CommandLog' = CommandLog \cup {x}
  <1>1. /\ leaf_hashes' \in Seq(Payloads) /\ \A e : e \in Elems(leaf_hashes') <=> InLog(e) \/ e = x
    BY AppendElems DEF InLog
  <1> QED BY <1>1 DEF CommandLog, InLog

\* Any other step leaves the events, their number and the rollup's counts alone.
LEMMA OtherStepFrame ==
  ASSUME AuditConstants, NetInv, CommandsOnce, [Next]_vars,
         \A e \in CommandEvents : ~record_command_policy_event(e)
  PROVE  /\ leaf_hashes' \in Seq(Payloads) /\ CommandLog' = CommandLog
         /\ DOMAIN push' = DOMAIN push /\ \A e \in CommandEvents : push'[e] = push[e]
         /\ UNCHANGED rollup \/ rollup' = [rollup EXCEPT !.mediation_active = TRUE]
  <1> DEFINE Kept == leaf_hashes' \in Seq(Payloads) /\ CommandLog' = CommandLog
             Same == DOMAIN push' = DOMAIN push /\ \A e \in CommandEvents : push'[e] = push[e]
             Roll == UNCHANGED rollup \/ rollup' = [rollup EXCEPT !.mediation_active = TRUE]
  <1>0. leaf_hashes \in Seq(Payloads)
    BY DEF CommandsOnce
  <1>1. ASSUME UNCHANGED leaf_hashes PROVE Kept
    BY <1>0, <1>1 DEF CommandLog, InLog, Elems
  <1>2. ASSUME NEW x \in Payloads \ CommandEvents, append_event(x) \/ append_error(x) PROVE Kept
    <2>1. leaf_hashes' = Append(leaf_hashes, x) \/ UNCHANGED leaf_hashes
      BY <1>2, ErrorKeepsLeaves DEF append_event, Advance
    <2> QED BY <1>0, <1>1, <2>1, OtherLeaf
  <1>3. {Started, SandboxRuntime, Ended} \cup NetworkEvents \cup DecisionEvents
          \subseteq Payloads \ CommandEvents
    BY DEF AuditConstants, Payloads
  <1>4. ASSUME NEW x \in NetworkEvents \cup DecisionEvents, NEW r, push' = [push EXCEPT ![x] = r]
        PROVE  Same
    BY <1>3, <1>4
  <1> HIDE DEF Kept
  <1>5. CASE record_session_started \/ record_sandbox_runtime_event \/ record_session_ended
    <2>1. Kept
      BY <1>2, <1>3, <1>5 DEF record_session_started, record_sandbox_runtime_event,
                              record_session_ended
    <2> QED BY <1>5, <2>1 DEF record_session_started, record_sandbox_runtime_event,
                              record_session_ended, Kept
  <1>6. CASE attach_sink \/ child_exits \/ detach_sink \/ drain_buffered \/ sort_buffered
               \/ lock_recorder \/ write_session_metadata \/ UNCHANGED vars
    <2>1. UNCHANGED <<leaf_hashes, push, rollup>>
      BY <1>6 DEF attach_sink, child_exits, detach_sink, drain_buffered, sort_buffered,
                  lock_recorder, write_session_metadata, recorder, vars
    <2> QED BY <1>1, <2>1 DEF Kept
  <1>7. CASE replay_event
    <2>1. unrecorded # <<>> /\ unrecorded \in Seq(NetworkEvents)
      BY <1>7 DEF replay_event, NetInv, NetTyped
    <2>2. Head(unrecorded) \in NetworkEvents
      BY <2>1
    <2>3. Kept
      BY <1>2, <1>3, <1>7, <2>2 DEF replay_event
    <2> QED BY <1>7, <2>3 DEF replay_event, Kept
  <1>8. ASSUME NEW e \in NetworkEvents \cup DecisionEvents,
               push_network_audit_event(e) \/ record_capability_decision(e) \/ deliver(e)
        PROVE  Kept /\ Same /\ UNCHANGED rollup
    <2>1. append_event(e) \/ append_error(e)
      BY <1>8 DEF push_network_audit_event, record_capability_decision, deliver
    <2>2. Kept
      BY <1>2, <1>3, <2>1
    <2>3. \E r : push' = [push EXCEPT ![e] = r]
      BY <1>8 DEF push_network_audit_event, record_capability_decision, deliver
    <2> QED BY <1>4, <1>8, <2>2, <2>3 DEF push_network_audit_event, record_capability_decision, deliver
  <1>9. ASSUME NEW e \in NetworkEvents, begin_push(e) \/ buffer_event(e)
        PROVE  Kept /\ Same /\ UNCHANGED rollup
    <2>1. UNCHANGED <<leaf_hashes, rollup>>
      BY <1>9 DEF begin_push, buffer_event, recorder
    <2>2. \E r : push' = [push EXCEPT ![e] = r]
      BY <1>9 DEF begin_push, buffer_event
    <2> QED BY <1>1, <1>4, <2>1, <2>2
  <1>10. CASE Next
    BY <1>5, <1>6, <1>7, <1>8, <1>9, <1>10 DEF Next, Supervisor, NetworkEvents, Kept
  <1> QED BY <1>6, <1>10 DEF Kept

\* Such a step keeps the rollup true.
LEMMA OtherStepKeeps ==
  ASSUME AuditConstants, NetInv, RollupInv, [Next]_vars,
         \A e \in CommandEvents : ~record_command_policy_event(e)
  PROVE  RollupInv'
  <1>1. /\ leaf_hashes' \in Seq(Payloads) /\ CommandLog' = CommandLog
        /\ DOMAIN push' = DOMAIN push /\ \A e \in CommandEvents : push'[e] = push[e]
        /\ UNCHANGED rollup \/ rollup' = [rollup EXCEPT !.mediation_active = TRUE]
    BY OtherStepFrame DEF RollupInv
  <1>2. CommandsOnce'
    <2>1. CommandLog \subseteq CommandEvents
      BY DEF CommandLog
    <2> QED BY <1>1, <2>1 DEF RollupInv, CommandsOnce
  <1>3. /\ DOMAIN rollup' = RollupFields /\ rollup'.truncated = rollup.truncated
        /\ rollup'.event_count = rollup.event_count
        /\ rollup'.invocation_count = rollup.invocation_count /\ rollup'.commands = rollup.commands
    BY <1>1 DEF RollupInv, RollupCounts, RollupFields
  <1>4. \A c : Counts(c)' = Counts(c)
    BY <1>1 DEF Counts, About
  <1>5. Settled' = Settled
    BY DEF Settled
  <1>6. RollupCounts'
    BY <1>1, <1>3, <1>4, <1>5 DEF RollupInv, RollupCounts
  <1> QED BY <1>2, <1>6 DEF RollupInv

\* What observe does to each field.
LEMMA ObservedFields ==
  ASSUME DOMAIN rollup = RollupFields, NEW e
  PROVE  LET c == CommandOf[e]
             r == Observed(e)
         IN  /\ DOMAIN r = RollupFields /\ r.event_count = rollup.event_count + 1
             /\ r.invocation_count = IF OutcomeOf[e] = "Pending" THEN rollup.invocation_count
                                     ELSE rollup.invocation_count + 1
             /\ OutcomeOf[e] = "Pending" =>
                  r.commands = rollup.commands /\ r.truncated = rollup.truncated
             /\ OutcomeOf[e] # "Pending" =>
                  \/ r.truncated = TRUE
                  \/ /\ r.truncated = rollup.truncated
                     /\ r.commands = [d \in DOMAIN rollup.commands \cup {c} |->
                                        IF d = c THEN Bump(Entry(c), OutcomeOf[e])
                                                 ELSE rollup.commands[d]]
  <1> DEFINE c == CommandOf[e]
             Full == c \notin DOMAIN rollup.commands
                       /\ Cardinality(DOMAIN rollup.commands) >= MaxCommands
             totals == [rollup EXCEPT
                !.event_count = @ + 1,
                !.invocation_count = IF OutcomeOf[e] = "Pending" THEN @ ELSE @ + 1]
             named == [d \in DOMAIN rollup.commands \cup {c} |->
                          IF d = c THEN Bump(Entry(c), OutcomeOf[e]) ELSE rollup.commands[d]]
  <1>1. Observed(e) = IF OutcomeOf[e] = "Pending" THEN totals
                      ELSE IF Full THEN [totals EXCEPT !.truncated = TRUE]
                      ELSE [totals EXCEPT !.commands = named]
    BY DEF Observed
  <1>2. /\ DOMAIN totals = RollupFields /\ totals.event_count = rollup.event_count + 1
        /\ totals.invocation_count = IF OutcomeOf[e] = "Pending" THEN rollup.invocation_count
                                     ELSE rollup.invocation_count + 1
        /\ totals.commands = rollup.commands /\ totals.truncated = rollup.truncated
    BY DEF RollupFields
  <1> HIDE DEF totals, named, Full
  <1>3. CASE OutcomeOf[e] = "Pending"
    BY <1>1, <1>2, <1>3
  <1>4. CASE OutcomeOf[e] # "Pending" /\ Full
    <2>1. Observed(e) = [totals EXCEPT !.truncated = TRUE]
      BY <1>1, <1>4
    <2>2. /\ DOMAIN Observed(e) = RollupFields /\ Observed(e).truncated = TRUE
          /\ Observed(e).event_count = totals.event_count
          /\ Observed(e).invocation_count = totals.invocation_count
      BY <1>2, <2>1 DEF RollupFields
    <2> QED BY <1>2, <1>4, <2>2
  <1>5. CASE OutcomeOf[e] # "Pending" /\ ~Full
    <2>1. Observed(e) = [totals EXCEPT !.commands = named]
      BY <1>1, <1>5
    <2>2. /\ DOMAIN Observed(e) = RollupFields /\ Observed(e).truncated = totals.truncated
          /\ Observed(e).event_count = totals.event_count
          /\ Observed(e).invocation_count = totals.invocation_count
          /\ Observed(e).commands = named
      BY <1>2, <2>1 DEF RollupFields
    <2> QED BY <1>2, <1>5, <2>2 DEF named
  <1> QED BY <1>3, <1>4, <1>5

\* One more logged event changes the counts of its own command only, and those
\* as Bump does.
LEMMA CountsGrow ==
  ASSUME AuditConstants, CommandsOnce, NEW e \in CommandEvents, e \notin CommandLog,
         CommandLog' = CommandLog \cup {e}
  PROVE  /\ Cardinality(CommandLog') = Cardinality(CommandLog) + 1
         /\ Cardinality(CommandLog' \cap Settled) =
              IF OutcomeOf[e] = "Pending" THEN Cardinality(CommandLog \cap Settled)
              ELSE Cardinality(CommandLog \cap Settled) + 1
         /\ \A c : c # CommandOf[e] \/ OutcomeOf[e] = "Pending" => Counts(c)' = Counts(c)
         /\ OutcomeOf[e] # "Pending" =>
              Counts(CommandOf[e])' = Bump(Counts(CommandOf[e]), OutcomeOf[e])
  <1>1. IsFiniteSet(CommandLog)
    BY DEF CommandsOnce
  <1>2. Cardinality(CommandLog') = Cardinality(CommandLog) + 1
    BY <1>1, FS_AddElement
  <1>3. e \in Settled <=> OutcomeOf[e] # "Pending"
    BY DEF Settled
  <1>4. Cardinality(CommandLog' \cap Settled) =
              IF OutcomeOf[e] = "Pending" THEN Cardinality(CommandLog \cap Settled)
              ELSE Cardinality(CommandLog \cap Settled) + 1
    BY <1>1, <1>3, CountGrows
  <1>5. \A c, o : e \in About(c, o) <=> CommandOf[e] = c /\ OutcomeOf[e] = o
    BY DEF About
  <1>6. \A c, o : Cardinality(CommandLog' \cap About(c, o)) =
                    IF CommandOf[e] = c /\ OutcomeOf[e] = o
                    THEN Cardinality(CommandLog \cap About(c, o)) + 1
                    ELSE Cardinality(CommandLog \cap About(c, o))
    <2> SUFFICES ASSUME NEW c, NEW o
                 PROVE  Cardinality(CommandLog' \cap About(c, o)) =
                          IF CommandOf[e] = c /\ OutcomeOf[e] = o
                          THEN Cardinality(CommandLog \cap About(c, o)) + 1
                          ELSE Cardinality(CommandLog \cap About(c, o))
      OBVIOUS
    <2>1. Cardinality((CommandLog \cup {e}) \cap About(c, o)) =
            IF e \in About(c, o) THEN Cardinality(CommandLog \cap About(c, o)) + 1
            ELSE Cardinality(CommandLog \cap About(c, o))
      BY <1>1, CountGrows
    <2> QED BY <1>5, <2>1
  <1>7. \A c, o : About(c, o)' = About(c, o)
    BY DEF About
  <1>8. ASSUME NEW c
        PROVE  Counts(c)' = [allowed |-> Cardinality(CommandLog' \cap About(c, "Allowed")),
                             denied |-> Cardinality(CommandLog' \cap About(c, "Denied")),
                             other |-> Cardinality(CommandLog' \cap About(c, "Other"))]
    BY <1>7 DEF Counts
  <1>9. ASSUME NEW c, c # CommandOf[e] \/ OutcomeOf[e] = "Pending" PROVE Counts(c)' = Counts(c)
    <2>1. /\ Cardinality(CommandLog' \cap About(c, "Allowed"))
               = Cardinality(CommandLog \cap About(c, "Allowed"))
          /\ Cardinality(CommandLog' \cap About(c, "Denied"))
               = Cardinality(CommandLog \cap About(c, "Denied"))
          /\ Cardinality(CommandLog' \cap About(c, "Other"))
               = Cardinality(CommandLog \cap About(c, "Other"))
      BY <1>6, <1>9
    <2> QED BY <1>8, <2>1 DEF Counts
  <1>10. ASSUME OutcomeOf[e] # "Pending"
         PROVE  Counts(CommandOf[e])' = Bump(Counts(CommandOf[e]), OutcomeOf[e])
    <2> DEFINE c == CommandOf[e]
               a == Cardinality(CommandLog \cap About(c, "Allowed"))
               d == Cardinality(CommandLog \cap About(c, "Denied"))
               t == Cardinality(CommandLog \cap About(c, "Other"))
               A == Cardinality(CommandLog' \cap About(c, "Allowed"))
               D == Cardinality(CommandLog' \cap About(c, "Denied"))
               T == Cardinality(CommandLog' \cap About(c, "Other"))
    <2>1. OutcomeOf[e] \in {"Allowed", "Denied", "Other"}
      BY <1>10 DEF AuditConstants, Outcomes
    <2>2. /\ A = IF OutcomeOf[e] = "Allowed" THEN a + 1 ELSE a
          /\ D = IF OutcomeOf[e] = "Denied" THEN d + 1 ELSE d
          /\ T = IF OutcomeOf[e] = "Other" THEN t + 1 ELSE t
      BY <1>6
    <2>3. Counts(c) = [allowed |-> a, denied |-> d, other |-> t]
      BY DEF Counts
    <2>4. Counts(c)' = [allowed |-> A, denied |-> D, other |-> T]
      BY <1>8
    <2> HIDE DEF a, d, t, A, D, T
    <2>5. Bump(Counts(c), OutcomeOf[e]) = [allowed |-> A, denied |-> D, other |-> T]
      <3>1. CASE OutcomeOf[e] = "Allowed"
        BY <2>2, <2>3, <3>1 DEF Bump
      <3>2. CASE OutcomeOf[e] = "Denied"
        BY <2>2, <2>3, <3>2 DEF Bump
      <3>3. CASE OutcomeOf[e] = "Other"
        BY <2>2, <2>3, <3>3 DEF Bump
      <3> QED BY <2>1, <3>1, <3>2, <3>3
    <2> QED BY <2>4, <2>5
  <1> QED BY <1>2, <1>4, <1>9, <1>10

\* A mediation thread records its event and observes it under one lock, or
\* does neither.
LEMMA CommandStepKeeps ==
  ASSUME AuditConstants, RollupInv, NEW e \in CommandEvents, record_command_policy_event(e)
  PROVE  RollupInv'
  <1> DEFINE c == CommandOf[e]
             r == Observed(e)
  <1>1. /\ leaf_hashes \in Seq(Payloads) /\ IsFiniteSet(CommandLog) /\ e \in DOMAIN push
        /\ DOMAIN rollup = RollupFields
        /\ DOMAIN push = NetworkEvents \cup DecisionEvents \cup CommandEvents
        /\ \A f \in CommandLog : push[f] = "recorded"
    BY DEF RollupInv, CommandsOnce, RollupCounts
  <1>2. push[e] = "idle" /\ e \notin CommandLog
    BY <1>1 DEF record_command_policy_event
  <1>3. \/ /\ leaf_hashes' = Append(leaf_hashes, e) /\ rollup' = r
           /\ push' = [push EXCEPT ![e] = "recorded"]
        \/ UNCHANGED <<leaf_hashes, rollup>> /\ push' = [push EXCEPT ![e] = "rejected"]
    BY ErrorKeepsLeaves DEF record_command_policy_event, append_event, Advance
  <1> HIDE DEF r
  <1>4. CASE UNCHANGED <<leaf_hashes, rollup>> /\ push' = [push EXCEPT ![e] = "rejected"]
    <2>1. CommandLog' = CommandLog
      BY <1>4 DEF CommandLog, InLog, Elems
    <2>2. CommandsOnce'
      BY <1>1, <1>2, <1>4, <2>1 DEF CommandsOnce
    <2>3. (\A d : Counts(d)' = Counts(d)) /\ Settled' = Settled
      BY <2>1 DEF Counts, About, Settled
    <2>4. RollupCounts'
      BY <1>4, <2>1, <2>3 DEF RollupInv, RollupCounts
    <2> QED BY <2>2, <2>4 DEF RollupInv
  <1>5. CASE /\ leaf_hashes' = Append(leaf_hashes, e) /\ rollup' = r
             /\ push' = [push EXCEPT ![e] = "recorded"]
    <2>1. e \in Payloads
      BY DEF Payloads
    <2>2. leaf_hashes' \in Seq(Payloads) /\ CommandLog' = CommandLog \cup {e}
      BY <1>1, <1>5, <2>1, OtherLeaf
    <2>3. IsFiniteSet(CommandLog')
      BY <1>1, <2>2, FS_AddElement
    <2>4. CommandsOnce'
      BY <1>1, <1>5, <2>2, <2>3 DEF CommandsOnce
    <2>5. /\ Cardinality(CommandLog') = Cardinality(CommandLog) + 1
          /\ Cardinality(CommandLog' \cap Settled) =
               IF OutcomeOf[e] = "Pending" THEN Cardinality(CommandLog \cap Settled)
               ELSE Cardinality(CommandLog \cap Settled) + 1
          /\ \A d : d # c \/ OutcomeOf[e] = "Pending" => Counts(d)' = Counts(d)
          /\ OutcomeOf[e] # "Pending" => Counts(c)' = Bump(Counts(c), OutcomeOf[e])
      BY <1>2, <2>2, CountsGrow DEF RollupInv
    <2>6. /\ DOMAIN r = RollupFields /\ r.event_count = rollup.event_count + 1
          /\ r.invocation_count = IF OutcomeOf[e] = "Pending" THEN rollup.invocation_count
                                  ELSE rollup.invocation_count + 1
          /\ OutcomeOf[e] = "Pending" =>
               r.commands = rollup.commands /\ r.truncated = rollup.truncated
          /\ OutcomeOf[e] # "Pending" =>
               \/ r.truncated = TRUE
               \/ /\ r.truncated = rollup.truncated
                  /\ r.commands = [d \in DOMAIN rollup.commands \cup {c} |->
                                     IF d = c THEN Bump(Entry(c), OutcomeOf[e])
                                              ELSE rollup.commands[d]]
      BY <1>1, ObservedFields DEF r
    <2>7. r.event_count = Cardinality(CommandLog') /\ r.truncated \in BOOLEAN
          /\ r.invocation_count = Cardinality(CommandLog' \cap Settled)
      BY <2>5, <2>6 DEF RollupInv, RollupCounts
    <2>8. e \in Settled <=> OutcomeOf[e] # "Pending"
      BY DEF Settled
    <2>9. ASSUME ~r.truncated
          PROVE  /\ \A d \in DOMAIN r.commands : r.commands[d] = Counts(d)'
                 /\ \A f \in CommandLog' \cap Settled : CommandOf[f] \in DOMAIN r.commands
      <3>1. ~rollup.truncated
        BY <2>6, <2>9
      <3>2. /\ \A d \in DOMAIN rollup.commands : rollup.commands[d] = Counts(d)
            /\ \A f \in CommandLog \cap Settled : CommandOf[f] \in DOMAIN rollup.commands
        BY <3>1 DEF RollupInv, RollupCounts
      <3>3. CASE OutcomeOf[e] = "Pending"
        BY <2>2, <2>5, <2>6, <2>8, <3>2, <3>3
      <3>4. CASE OutcomeOf[e] # "Pending"
        <4>1. r.commands = [d \in DOMAIN rollup.commands \cup {c} |->
                              IF d = c THEN Bump(Entry(c), OutcomeOf[e]) ELSE rollup.commands[d]]
          BY <2>6, <2>9, <3>4
        <4>2. Entry(c) = Counts(c)
          <5>1. CASE c \in DOMAIN rollup.commands
            BY <3>2, <5>1 DEF Entry
          <5>2. CASE c \notin DOMAIN rollup.commands
            <6>1. ASSUME NEW o \in {"Allowed", "Denied", "Other"}
                  PROVE  Cardinality(CommandLog \cap About(c, o)) = 0
              <7>1. CommandLog \cap About(c, o) = {}
                BY <3>2, <5>2 DEF About, Settled
              <7> QED BY <7>1, FS_EmptySet
            <6> QED BY <5>2, <6>1 DEF Entry, Counts
          <5> QED BY <5>1, <5>2
        <4>3. /\ DOMAIN r.commands = DOMAIN rollup.commands \cup {c}
              /\ r.commands[c] = Bump(Counts(c), OutcomeOf[e])
              /\ \A d \in DOMAIN rollup.commands \ {c} : r.commands[d] = rollup.commands[d]
          BY <4>1, <4>2
        <4>4. \A d \in DOMAIN r.commands : r.commands[d] = Counts(d)'
          BY <2>5, <3>2, <3>4, <4>3
        <4>5. \A f \in CommandLog' \cap Settled : CommandOf[f] \in DOMAIN r.commands
          BY <2>2, <3>2, <4>3
        <4> QED BY <4>4, <4>5
      <3> QED BY <3>3, <3>4
    <2>10. Settled' = Settled
      BY DEF Settled
    <2>11. RollupCounts'
      BY <1>5, <2>6, <2>7, <2>9, <2>10 DEF RollupCounts
    <2> QED BY <2>4, <2>11 DEF RollupInv
  <1> QED BY <1>3, <1>4, <1>5

\* The log and the rollup stay in step.
THEOREM RollupInvariant == AuditConstants /\ Spec => []RollupInv
  <1> DEFINE I == AuditConstants /\ RollupInv
  <1>1. AuditConstants /\ Init => I
    <2> SUFFICES ASSUME AuditConstants, Init PROVE RollupInv
      OBVIOUS
    <2>1. /\ leaf_hashes = <<>> /\ rollup = EmptyRollup
          /\ DOMAIN push = NetworkEvents \cup DecisionEvents \cup CommandEvents
      BY DEF Init, NetworkEvents
    <2>2. CommandLog = {}
      BY <2>1 DEF CommandLog, InLog, Elems
    <2>3. CommandsOnce
      BY <2>1, <2>2, FS_EmptySet DEF CommandsOnce
    <2>4. /\ DOMAIN rollup = RollupFields /\ rollup.truncated = FALSE /\ rollup.event_count = 0
          /\ rollup.invocation_count = 0 /\ DOMAIN rollup.commands = {}
      BY <2>1 DEF EmptyRollup, RollupFields
    <2>5. Cardinality(CommandLog) = 0 /\ Cardinality(CommandLog \cap Settled) = 0
      <3>1. CommandLog \cap Settled = {}
        BY <2>2
      <3> QED BY <2>2, <3>1, FS_EmptySet
    <2>6. RollupCounts
      BY <2>2, <2>4, <2>5 DEF RollupCounts
    <2> QED BY <2>3, <2>6 DEF RollupInv
  <1>2. I /\ NetInv /\ [Next]_vars => I'
    <2> SUFFICES ASSUME I, NetInv, [Next]_vars PROVE I'
      OBVIOUS
    <2>1. RollupInv'
      BY CommandStepKeeps, OtherStepKeeps
    <2> QED BY <2>1
  <1>3. I => RollupInv
    OBVIOUS
  <1> HIDE DEF I
  <1> QED BY <1>1, <1>2, <1>3, NetworkEventsFollowed, PTL DEF Spec

\* The rollup of session.json counts exactly the command-policy events the log
\* holds, whichever appends fail and whenever it stops naming commands.
THEOREM RollupCountsTheLog == AuditConstants /\ Spec => []RollupMatchesLog
  <1>1. AuditInv /\ RollupInv => RollupMatchesLog
    <2> SUFFICES ASSUME AuditInv, RollupInv, ~torn_write
                 PROVE  /\ rollup.event_count = Cardinality(Logged)
                        /\ rollup.invocation_count
                             = Cardinality({e \in Logged : OutcomeOf[e] # "Pending"})
                        /\ \A c \in DOMAIN rollup.commands : ~rollup.truncated =>
                             rollup.commands[c] = [allowed |-> LoggedAs(c, "Allowed"),
                                                   denied |-> LoggedAs(c, "Denied"),
                                                   other |-> LoggedAs(c, "Other")]
                        /\ ~rollup.truncated => \A e \in Logged :
                             OutcomeOf[e] # "Pending" => CommandOf[e] \in DOMAIN rollup.commands
      BY DEF RollupMatchesLog
    <2>1. Logged = CommandLog
      BY DEF AuditInv, RecorderInStep, Linked, Logged, CommandLog, InLog, Elems
    <2>2. {e \in Logged : OutcomeOf[e] # "Pending"} = CommandLog \cap Settled
      BY <2>1 DEF Settled, CommandLog
    <2>3. ASSUME NEW c, NEW o PROVE LoggedAs(c, o) = Cardinality(CommandLog \cap About(c, o))
      <3>1. {e \in Logged : CommandOf[e] = c /\ OutcomeOf[e] = o} = CommandLog \cap About(c, o)
        BY <2>1 DEF About, CommandLog
      <3> QED BY <3>1 DEF LoggedAs
    <2>4. \A c : Counts(c) = [allowed |-> LoggedAs(c, "Allowed"), denied |-> LoggedAs(c, "Denied"),
                              other |-> LoggedAs(c, "Other")]
      BY <2>3 DEF Counts
    <2> QED BY <2>1, <2>2, <2>4 DEF RollupInv, RollupCounts
  <1> QED BY <1>1, AuditInvariant, RollupInvariant, PTL
=============================================================================
