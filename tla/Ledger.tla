------------------------------- MODULE Ledger -------------------------------
(***************************************************************************)
(* The global audit ledger, shared by all nono processes of a user:        *)
(* append_session under an flock (crates/nono-cli/src/audit_ledger.rs), the *)
(* migration of a legacy ledger (state_paths.rs), the record format and    *)
(* its verification (crates/nono/src/audit.rs), and the exit status a run  *)
(* reports (supervised_runtime.rs).                                        *)
(*                                                                         *)
(* A chain hash is the sequence of the sessions it commits to. The ledger  *)
(* is a sequence of lines, and a line a sequence of records, whole or cut  *)
(* short: a process that dies or fails between a record and its newline    *)
(* leaves a line the next append continues.                                *)
(***************************************************************************)
EXTENDS Naturals, Sequences, FiniteSets

CONSTANTS
    Sessions,          \* nono processes, each finalizing one session
    LegacySessions,    \* a sequence: what the legacy ledger holds, <<>> if absent
    MaxFaults          \* bound on failing writes and dying processes

LedgerConstants ==
    /\ MaxFaults \in Nat
    /\ LegacySessions \in Seq(STRING)

VARIABLES
    exists,        \* ledger.ndjson exists at the current root
    lines,         \* its lines
    unterminated,  \* its last line has no newline yet
    tmp,           \* ledger.ndjson.tmp: "none", "partial" or "copied"
    lock,          \* the holders of the flock on ledger.lock
    pc,            \* per process: the step it is at
    tail,          \* per process: what it read from the ledger
    child,         \* per process: exit status of the command it ran
    reported,      \* per process: the status it exits with
    faults,
    cut_short,     \* history: an append stopped before its newline
    newline_lost   \* history: ... after all of the record was written

file == <<exists, lines, unterminated>>
history == <<cut_short, newline_lost>>
vars == <<exists, lines, unterminated, tmp, lock, pc, tail, child, reported,
          faults, cut_short, newline_lost>>

Ids == Sessions \cup {LegacySessions[i] : i \in 1..Len(LegacySessions)}
Chains == Seq(Ids)
LedgerRecord ==
    [sequence : Nat, prev_chain : Chains, session_id : Ids, chain_hash : Chains,
     whole : BOOLEAN]
Statuses == {"running", "zero", "nonzero"}
Steps == {"running", "finalizing", "locked", "copying", "copied", "migrated", "read",
          "appended", "synced", "failed", "released", "exited", "dead"}

TypeOK ==
    /\ exists \in BOOLEAN
    /\ lines \in Seq(Seq(LedgerRecord))
    /\ unterminated \in BOOLEAN
    /\ tmp \in {"none", "partial", "copied"}
    /\ lock \in SUBSET Sessions
    /\ pc \in [Sessions -> Steps]
    /\ tail \in [Sessions -> [next_sequence : Nat, previous_chain : Chains]]
    /\ child \in [Sessions -> {"zero", "nonzero"}]
    /\ reported \in [Sessions -> Statuses]
    /\ faults \in 0..MaxFaults
    /\ cut_short \in BOOLEAN
    /\ newline_lost \in BOOLEAN

-----------------------------------------------------------------------------
(* Records and lines                                                       *)

hash_ledger_link(previous, id) == Append(previous, id)

Link(t, id) ==
    [sequence |-> t.next_sequence, prev_chain |-> t.previous_chain,
     session_id |-> id, chain_hash |-> hash_ledger_link(t.previous_chain, id),
     whole |-> TRUE]

Torn(record) == [record EXCEPT !.whole = FALSE]

Written(item) ==
    IF unterminated THEN [lines EXCEPT ![Len(lines)] = Append(@, item)]
                    ELSE Append(lines, <<item>>)

Parses(line) == Len(line) = 1 /\ line[1].whole
LedgerParses == \A i \in 1..Len(lines) : Parses(lines[i])

(* The legacy ledger is a ledger: its lines are chained from the start.    *)
LegacyLines ==
    [i \in 1..Len(LegacySessions) |->
        <<Link([next_sequence |-> i - 1,
                previous_chain |-> SubSeq(LegacySessions, 1, i - 1)],
               LegacySessions[i])>>]

(* What an append learns from reading the whole ledger.                    *)
LedgerTail ==
    IF lines = <<>> THEN [next_sequence |-> 0, previous_chain |-> <<>>]
    ELSE LET last == lines[Len(lines)][1]
         IN  [next_sequence |-> last.sequence + 1, previous_chain |-> last.chain_hash]

(* verify_session_in_ledger_reader                                         *)
ChainBefore(i) == IF i = 1 THEN <<>> ELSE lines[i - 1][1].chain_hash

LedgerChainVerified ==
    \A i \in 1..Len(lines) :
        /\ Parses(lines[i])
        /\ lines[i][1].sequence = i - 1
        /\ lines[i][1].prev_chain = ChainBefore(i)
        /\ lines[i][1].chain_hash = hash_ledger_link(ChainBefore(i), lines[i][1].session_id)

SessionFound(id) == \E i \in 1..Len(lines) : lines[i][1].session_id = id

-----------------------------------------------------------------------------
Init ==
    /\ exists = FALSE /\ lines = <<>> /\ unterminated = FALSE
    /\ tmp = "none" /\ lock = {}
    /\ pc = [s \in Sessions |-> "running"]
    /\ tail = [s \in Sessions |-> [next_sequence |-> 0, previous_chain |-> <<>>]]
    /\ child \in [Sessions -> {"zero", "nonzero"}]
    /\ reported = [s \in Sessions |-> "running"]
    /\ faults = 0 /\ cut_short = FALSE /\ newline_lost = FALSE

Goto(s, step) == pc' = [pc EXCEPT ![s] = step]
Fault == faults < MaxFaults /\ faults' = faults + 1

(* The session's log, metadata and attestation are written, or finalizing  *)
(* returns the error that kept them from being written.                    *)
write_session_metadata(s) ==
    /\ pc[s] = "running"
    /\ \/ Goto(s, "finalizing") /\ UNCHANGED faults
       \/ Goto(s, "failed") /\ Fault
    /\ UNCHANGED <<file, tmp, lock, tail, child, reported, history>>

(* A plausible bug: a shared lock, as a reader would take.                 *)
acquire_shared(s) ==
    /\ pc[s] = "finalizing"
    /\ lock' = lock \cup {s}
    /\ Goto(s, "locked")
    /\ UNCHANGED <<file, tmp, tail, child, reported, faults, history>>

acquire(s) ==
    /\ pc[s] = "finalizing"
    /\ \/ lock = {} /\ lock' = {s} /\ Goto(s, "locked") /\ UNCHANGED faults
       \/ UNCHANGED lock /\ Goto(s, "failed") /\ Fault
    /\ UNCHANGED <<file, tmp, tail, child, reported, history>>

(* maybe_migrate_legacy_audit_ledger: nothing to do, or copy, then rename. *)
NeedsMigration == ~exists /\ LegacySessions # <<>>

begin_migration(s) ==
    /\ pc[s] = "locked"
    /\ IF NeedsMigration
       THEN tmp' = "partial" /\ Goto(s, "copying")  \* a stale one is replaced
       ELSE UNCHANGED tmp /\ Goto(s, "migrated")
    /\ UNCHANGED <<file, lock, tail, child, reported, faults, history>>

(* A plausible bug: failing to copy the old ledger does not stop the append. *)
copy_legacy_best_effort(s) ==
    /\ pc[s] = "copying"
    /\ \/ tmp' = "copied" /\ Goto(s, "copied") /\ UNCHANGED faults
       \/ tmp' = "none" /\ Goto(s, "migrated") /\ Fault
    /\ UNCHANGED <<file, lock, tail, child, reported, history>>

copy_legacy(s) ==
    /\ pc[s] = "copying"
    /\ \/ tmp' = "copied" /\ Goto(s, "copied") /\ UNCHANGED faults
       \/ tmp' = "none" /\ Goto(s, "failed") /\ Fault
    /\ UNCHANGED <<file, lock, tail, child, reported, history>>

rename_migrated(s) ==
    /\ pc[s] = "copied"
    /\ \/ /\ exists' = TRUE /\ lines' = LegacyLines /\ unterminated' = FALSE
          /\ Goto(s, "migrated")
          /\ UNCHANGED faults
       \/ Goto(s, "failed") /\ Fault /\ UNCHANGED file
    /\ tmp' = "none"
    /\ UNCHANGED <<lock, tail, child, reported, history>>

(* Open (creating it), read and parse every line.                          *)
read_ledger(s) ==
    /\ pc[s] = "migrated"
    /\ exists' = TRUE
    /\ IF LedgerParses
       THEN tail' = [tail EXCEPT ![s] = LedgerTail] /\ Goto(s, "read")
       ELSE UNCHANGED tail /\ Goto(s, "failed")    \* AuditLedgerCorrupt
    /\ UNCHANGED <<lines, unterminated, tmp, lock, child, reported, faults, history>>

append_record(s) ==
    /\ pc[s] = "read"
    /\ \/ /\ lines' = Written(Link(tail[s], s))
          /\ unterminated' = TRUE
          /\ Goto(s, "appended")
          /\ UNCHANGED <<faults, history>>
       \/ /\ Goto(s, "failed") /\ Fault
          /\ UNCHANGED <<lines, unterminated, history>>
       \/ /\ lines' = Written(Torn(Link(tail[s], s)))
          /\ unterminated' = TRUE
          /\ Goto(s, "failed") /\ Fault
          /\ cut_short' = TRUE
          /\ UNCHANGED newline_lost
    /\ UNCHANGED <<exists, tmp, lock, tail, child, reported>>

append_newline(s) ==
    /\ pc[s] = "appended"
    /\ \/ /\ unterminated' = FALSE
          /\ Goto(s, "synced")
          /\ UNCHANGED <<faults, history>>
       \/ /\ Goto(s, "failed") /\ Fault
          /\ cut_short' = TRUE
          /\ newline_lost' = TRUE
          /\ UNCHANGED unterminated
    /\ UNCHANGED <<exists, lines, tmp, lock, tail, child, reported>>

(* sync_data may fail after the record is in place.                        *)
sync_data(s) ==
    /\ pc[s] = "synced"
    /\ \/ Goto(s, "released") /\ UNCHANGED faults
       \/ Goto(s, "failed") /\ Fault
    /\ UNCHANGED <<file, tmp, lock, tail, child, reported, history>>

(* The lock is dropped with its guard, and the run's status follows from   *)
(* whether the bookkeeping, this append included, was completed.           *)
report(s) ==
    /\ pc[s] \in {"released", "failed"}
    /\ lock' = lock \ {s}
    /\ reported' = [reported EXCEPT ![s] =
                      IF pc[s] = "released" THEN child[s] ELSE "nonzero"]
    /\ Goto(s, "exited")
    /\ UNCHANGED <<file, tmp, tail, child, faults, history>>

(* A process can be killed anywhere; the kernel drops its flock.           *)
Die(s) ==
    /\ pc[s] \notin {"exited", "dead"}
    /\ Fault
    /\ Goto(s, "dead")
    /\ lock' = lock \ {s}
    /\ cut_short' = (cut_short \/ pc[s] = "appended")
    /\ newline_lost' = (newline_lost \/ pc[s] = "appended")
    /\ UNCHANGED <<file, tmp, tail, child, reported>>

Step(s) ==
    \/ acquire(s) \/ begin_migration(s) \/ copy_legacy(s) \/ rename_migrated(s) \/ read_ledger(s)
    \/ append_record(s) \/ append_newline(s) \/ sync_data(s) \/ report(s)

Next == \E s \in Sessions : write_session_metadata(s) \/ Step(s) \/ Die(s)

Spec == Init /\ [][Next]_vars

(* Processes are scheduled. A command may run for ever, none need die.     *)
FairSpec == Spec /\ \A s \in Sessions : WF_vars(Step(s))

-----------------------------------------------------------------------------
(* Properties                                                              *)

(* While no append was cut short, the ledger verifies from end to end,     *)
(* whatever processes append at once, fail or die in between.              *)
LedgerVerifies == ~cut_short => LedgerChainVerified

(* A ledger at the new location holds every session of the legacy one, in  *)
(* place, so that moving the state directory loses no history.             *)
MigrationKeepsHistory ==
    exists /\ ~cut_short =>
        /\ Len(lines) >= Len(LegacyLines)
        /\ \A i \in 1..Len(LegacyLines) : lines[i] = LegacyLines[i]

RecordedAlone(s) == \E i \in 1..Len(lines) : Parses(lines[i]) /\ lines[i][1].session_id = s

(* A run that exits with 0 is in the ledger, on a line of its own, unless  *)
(* an earlier append lost its newline; a torn record is detected.          *)
StatusZeroRecorded ==
    ~newline_lost => \A s \in Sessions : reported[s] = "zero" => RecordedAlone(s)

(* A recorded line is never changed: later appends only add lines, and a   *)
(* migration never overwrites.                                             *)
LedgerAppendOnly ==
    [][~newline_lost' =>
         \A i \in 1..Len(lines) : Parses(lines[i]) /\ (i < Len(lines) \/ ~unterminated)
            => i <= Len(lines') /\ lines'[i] = lines[i]]_vars

(* A process that started finalizing gets the lock and exits, or dies:     *)
(* neither a failed append nor a dead process keeps the lock.              *)
FinalizingEnds ==
    \A s \in Sessions : pc[s] = "finalizing" ~> pc[s] \in {"exited", "dead"}
=============================================================================
