---------------------------- MODULE LedgerProofs ----------------------------
(***************************************************************************)
(* Proofs about what nono processes share through files.  The ledger       *)
(* first, for any number of processes, any legacy ledger and any number of *)
(* failing writes and dying processes.  Then the parts of SharedFiles      *)
(* through their instances: the record of a session and the platform       *)
(* sign-in, for any number of commands, processes and crashes.             *)
(***************************************************************************)
EXTENDS Ledger, SharedFiles, TLAPS


\* The steps between taking the flock and leaving the append.
Critical == {"locked", "copying", "copied", "migrated", "read", "appended", "synced"}

LockExclusive == \A s \in Sessions : pc[s] \in Critical => lock = {s}
LostIsCut == newline_lost => cut_short
AbsentIsEmpty == ~exists => lines = <<>> /\ ~unterminated
OpenLineExists == unterminated => lines # <<>>

\* What a process knows of the file at each step of the migration.
MigrationSteps ==
    \A s \in Sessions :
        /\ pc[s] \in {"copying", "copied"} => ~exists
        /\ pc[s] = "migrated" => exists \/ LegacySessions = <<>>
        /\ pc[s] \in {"read", "appended", "synced"} => exists

\* What a process has read is still the end of the ledger when it appends.
TailIsCurrent == \A s \in Sessions : pc[s] = "read" => tail[s] = LedgerTail /\ LedgerParses

\* A line is left open only for its newline, or by a torn record that keeps
\* every later process from appending.
OpenOrTorn ==
    ~newline_lost /\ unterminated => (\E s \in Sessions : pc[s] = "appended") \/ ~LedgerParses

Recorded ==
    ~newline_lost => \A s \in Sessions :
        pc[s] \in {"appended", "synced", "released"} \/ reported[s] = "zero" => RecordedAlone(s)

Files == AbsentIsEmpty /\ OpenLineExists /\ MigrationSteps
Contents == TailIsCurrent /\ OpenOrTorn /\ Recorded /\ LedgerVerifies /\ MigrationKeepsHistory

LedgerInv == LedgerConstants /\ TypeOK /\ LockExclusive /\ LostIsCut /\ Files /\ Contents

-----------------------------------------------------------------------------
(* Sequences *)

\* Appending to a sequence.
LEMMA AppendFacts ==
  ASSUME NEW S, NEW q \in Seq(S), NEW e \in S
  PROVE  /\ Append(q, e) \in Seq(S) /\ Len(Append(q, e)) = Len(q) + 1 /\ Len(q) \in Nat
         /\ Append(q, e)[Len(q) + 1] = e
         /\ \A i \in 1 .. Len(q) : Append(q, e)[i] = q[i]
  OBVIOUS

\* The ids of the legacy ledger.
LEMMA LegacyFacts ==
  ASSUME LedgerConstants
  PROVE  /\ LegacySessions \in Seq(Ids) /\ Len(LegacySessions) \in Nat
         /\ DOMAIN LegacyLines = 1 .. Len(LegacySessions)
         /\ LegacyLines \in Seq(Seq(LedgerRecord)) /\ Len(LegacyLines) = Len(LegacySessions)
  <1>1. LegacySessions \in Seq(STRING) /\ Len(LegacySessions) \in Nat
    BY DEF LedgerConstants
  <1>2. \A i \in 1 .. Len(LegacySessions) : LegacySessions[i] \in Ids
    BY DEF Ids
  <1>3. LegacySessions \in Seq(Ids)
    BY <1>1, <1>2
  <1>4. ASSUME NEW i \in 1 .. Len(LegacySessions) PROVE LegacyLines[i] \in Seq(LedgerRecord)
    <2> DEFINE before == SubSeq(LegacySessions, 1, i - 1)
               id == LegacySessions[i]
               r == Link([next_sequence |-> i - 1, previous_chain |-> before], id)
    <2>1. before \in Seq(Ids) /\ id \in Ids /\ i - 1 \in Nat
      BY <1>1, <1>2, <1>3
    <2>2. Append(before, id) \in Seq(Ids)
      BY <2>1
    <2> HIDE DEF before, id
    <2>3. r \in LedgerRecord
      BY <2>1, <2>2 DEF Link, LedgerRecord, Chains, hash_ledger_link
    <2>4. LegacyLines[i] = <<r>>
      BY DEF LegacyLines, before, id
    <2> HIDE DEF r
    <2> QED BY <2>3, <2>4
  <1>5. DOMAIN LegacyLines = 1 .. Len(LegacySessions)
    BY DEF LegacyLines
  <1>6. LegacyLines = [i \in 1 .. Len(LegacySessions) |-> LegacyLines[i]]
    BY DEF LegacyLines
  <1>7. LegacyLines \in Seq(Seq(LedgerRecord)) /\ Len(LegacyLines) = Len(LegacySessions)
    BY <1>1, <1>4, <1>5, <1>6
  <1> QED BY <1>1, <1>3, <1>5, <1>7

\* The legacy ledger is chained from its first line.
LEMMA LegacyChained ==
  ASSUME LedgerConstants, NEW i \in 1 .. Len(LegacySessions)
  PROVE  /\ Parses(LegacyLines[i]) /\ LegacyLines[i][1].sequence = i - 1
         /\ LegacyLines[i][1].prev_chain = SubSeq(LegacySessions, 1, i - 1)
         /\ LegacyLines[i][1].session_id = LegacySessions[i]
         /\ LegacyLines[i][1].chain_hash = Append(SubSeq(LegacySessions, 1, i - 1), LegacySessions[i])
         /\ LegacyLines[i][1].chain_hash = SubSeq(LegacySessions, 1, i)
  <1> DEFINE before == SubSeq(LegacySessions, 1, i - 1)
             r == Link([next_sequence |-> i - 1, previous_chain |-> before], LegacySessions[i])
  <1>1. LegacyLines[i] = <<r>>
    BY DEF LegacyLines
  <1>2. /\ r.sequence = i - 1 /\ r.prev_chain = before /\ r.session_id = LegacySessions[i]
        /\ r.chain_hash = Append(before, LegacySessions[i]) /\ r.whole
    BY DEF Link, hash_ledger_link
  <1>3. Append(before, LegacySessions[i]) = SubSeq(LegacySessions, 1, i)
    BY DEF LedgerConstants
  <1> HIDE DEF r, before
  <1>4. Len(<<r>>) = 1 /\ <<r>>[1] = r
    OBVIOUS
  <1> QED BY <1>1, <1>2, <1>3, <1>4 DEF Parses, before
-----------------------------------------------------------------------------
(* The lock *)

\* A process that moves on.
LEMMA Moves ==
  ASSUME TypeOK, NEW s \in Sessions, NEW step \in Steps, Goto(s, step)
  PROVE  /\ pc' \in [Sessions -> Steps] /\ pc'[s] = step
         /\ \A q \in Sessions : q # s => pc'[q] = pc[q]
  BY DEF TypeOK, Goto

\* Each step of a process moves that process alone.
LEMMA OneMoves ==
  ASSUME TypeOK, NEW s \in Sessions, write_session_metadata(s) \/ Step(s) \/ Die(s)
  PROVE  \E step \in Steps : Goto(s, step)
  BY DEF write_session_metadata, Step, Die, acquire, begin_migration, copy_legacy,
         rename_migrated, read_ledger, append_record, append_newline, sync_data, report, Steps

\* The flock admits one process at a time: to the append and, with it, to the
\* migration.
LEMMA LockKept ==
  ASSUME TypeOK, LockExclusive, NEW s \in Sessions, write_session_metadata(s) \/ Step(s) \/ Die(s)
  PROVE  LockExclusive'
  <1>1. PICK step \in Steps : Goto(s, step)
    BY OneMoves
  <1>2. pc'[s] = step /\ \A q \in Sessions : q # s => pc'[q] = pc[q]
    BY <1>1, Moves
  <1>3. CASE lock' = lock /\ (pc[s] \in Critical \/ pc'[s] \notin Critical)
    BY <1>2, <1>3 DEF LockExclusive
  <1>4. CASE lock = {} /\ lock' = {s}
    BY <1>2, <1>4 DEF LockExclusive
  <1>5. CASE lock' = lock \ {s} /\ pc'[s] \notin Critical
    BY <1>2, <1>5 DEF LockExclusive
  <1>6. \A next : Goto(s, next) => pc'[s] = next
    BY DEF TypeOK, Goto
  <1> QED BY <1>3, <1>4, <1>5, <1>6 DEF write_session_metadata, Step, Die, acquire,
                                        begin_migration,
             copy_legacy, rename_migrated, read_ledger, append_record, append_newline, sync_data,
             report, Critical

\* A process in the critical section is alone in it.
LEMMA Alone ==
  ASSUME LockExclusive, NEW s \in Sessions, pc[s] \in Critical
  PROVE  \A q \in Sessions : q # s => pc[q] \notin Critical
  BY DEF LockExclusive

-----------------------------------------------------------------------------
(* Types *)

\* What an append writes is a record.
LEMMA LinkTyped ==
  ASSUME TypeOK, NEW s \in Sessions
  PROVE  Link(tail[s], s) \in LedgerRecord /\ Torn(Link(tail[s], s)) \in LedgerRecord
  <1>1. tail[s].next_sequence \in Nat /\ tail[s].previous_chain \in Seq(Ids) /\ s \in Ids
    BY DEF TypeOK, Chains, Ids
  <1>2. Append(tail[s].previous_chain, s) \in Seq(Ids)
    BY <1>1
  <1> QED BY <1>1, <1>2 DEF Link, Torn, LedgerRecord, Chains, hash_ledger_link

\* Writing an item continues the open line or starts a new one.
LEMMA WrittenFacts ==
  ASSUME TypeOK, OpenLineExists, NEW item \in LedgerRecord
  PROVE  /\ Written(item) \in Seq(Seq(LedgerRecord)) /\ Written(item) # <<>>
         /\ ~unterminated => Written(item) = Append(lines, <<item>>)
         /\ unterminated => /\ Len(Written(item)) = Len(lines)
                            /\ \A i \in 1 .. Len(lines) : i # Len(lines) => Written(item)[i] = lines[i]
  <1> DEFINE L == Seq(LedgerRecord)
  <1>0. lines \in Seq(L) /\ Len(lines) \in Nat
    BY DEF TypeOK
  <1>1. CASE ~unterminated
    <2>1. <<item>> \in L
      OBVIOUS
    <2>2. Written(item) = Append(lines, <<item>>)
      BY <1>1 DEF Written
    <2> HIDE DEF L
    <2> QED BY <1>0, <1>1, <2>1, <2>2 DEF L
  <1>2. CASE unterminated
    <2>1. Len(lines) \in 1 .. Len(lines)
      BY <1>0, <1>2 DEF OpenLineExists
    <2>2. lines[Len(lines)] \in L
      BY <1>0, <2>1
    <2> DEFINE line == Append(lines[Len(lines)], item)
    <2>3. line \in L
      BY <2>2
    <2>4. Written(item) = [lines EXCEPT ![Len(lines)] = line]
      BY <1>2 DEF Written
    <2> HIDE DEF line, L
    <2>5. Written(item) \in Seq(L) /\ Len(Written(item)) = Len(lines)
      BY <1>0, <2>1, <2>3, <2>4
    <2>6. \A i \in 1 .. Len(lines) : i # Len(lines) => Written(item)[i] = lines[i]
      BY <1>0, <2>1, <2>4
    <2>7. Written(item) # <<>>
      BY <1>0, <2>1, <2>5
    <2> QED BY <1>2, <2>5, <2>6, <2>7 DEF L
  <1> QED BY <1>1, <1>2

\* What an append learns from a ledger that parses.
LEMMA TailTyped ==
  ASSUME TypeOK, LedgerParses
  PROVE  LedgerTail \in [next_sequence : Nat, previous_chain : Chains]
  <1>1. CASE lines = <<>>
    BY <1>1 DEF LedgerTail, Chains
  <1>2. CASE lines # <<>>
    <2>1. lines \in Seq(Seq(LedgerRecord)) /\ Len(lines) \in 1 .. Len(lines)
      BY <1>2 DEF TypeOK
    <2>2. lines[Len(lines)] \in Seq(LedgerRecord) /\ Len(lines[Len(lines)]) = 1
      BY <2>1 DEF LedgerParses, Parses
    <2>3. lines[Len(lines)][1] \in LedgerRecord
      BY <2>2
    <2>4. /\ lines[Len(lines)][1].sequence \in Nat /\ lines[Len(lines)][1].chain_hash \in Chains
      BY <2>3 DEF LedgerRecord
    <2> QED BY <1>2, <2>4 DEF LedgerTail
  <1> QED BY <1>1, <1>2

\* Every step is typed.
LEMMA StepTyped ==
  ASSUME LedgerConstants, TypeOK, Files, NEW s \in Sessions,
         write_session_metadata(s) \/ Step(s) \/ Die(s)
  PROVE  TypeOK'
  <1>1. pc' \in [Sessions -> Steps]
    BY OneMoves, Moves
  <1>2. faults' \in 0 .. MaxFaults
    <2>1. faults' = faults \/ Fault
      BY DEF write_session_metadata, Step, Die, acquire, begin_migration, copy_legacy,
             rename_migrated, read_ledger, append_record, append_newline, sync_data, report
    <2> QED BY <2>1 DEF Fault, TypeOK, LedgerConstants
  <1>3. lines' \in Seq(Seq(LedgerRecord))
    <2>1. CASE lines' = lines
      BY <2>1 DEF TypeOK
    <2>2. CASE lines' = LegacyLines
      BY <2>2, LegacyFacts
    <2>3. CASE \E item \in LedgerRecord : lines' = Written(item)
      BY <2>3, WrittenFacts DEF Files
    <2>4. Link(tail[s], s) \in LedgerRecord /\ Torn(Link(tail[s], s)) \in LedgerRecord
      BY LinkTyped
    <2> QED BY <2>1, <2>2, <2>3, <2>4
            DEF write_session_metadata, Step, Die, acquire, begin_migration, copy_legacy,
                rename_migrated, read_ledger, append_record, append_newline, sync_data, report,
                file
  <1>4. tail' \in [Sessions -> [next_sequence : Nat, previous_chain : Chains]]
    <2> DEFINE T == [next_sequence : Nat, previous_chain : Chains]
    <2>1. tail' = tail \/ (LedgerParses /\ tail' = [tail EXCEPT ![s] = LedgerTail])
      BY DEF write_session_metadata, Step, Die, acquire, begin_migration, copy_legacy,
             rename_migrated, read_ledger, append_record, append_newline, sync_data, report
    <2>2. LedgerParses => LedgerTail \in T
      BY TailTyped
    <2>3. tail \in [Sessions -> T]
      BY DEF TypeOK
    <2> HIDE DEF T
    <2> QED BY <2>1, <2>2, <2>3 DEF T
  <1>5. lock' \in SUBSET Sessions
    BY DEF TypeOK, write_session_metadata, Step, Die, acquire, begin_migration,
           copy_legacy,
           rename_migrated, read_ledger, append_record, append_newline, sync_data, report
  <1>6. reported' \in [Sessions -> Statuses] /\ child' \in [Sessions -> {"zero", "nonzero"}]
    <2>1. child' = child
      BY DEF write_session_metadata, Step, Die, acquire, begin_migration, copy_legacy,
             rename_migrated, read_ledger, append_record, append_newline, sync_data, report
    <2>2. \/ reported' = reported
          \/ reported' = [reported EXCEPT ![s] = IF pc[s] = "released" THEN child[s] ELSE "nonzero"]
      BY DEF write_session_metadata, Step, Die, acquire, begin_migration, copy_legacy,
             rename_migrated, read_ledger, append_record, append_newline, sync_data, report
    <2> QED BY <2>1, <2>2 DEF TypeOK, Statuses
  <1>7. exists' \in BOOLEAN /\ unterminated' \in BOOLEAN /\ tmp' \in {"none", "partial", "copied"}
    BY DEF TypeOK, write_session_metadata, Step, Die, acquire, begin_migration,
           copy_legacy,
           rename_migrated, read_ledger, append_record, append_newline, sync_data, report, file
  <1>8. cut_short' \in BOOLEAN /\ newline_lost' \in BOOLEAN
    BY DEF TypeOK, write_session_metadata, Step, Die, acquire, begin_migration,
           copy_legacy,
           rename_migrated, read_ledger, append_record, append_newline, sync_data, report, history
  <1> QED BY <1>1, <1>2, <1>3, <1>4, <1>5, <1>6, <1>7, <1>8 DEF TypeOK
-----------------------------------------------------------------------------
(* Steps that leave the lines as they are *)

\* What such a step of a process may do: it adds no line, leaves a line open
\* only if its newline is lost, and moves on as the code does.
KeepsLines(s, step) ==
    /\ Goto(s, step) /\ UNCHANGED lines
    /\ unterminated' \in {unterminated, FALSE}
    /\ exists' = exists \/ (exists' /\ pc[s] = "migrated")
    /\ pc[s] = "appended" => newline_lost' \/ ~unterminated'
    /\ newline_lost => newline_lost'
    /\ cut_short => cut_short'
    /\ newline_lost' => cut_short'
    /\ step \in {"copying", "copied"} => ~exists'
    /\ step = "migrated" => exists' \/ LegacySessions = <<>>
    /\ step \in {"read", "synced"} => exists'
    /\ step = "read" => tail'[s] = LedgerTail /\ LedgerParses
    /\ \A q \in Sessions : q # s => tail'[q] = tail[q]
    /\ step # "appended"
    /\ step = "synced" => pc[s] = "appended"
    /\ step = "released" => pc[s] = "synced"
    /\ \A q \in Sessions : reported'[q] = "zero" =>
            reported[q] = "zero" \/ (q = s /\ pc[s] = "released")

\* Such a step keeps the rest of the invariant.
LEMMA KeepsLinesKept ==
  ASSUME LedgerInv, NEW s \in Sessions, NEW step \in Steps, KeepsLines(s, step)
  PROVE  LostIsCut' /\ Files' /\ Contents'
  <1>1. pc'[s] = step /\ \A q \in Sessions : q # s => pc'[q] = pc[q]
    BY Moves DEF LedgerInv, KeepsLines
  <1>2. LostIsCut'
    BY DEF KeepsLines, LostIsCut
  <1>3. pc[s] \in Critical => \A q \in Sessions : q # s => pc[q] \notin Critical
    BY Alone DEF LedgerInv
  <1>4. AbsentIsEmpty' /\ OpenLineExists'
    <2>1. ~exists' => ~exists
      BY DEF KeepsLines
    <2>2. unterminated' => unterminated
      BY DEF KeepsLines
    <2>3. lines' = lines
      BY DEF KeepsLines
    <2> QED BY <2>1, <2>2, <2>3 DEF LedgerInv, Files, AbsentIsEmpty, OpenLineExists
  <1>5. MigrationSteps'
    <2>1. exists => exists'
      BY DEF KeepsLines, LedgerInv, TypeOK
    <2>2. ASSUME NEW q \in Sessions, q # s, pc[q] \in {"copying", "copied"} PROVE exists' = exists
      BY <1>3, <2>2 DEF KeepsLines, Critical
    <2> QED BY <1>1, <2>1, <2>2 DEF LedgerInv, Files, MigrationSteps, KeepsLines
  <1>6. TailIsCurrent'
    BY <1>1 DEF LedgerInv, Contents, TailIsCurrent, KeepsLines, LedgerTail, LedgerParses
  <1>7. OpenOrTorn'
    <2>1. SUFFICES ASSUME ~newline_lost', unterminated', LedgerParses'
                   PROVE  \E q \in Sessions : pc'[q] = "appended"
      BY DEF OpenOrTorn
    <2>2. ~newline_lost /\ unterminated /\ LedgerParses /\ pc[s] # "appended"
      BY <2>1 DEF KeepsLines, LedgerParses
    <2>3. PICK q \in Sessions : pc[q] = "appended"
      BY <2>2 DEF LedgerInv, Contents, OpenOrTorn
    <2> QED BY <1>1, <2>2, <2>3
  <1>8. Recorded'
    <2>1. SUFFICES ASSUME ~newline_lost', NEW q \in Sessions,
                          pc'[q] \in {"appended", "synced", "released"} \/ reported'[q] = "zero"
                   PROVE  RecordedAlone(q)'
      BY DEF Recorded
    <2>2. ~newline_lost
      BY <2>1 DEF KeepsLines
    <2>3. pc[q] \in {"appended", "synced", "released"} \/ reported[q] = "zero"
      BY <1>1, <2>1 DEF KeepsLines
    <2>4. RecordedAlone(q)
      BY <2>2, <2>3 DEF LedgerInv, Contents, Recorded
    <2> QED BY <2>4 DEF RecordedAlone, KeepsLines
  <1>9. LedgerVerifies'
    BY DEF LedgerInv, Contents, LedgerVerifies, LedgerChainVerified, ChainBefore,
           KeepsLines
  <1>10. MigrationKeepsHistory'
    <2>1. SUFFICES ASSUME exists', ~cut_short' PROVE MigrationKeepsHistory'
      BY DEF MigrationKeepsHistory
    <2>2. CASE exists
      BY <2>1, <2>2 DEF LedgerInv, Contents, MigrationKeepsHistory, KeepsLines
    <2>3. CASE ~exists
      <3>1. LegacySessions = <<>>
        BY <2>1, <2>3 DEF KeepsLines, LedgerInv, Files, MigrationSteps, TypeOK
      <3>2. Len(LegacyLines) = 0 /\ Len(lines') \in Nat
        BY <3>1, LegacyFacts DEF LedgerInv, TypeOK, KeepsLines
      <3> QED BY <3>2 DEF MigrationKeepsHistory
    <2> QED BY <2>2, <2>3
  <1> QED BY <1>2, <1>4, <1>5, <1>6, <1>7, <1>8, <1>9, <1>10 DEF Files, Contents

\* The steps before the append, and after it.
LEMMA QuietStep ==
  ASSUME LedgerInv, NEW s \in Sessions,
         \/ write_session_metadata(s) \/ acquire(s) \/ begin_migration(s) \/ copy_legacy(s)
         \/ sync_data(s)
  PROVE  \E step \in Steps : KeepsLines(s, step)
  <1>1. /\ UNCHANGED file /\ UNCHANGED <<tail, reported, history>> /\ pc[s] # "appended"
        /\ newline_lost => cut_short
    BY DEF LedgerInv, LostIsCut, write_session_metadata, acquire, begin_migration,
           copy_legacy,
           sync_data
  <1>2. \/ \E step \in {"finalizing", "failed", "locked"} : Goto(s, step)
        \/ Goto(s, "copying") /\ ~exists
        \/ Goto(s, "migrated") /\ (exists \/ LegacySessions = <<>>)
        \/ Goto(s, "copied") /\ pc[s] = "copying"
        \/ Goto(s, "released") /\ pc[s] = "synced"
    BY DEF write_session_metadata, acquire, begin_migration, copy_legacy, sync_data,
           NeedsMigration
  <1>3. pc[s] = "copying" => ~exists
    BY DEF LedgerInv, Files, MigrationSteps
  <1> QED BY <1>1, <1>2, <1>3 DEF KeepsLines, Steps, file, history

\* Leaving, alive or dead: the flock is dropped, and only a released process
\* reports its command's status.
LEMMA LeavingStep ==
  ASSUME LedgerInv, NEW s \in Sessions, report(s) \/ Die(s)
  PROVE  \E step \in Steps : KeepsLines(s, step)
  <1>1. /\ UNCHANGED <<exists, lines, unterminated, tail>>
        /\ Goto(s, "exited") \/ Goto(s, "dead")
    BY DEF report, Die, file
  <1>2. /\ pc[s] = "appended" => newline_lost'
        /\ newline_lost => newline_lost'
        /\ cut_short => cut_short'
        /\ newline_lost' => cut_short'
    <2>1. newline_lost => cut_short
      BY DEF LedgerInv, LostIsCut
    <2>2. CASE report(s)
      BY <2>1, <2>2 DEF report, history
    <2>3. CASE Die(s)
      <3>1. cut_short' = (cut_short \/ pc[s] = "appended")
        BY <2>3 DEF Die
      <3>2. newline_lost' = (newline_lost \/ pc[s] = "appended")
        BY <2>3 DEF Die
      <3> QED BY <2>1, <3>1, <3>2
    <2> QED BY <2>2, <2>3
  <1>3. \A q \in Sessions : reported'[q] = "zero" =>
            reported[q] = "zero" \/ (q = s /\ pc[s] = "released")
    BY DEF report, Die, LedgerInv, TypeOK
  <1> QED BY <1>1, <1>2, <1>3 DEF KeepsLines, Steps

\* Reading the ledger, and the newline after a record.
LEMMA ReadOrEndLine ==
  ASSUME LedgerInv, NEW s \in Sessions, read_ledger(s) \/ append_newline(s)
  PROVE  \E step \in Steps : KeepsLines(s, step)
  <1>1. newline_lost => cut_short
    BY DEF LedgerInv, LostIsCut
  <1>2. CASE read_ledger(s)
    <2>1. UNCHANGED <<lines, unterminated, reported, history>> /\ exists' /\ pc[s] = "migrated"
      BY <1>2 DEF read_ledger
    <2>2. CASE LedgerParses
      <3>1. tail' = [tail EXCEPT ![s] = LedgerTail] /\ Goto(s, "read")
        BY <1>2, <2>2 DEF read_ledger
      <3>2. tail'[s] = LedgerTail /\ \A q \in Sessions : q # s => tail'[q] = tail[q]
        BY <3>1 DEF LedgerInv, TypeOK
      <3> QED BY <1>1, <2>1, <2>2, <3>1, <3>2 DEF KeepsLines, Steps, history
    <2>3. CASE ~LedgerParses
      <3>1. tail' = tail /\ Goto(s, "failed")
        BY <1>2, <2>3 DEF read_ledger
      <3> QED BY <1>1, <2>1, <3>1 DEF KeepsLines, Steps, history
    <2> QED BY <2>2, <2>3
  <1>3. CASE append_newline(s)
    <2>1. UNCHANGED <<exists, lines, tail, reported>> /\ pc[s] = "appended" /\ exists
      BY <1>3 DEF append_newline, LedgerInv, Files, MigrationSteps
    <2>2. \/ unterminated' = FALSE /\ Goto(s, "synced") /\ UNCHANGED history
          \/ Goto(s, "failed") /\ cut_short' = TRUE /\ newline_lost' = TRUE /\ UNCHANGED unterminated
      BY <1>3 DEF append_newline
    <2>3. CASE unterminated' = FALSE /\ Goto(s, "synced") /\ UNCHANGED history
      <3>1. KeepsLines(s, "synced")
        BY <1>1, <2>1, <2>3 DEF KeepsLines, history
      <3> QED BY <3>1 DEF Steps
    <2>4. CASE /\ Goto(s, "failed") /\ cut_short' = TRUE /\ newline_lost' = TRUE
               /\ UNCHANGED unterminated
      <3>1. KeepsLines(s, "failed")
        BY <2>1, <2>4 DEF KeepsLines
      <3> QED BY <3>1 DEF Steps
    <2> QED BY <2>2, <2>3, <2>4
  <1> QED BY <1>2, <1>3

-----------------------------------------------------------------------------
(* The migration's rename, and the append *)

\* The ledger that is moved into place verifies, and replaces nothing.
LEMMA RenameKept ==
  ASSUME LedgerInv, NEW s \in Sessions, rename_migrated(s)
  PROVE  LostIsCut' /\ Files' /\ Contents'
  <1>1. /\ pc[s] = "copied" /\ UNCHANGED <<lock, tail, reported, history>> /\ ~exists
        /\ lines = <<>> /\ ~unterminated /\ (newline_lost => cut_short)
    BY DEF rename_migrated, LedgerInv, Files, MigrationSteps, AbsentIsEmpty, LostIsCut
  <1>2. CASE Goto(s, "failed") /\ UNCHANGED file
    <2>1. KeepsLines(s, "failed")
      BY <1>1, <1>2 DEF KeepsLines, file, history
    <2> QED BY <2>1, KeepsLinesKept DEF Steps
  <1>3. CASE exists' = TRUE /\ lines' = LegacyLines /\ unterminated' = FALSE /\ Goto(s, "migrated")
    <2>1. pc'[s] = "migrated" /\ \A q \in Sessions : q # s => pc'[q] = pc[q]
      BY <1>3, Moves DEF LedgerInv, Steps
    <2>2. \A q \in Sessions : q # s => pc[q] \notin Critical
      BY <1>1, Alone DEF LedgerInv, Critical
    <2>3. LostIsCut'
      BY <1>1 DEF LostIsCut, history
    <2>4. AbsentIsEmpty' /\ OpenLineExists' /\ MigrationSteps'
      BY <1>3, <2>1, <2>2 DEF AbsentIsEmpty, OpenLineExists, MigrationSteps, Critical
    <2>5. TailIsCurrent' /\ OpenOrTorn'
      BY <1>3, <2>1, <2>2 DEF TailIsCurrent, OpenOrTorn, Critical
    <2>6. Recorded'
      <3>1. \A q \in Sessions : ~RecordedAlone(q)
        BY <1>1 DEF RecordedAlone
      <3> QED BY <1>1, <2>1, <3>1 DEF Recorded, LedgerInv, Contents, history
    <2>7. /\ LegacySessions \in Seq(Ids) /\ Len(LegacySessions) \in Nat
          /\ LegacyLines \in Seq(Seq(LedgerRecord)) /\ Len(LegacyLines) = Len(LegacySessions)
      BY LegacyFacts DEF LedgerInv
    <2>8. LedgerVerifies'
      <3>1. SUFFICES ASSUME NEW i \in 1 .. Len(LegacySessions)
                     PROVE  /\ Parses(LegacyLines[i]) /\ LegacyLines[i][1].sequence = i - 1
                            /\ LegacyLines[i][1].prev_chain = ChainBefore(i)'
                            /\ LegacyLines[i][1].chain_hash =
                                 Append(ChainBefore(i)', LegacyLines[i][1].session_id)
        BY <1>3, <2>7 DEF LedgerVerifies, LedgerChainVerified, hash_ledger_link,
                          Parses, ChainBefore
      <3>2. /\ Parses(LegacyLines[i]) /\ LegacyLines[i][1].sequence = i - 1
            /\ LegacyLines[i][1].prev_chain = SubSeq(LegacySessions, 1, i - 1)
            /\ LegacyLines[i][1].session_id = LegacySessions[i]
            /\ LegacyLines[i][1].chain_hash =
                 Append(SubSeq(LegacySessions, 1, i - 1), LegacySessions[i])
        BY LegacyChained DEF LedgerInv
      <3>3. ChainBefore(i)' = SubSeq(LegacySessions, 1, i - 1)
        <4>1. CASE i = 1
          <5>1. SubSeq(LegacySessions, 1, 0) = <<>>
            BY <2>7
          <5> QED BY <4>1, <5>1 DEF ChainBefore
        <4>2. CASE i # 1
          <5>1. i - 1 \in 1 .. Len(LegacySessions)
            BY <2>7, <4>2
          <5>2. LegacyLines[i - 1][1].chain_hash = SubSeq(LegacySessions, 1, i - 1)
            BY <5>1, LegacyChained DEF LedgerInv
          <5> QED BY <1>3, <4>2, <5>2 DEF ChainBefore
        <4> QED BY <4>1, <4>2
      <3> QED BY <3>2, <3>3
    <2>9. MigrationKeepsHistory'
      BY <1>3, <2>7 DEF MigrationKeepsHistory
    <2> QED BY <2>3, <2>4, <2>5, <2>6, <2>8, <2>9 DEF Files, Contents
  <1> QED BY <1>2, <1>3 DEF rename_migrated

\* At the append no line is open, unless an earlier one lost its newline: the
\* item goes on a line of its own, and no recorded line changes.
LEMMA AppendFresh ==
  ASSUME LedgerInv, NEW s \in Sessions, pc[s] = "read", ~newline_lost,
         NEW item \in LedgerRecord, lines' = Written(item)
  PROVE  /\ ~unterminated /\ LedgerParses /\ <<item>> \in Seq(LedgerRecord)
         /\ lines' = Append(lines, <<item>>) /\ Len(lines) \in Nat
         /\ lines' \in Seq(Seq(LedgerRecord))
         /\ Len(lines') = Len(lines) + 1 /\ lines'[Len(lines) + 1] = <<item>>
         /\ \A i \in 1 .. Len(lines) : lines'[i] = lines[i]
         /\ \A q \in Sessions : RecordedAlone(q) => RecordedAlone(q)'
  <1>1. LedgerParses
    BY DEF LedgerInv, Contents, TailIsCurrent
  <1>2. \A q \in Sessions : pc[q] # "appended"
    BY Alone DEF LedgerInv, Critical
  <1>3. ~unterminated
    BY <1>1, <1>2 DEF LedgerInv, Contents, OpenOrTorn
  <1>4. lines' = Append(lines, <<item>>) /\ <<item>> \in Seq(LedgerRecord)
    BY <1>3 DEF Written
  <1>5. /\ Len(lines') = Len(lines) + 1 /\ Len(lines) \in Nat /\ lines'[Len(lines) + 1] = <<item>>
        /\ \A i \in 1 .. Len(lines) : lines'[i] = lines[i]
        /\ lines' \in Seq(Seq(LedgerRecord))
    BY <1>4, AppendFacts DEF LedgerInv, TypeOK
  <1>6. \A q \in Sessions : RecordedAlone(q) => RecordedAlone(q)'
    BY <1>5 DEF RecordedAlone
  <1> QED BY <1>1, <1>3, <1>4, <1>5, <1>6

\* What an append leaves in the file, whole or torn, when it is not the first
\* to find a lost newline.
LEMMA AppendFiles ==
  ASSUME LedgerInv, NEW s \in Sessions, NEW step \in {"appended", "failed"}, Goto(s, step),
         pc[s] = "read", NEW item \in LedgerRecord, lines' = Written(item), unterminated' = TRUE,
         UNCHANGED <<exists, newline_lost, reported>>, cut_short => cut_short'
  PROVE  /\ LostIsCut' /\ Files' /\ TailIsCurrent'
         /\ pc'[s] = step /\ \A q \in Sessions : q # s => pc'[q] = pc[q]
  <1>1. pc'[s] = step /\ \A q \in Sessions : q # s => pc'[q] = pc[q]
    BY Moves DEF LedgerInv, Steps
  <1>2. \A q \in Sessions : q # s => pc[q] \notin Critical
    BY Alone DEF LedgerInv, Critical
  <1>3. exists /\ lines' # <<>>
    BY WrittenFacts DEF LedgerInv, Files, MigrationSteps
  <1>4. LostIsCut'
    BY DEF LedgerInv, LostIsCut
  <1>5. Files'
    BY <1>1, <1>2, <1>3 DEF Files, AbsentIsEmpty, OpenLineExists, MigrationSteps,
                            Critical
  <1>6. TailIsCurrent'
    BY <1>1, <1>2 DEF TailIsCurrent, Critical
  <1> QED BY <1>1, <1>4, <1>5, <1>6

\* A whole record extends the chain.
LEMMA AppendExtends ==
  ASSUME LedgerInv, NEW s \in Sessions, pc[s] = "read", ~cut_short,
         lines' = Append(lines, <<Link(tail[s], s)>>), Len(lines) \in Nat,
         Len(lines') = Len(lines) + 1, lines'[Len(lines) + 1] = <<Link(tail[s], s)>>,
         \A i \in 1 .. Len(lines) : lines'[i] = lines[i]
  PROVE  LedgerChainVerified'
  <1> DEFINE r == Link(tail[s], s)
             n == Len(lines)
  <1>1. tail[s] = LedgerTail /\ LedgerChainVerified
    BY DEF LedgerInv, Contents, TailIsCurrent, LedgerVerifies
  <1>2. /\ r.sequence = tail[s].next_sequence /\ r.prev_chain = tail[s].previous_chain
        /\ r.session_id = s /\ r.chain_hash = Append(tail[s].previous_chain, s) /\ r.whole
    BY DEF Link, hash_ledger_link
  <1> HIDE DEF r
  <1>3. Len(<<r>>) = 1 /\ <<r>>[1] = r /\ lines'[n + 1] = <<r>>
    BY DEF r
  <1>4. ASSUME NEW i \in 1 .. n + 1 PROVE ChainBefore(i)' = ChainBefore(i)
    BY <1>4 DEF ChainBefore
  <1>5. r.sequence = n /\ r.prev_chain = ChainBefore(n + 1)
    <2>1. CASE lines = <<>>
      BY <1>1, <1>2, <2>1 DEF LedgerTail, ChainBefore
    <2>2. CASE lines # <<>>
      <3>1. n \in 1 .. n /\ n # 0
        BY <2>2 DEF LedgerInv, TypeOK
      <3>2. lines[n][1].sequence = n - 1
        BY <1>1, <3>1 DEF LedgerChainVerified
      <3> QED BY <1>1, <1>2, <2>2, <3>1, <3>2 DEF LedgerTail, ChainBefore
    <2> QED BY <2>1, <2>2
  <1>6. ASSUME NEW i \in 1 .. n
        PROVE  /\ Parses(lines'[i]) /\ lines'[i][1].sequence = i - 1
               /\ lines'[i][1].prev_chain = ChainBefore(i)
               /\ lines'[i][1].chain_hash = hash_ledger_link(ChainBefore(i), lines'[i][1].session_id)
    BY <1>1, <1>6 DEF LedgerChainVerified
  <1>7. /\ Parses(lines'[n + 1]) /\ lines'[n + 1][1].sequence = n
        /\ lines'[n + 1][1].prev_chain = ChainBefore(n + 1)
        /\ lines'[n + 1][1].chain_hash =
             hash_ledger_link(ChainBefore(n + 1), lines'[n + 1][1].session_id)
    BY <1>2, <1>3, <1>5 DEF Parses, hash_ledger_link
  <1>8. \A i \in 1 .. n + 1 :
            /\ Parses(lines'[i]) /\ lines'[i][1].sequence = i - 1
            /\ lines'[i][1].prev_chain = ChainBefore(i)'
            /\ lines'[i][1].chain_hash = hash_ledger_link(ChainBefore(i)', lines'[i][1].session_id)
    <2> SUFFICES ASSUME NEW i \in 1 .. n + 1
                 PROVE  /\ Parses(lines'[i]) /\ lines'[i][1].sequence = i - 1
                        /\ lines'[i][1].prev_chain = ChainBefore(i)'
                        /\ lines'[i][1].chain_hash =
                             hash_ledger_link(ChainBefore(i)', lines'[i][1].session_id)
      OBVIOUS
    <2>1. ChainBefore(i)' = ChainBefore(i)
      BY <1>4
    <2>2. CASE i \in 1 .. n
      BY <1>6, <2>1, <2>2
    <2>3. CASE i = n + 1
      BY <1>7, <2>1, <2>3
    <2> QED BY <2>2, <2>3
  <1> QED BY <1>8 DEF LedgerChainVerified, Parses, hash_ledger_link

\* The append, whole, failed or torn.
LEMMA AppendKept ==
  ASSUME LedgerInv, NEW s \in Sessions, append_record(s)
  PROVE  LostIsCut' /\ Files' /\ Contents'
  <1> DEFINE r == Link(tail[s], s)
             t == Torn(r)
  <1>1. /\ pc[s] = "read" /\ UNCHANGED <<exists, lock, tail, reported>> /\ exists
        /\ r \in LedgerRecord /\ t \in LedgerRecord /\ ~t.whole /\ r.whole /\ r.session_id = s
    <2>1. ~t.whole /\ r.whole /\ r.session_id = s
      BY DEF Torn, Link
    <2> QED BY <2>1, LinkTyped DEF append_record, LedgerInv, Files, MigrationSteps
  <1> HIDE DEF r, t
  <1>2. CASE Goto(s, "failed") /\ UNCHANGED <<lines, unterminated, history>>
    <2>1. KeepsLines(s, "failed")
      BY <1>1, <1>2 DEF KeepsLines, history, LedgerInv, LostIsCut
    <2> QED BY <2>1, KeepsLinesKept DEF Steps
  <1>3. CASE /\ lines' = Written(r) /\ unterminated' = TRUE /\ Goto(s, "appended")
             /\ UNCHANGED history
    <2>1. /\ LostIsCut' /\ Files' /\ TailIsCurrent'
          /\ pc'[s] = "appended" /\ \A q \in Sessions : q # s => pc'[q] = pc[q]
      BY <1>1, <1>3, AppendFiles DEF history
    <2>2. OpenOrTorn'
      BY <2>1 DEF OpenOrTorn
    <2>3. CASE newline_lost
      <3>1. newline_lost' /\ cut_short'
        BY <1>3, <2>3 DEF LedgerInv, LostIsCut, history
      <3> QED BY <2>1, <2>2, <3>1 DEF Contents, Recorded, LedgerVerifies,
                                      MigrationKeepsHistory
    <2>4. CASE ~newline_lost
      <3>1. /\ lines' = Append(lines, <<r>>) /\ Len(lines) \in Nat
            /\ Len(lines') = Len(lines) + 1 /\ lines'[Len(lines) + 1] = <<r>>
            /\ \A i \in 1 .. Len(lines) : lines'[i] = lines[i]
            /\ \A q \in Sessions : RecordedAlone(q) => RecordedAlone(q)'
        BY <1>1, <1>3, <2>4, AppendFresh
      <3>2. Parses(lines'[Len(lines) + 1]) /\ lines'[Len(lines) + 1][1].session_id = s
        BY <1>1, <3>1 DEF Parses
      <3>3. Len(lines) + 1 \in 1 .. Len(lines')
        BY <3>1
      <3>4. RecordedAlone(s)'
        BY <3>2, <3>3 DEF RecordedAlone
      <3>5. Recorded'
        BY <1>1, <1>3, <2>1, <2>4, <3>1, <3>4 DEF Recorded, LedgerInv, Contents, history
      <3>6. LedgerVerifies'
        BY <1>1, <1>3, <3>1, AppendExtends DEF LedgerVerifies, history, r
      <3>7. MigrationKeepsHistory'
        BY <1>1, <1>3, <3>1, LegacyFacts DEF MigrationKeepsHistory, LedgerInv,
                                             Contents, history
      <3> QED BY <2>1, <2>2, <3>5, <3>6, <3>7 DEF Contents
    <2> QED BY <2>3, <2>4
  <1>4. CASE /\ lines' = Written(t) /\ unterminated' = TRUE /\ Goto(s, "failed")
             /\ cut_short' = TRUE /\ UNCHANGED newline_lost
    <2>1. /\ LostIsCut' /\ Files' /\ TailIsCurrent'
          /\ pc'[s] = "failed" /\ \A q \in Sessions : q # s => pc'[q] = pc[q]
      BY <1>1, <1>4, AppendFiles
    <2>2. LedgerVerifies' /\ MigrationKeepsHistory'
      BY <1>4 DEF LedgerVerifies, MigrationKeepsHistory
    <2>3. CASE newline_lost
      BY <1>4, <2>1, <2>2, <2>3 DEF Contents, Recorded, OpenOrTorn
    <2>4. CASE ~newline_lost
      <3>1. /\ Len(lines) \in Nat
            /\ Len(lines') = Len(lines) + 1 /\ lines'[Len(lines) + 1] = <<t>>
            /\ \A q \in Sessions : RecordedAlone(q) => RecordedAlone(q)'
        BY <1>1, <1>4, <2>4, AppendFresh
      <3>2. ~Parses(lines'[Len(lines) + 1])
        BY <1>1, <3>1 DEF Parses
      <3>3. Len(lines) + 1 \in 1 .. Len(lines')
        BY <3>1
      <3>4. OpenOrTorn'
        BY <3>2, <3>3 DEF OpenOrTorn, LedgerParses, Parses
      <3>5. Recorded'
        BY <1>1, <1>4, <2>1, <2>4, <3>1 DEF Recorded, LedgerInv, Contents
      <3> QED BY <2>1, <2>2, <3>4, <3>5 DEF Contents
    <2> QED BY <2>3, <2>4
  <1> QED BY <1>2, <1>3, <1>4 DEF append_record, r, t

-----------------------------------------------------------------------------
(* The theorems *)

\* The invariant holds before the first session ends.
LEMMA InitHolds == ASSUME LedgerConstants, Init PROVE LedgerInv
  <1>1. TypeOK
    <2>1. faults \in 0 .. MaxFaults
      BY DEF Init, LedgerConstants
    <2>2. tail \in [Sessions -> [next_sequence : Nat, previous_chain : Chains]]
      BY DEF Init, Chains
    <2>3. lines \in Seq(Seq(LedgerRecord))
      BY DEF Init
    <2> QED BY <2>1, <2>2, <2>3 DEF Init, TypeOK, Steps, Statuses
  <1>2. LockExclusive /\ LostIsCut /\ Files
    BY DEF Init, LockExclusive, LostIsCut, Files, AbsentIsEmpty, OpenLineExists,
           MigrationSteps,
           Critical
  <1>3. Len(lines) = 0
    BY DEF Init
  <1>4. TailIsCurrent /\ OpenOrTorn /\ Recorded
    BY DEF Init, TailIsCurrent, OpenOrTorn, Recorded
  <1>5. LedgerVerifies /\ MigrationKeepsHistory
    BY <1>3 DEF Init, LedgerVerifies, LedgerChainVerified, MigrationKeepsHistory
  <1> QED BY <1>1, <1>2, <1>4, <1>5 DEF LedgerInv, Contents

\* Every step of a process keeps the invariant.
LEMMA ProcessKept ==
  ASSUME LedgerInv, NEW s \in Sessions, write_session_metadata(s) \/ Step(s) \/ Die(s)
  PROVE  LedgerInv'
  <1>1. TypeOK' /\ LockExclusive'
    BY StepTyped, LockKept DEF LedgerInv
  <1>2. LostIsCut' /\ Files' /\ Contents'
    BY KeepsLinesKept, QuietStep, LeavingStep, ReadOrEndLine, RenameKept,
       AppendKept DEF Step
  <1> QED BY <1>1, <1>2 DEF LedgerInv, LedgerConstants

\* So does a step that changes nothing.
LEMMA StutterKept == ASSUME LedgerInv, UNCHANGED vars PROVE LedgerInv'
  <1>1. TypeOK' /\ LockExclusive' /\ LostIsCut' /\ Files'
    BY DEF vars, LedgerInv, TypeOK, LockExclusive, LostIsCut, Files, AbsentIsEmpty,
           OpenLineExists, MigrationSteps
  <1>2. TailIsCurrent' /\ OpenOrTorn'
    BY DEF vars, LedgerInv, Contents, TailIsCurrent, LedgerTail, LedgerParses,
           OpenOrTorn
  <1>3. Recorded' /\ LedgerVerifies' /\ MigrationKeepsHistory'
    BY DEF vars, LedgerInv, Contents, Recorded, RecordedAlone, LedgerVerifies,
           LedgerChainVerified, ChainBefore, MigrationKeepsHistory
  <1> QED BY <1>1, <1>2, <1>3 DEF LedgerInv, LedgerConstants, Contents

\* The inductive invariant of the ledger: who is in the critical section, what
\* it knows of the file, and what the file holds.
THEOREM LedgerInvariant == LedgerConstants /\ Spec => []LedgerInv
  <1>1. LedgerInv /\ [Next]_vars => LedgerInv'
    BY ProcessKept, StutterKept DEF Next
  <1>2. LedgerConstants /\ Init => LedgerInv
    BY InitHolds
  <1> QED BY <1>1, <1>2, PTL DEF Spec

\* Unless an append was cut short, the ledger verifies from end to end,
\* whatever number of processes append at once, fail or die.
THEOREM LedgerAlwaysVerifies == LedgerConstants /\ Spec => []LedgerVerifies
  <1>1. LedgerInv => LedgerVerifies
    BY DEF LedgerInv, Contents
  <1> QED BY <1>1, LedgerInvariant, PTL

\* The ledger at the new place starts with the whole legacy ledger, whichever
\* process moved it and however often the move failed before.
THEOREM HistoryIsKept == LedgerConstants /\ Spec => []MigrationKeepsHistory
  <1>1. LedgerInv => MigrationKeepsHistory
    BY DEF LedgerInv, Contents
  <1> QED BY <1>1, LedgerInvariant, PTL

\* A run that exits with 0 has its line in the ledger, unless some append lost
\* its newline.
THEOREM ZeroIsRecorded == LedgerConstants /\ Spec => []StatusZeroRecorded
  <1>1. LedgerInv => StatusZeroRecorded
    BY DEF LedgerInv, Contents, Recorded, StatusZeroRecorded
  <1> QED BY <1>1, LedgerInvariant, PTL

\* A line that was ended is never changed or removed.
THEOREM LinesAreFinal == LedgerConstants /\ Spec => LedgerAppendOnly
  <1> DEFINE Final == ~newline_lost' =>
         \A i \in 1..Len(lines) : Parses(lines[i]) /\ (i < Len(lines) \/ ~unterminated)
            => i <= Len(lines') /\ lines'[i] = lines[i]
  <1>1. ASSUME LedgerInv, NEW s \in Sessions, write_session_metadata(s) \/ Step(s) \/ Die(s)
        PROVE  Final
    <2> SUFFICES ASSUME NEW i \in 1..Len(lines), i < Len(lines) \/ ~unterminated
                 PROVE  i <= Len(lines') /\ lines'[i] = lines[i]
      OBVIOUS
    <2>0. lines \in Seq(Seq(LedgerRecord)) /\ Len(lines) \in Nat
      BY <1>1 DEF LedgerInv, TypeOK
    <2>1. CASE UNCHANGED lines
      BY <2>0, <2>1
    <2>2. CASE rename_migrated(s)
      BY <1>1, <2>2 DEF rename_migrated, LedgerInv, Files, MigrationSteps, AbsentIsEmpty
    <2>3. ASSUME NEW item \in LedgerRecord, lines' = Written(item)
          PROVE  i <= Len(lines') /\ lines'[i] = lines[i]
      <3>1. /\ ~unterminated => Written(item) = Append(lines, <<item>>)
            /\ unterminated => /\ Len(Written(item)) = Len(lines)
                               /\ \A j \in 1 .. Len(lines) :
                                     j # Len(lines) => Written(item)[j] = lines[j]
        BY <1>1, WrittenFacts DEF LedgerInv, Files
      <3>2. CASE ~unterminated
        <4>1. <<item>> \in Seq(LedgerRecord)
          OBVIOUS
        <4>2. /\ Len(Append(lines, <<item>>)) = Len(lines) + 1
              /\ \A j \in 1 .. Len(lines) : Append(lines, <<item>>)[j] = lines[j]
          BY <2>0, <4>1, AppendFacts
        <4> QED BY <2>0, <2>3, <3>1, <3>2, <4>2
      <3>3. CASE unterminated
        BY <2>0, <2>3, <3>1, <3>3
      <3> QED BY <3>2, <3>3
    <2>4. Link(tail[s], s) \in LedgerRecord /\ Torn(Link(tail[s], s)) \in LedgerRecord
      BY <1>1, LinkTyped DEF LedgerInv
    <2>5. UNCHANGED lines \/ rename_migrated(s) \/ \E item \in LedgerRecord : lines' = Written(item)
      BY <1>1, <2>4 DEF write_session_metadata, Step, Die, acquire, begin_migration,
                        copy_legacy,
                read_ledger, append_record, append_newline, sync_data, report, file
    <2> QED BY <2>1, <2>2, <2>3, <2>5
  <1>2. LedgerInv /\ [Next]_vars => [Final]_vars
    BY <1>1 DEF Next
  <1> QED BY <1>2, LedgerInvariant, PTL DEF Spec, LedgerAppendOnly

-----------------------------------------------------------------------------
\* The record of a session (SessionRegistry).

CmdRecords == [pc : Registry!Steps, rec : Registry!Records \cup {Registry!NoRecord}, late : BOOLEAN,
               signalled : {"none", "session", "other"}]

\* The recorded process id is the supervisor's for as long as the supervisor lives.
PidOwned == (pid = "own") <=> (sup # "dead")

\* A command that started too late finds the supervisor gone, and goes no way that
\* ends in a signal.
LateCommands ==
    \A c \in Commands :
        cmd[c].late =>
            /\ sup = "dead"
            /\ cmd[c].pc \in {"absent", "loaded", "changed", "have", "done"}
            /\ cmd[c].signalled = "none"
            /\ cmd[c].pc \in {"changed", "have"} =>
                 /\ cmd[c].rec.status = "exited"
                 /\ cmd[c].rec.attach = "detached"
                 /\ cmd[c].rec.code # Registry!None

\* A command past its probes holds a record.
RecordsHeld ==
    \A c \in Commands :
        cmd[c].pc \in {"loaded", "alive", "changed", "have", "sure"} => cmd[c].rec \in Registry!Records

\* While the supervisor lives and was never stopped, whoever has probed it found
\* it running.
FoundRunning ==
    sup # "dead" /\ pauses = 0 =>
        /\ ~stopped
        /\ \A c \in Commands : cmd[c].pc \in {"changed", "have", "sure"} => cmd[c].rec.status = "running"

RegistryInv ==
    /\ Registry!TypeOK
    /\ PidOwned
    /\ LateCommands
    /\ RecordsHeld
    /\ FoundRunning
    /\ Registry!LiveRecordKept

LEMMA RegistryBegins == ASSUME Registry!RegistryAssumption, Registry!Init PROVE RegistryInv
  <1>a. mem \in Registry!Records
    BY DEF Registry!Init, Registry!Records
  <1>b. cmd \in [Commands -> CmdRecords]
    BY DEF Registry!Init, CmdRecords, Registry!Steps
  <1>1. Registry!TypeOK
    <2>1. attaches \in 0 .. MaxAttach /\ pauses \in 0 .. MaxPauses
      BY DEF Registry!Init, Registry!RegistryAssumption
    <2>2. stopped \in BOOLEAN
      BY DEF Registry!Init
    <2>3. ended \in Codes \cup {Registry!None}
      BY DEF Registry!Init
    <2>4. /\ session_file \in Registry!Records \cup {Registry!Absent, Registry!Empty}
          /\ update \in Registry!Records \cup {Registry!NoRecord}
      BY DEF Registry!Init
    <2>5. /\ sup \in {"new", "creating", "up", "forked", "ending", "dropped", "dead"}
          /\ pid \in {"own", "free", "other"} /\ client \in {"attached", "detached"}
      BY DEF Registry!Init
    <2> QED  BY <1>a, <1>b, <2>1, <2>2, <2>3, <2>4, <2>5 DEF Registry!TypeOK, CmdRecords
  <1> QED
    BY <1>1
       DEF Registry!Init, RegistryInv, PidOwned, LateCommands, RecordsHeld, FoundRunning,
           Registry!LiveRecordKept

LEMMA NoRecordIsNone ==
  Registry!NoRecord \notin Registry!Records /\ Registry!Absent \notin Registry!Records
    /\ Registry!Empty \notin Registry!Records
  BY DEF Registry!NoRecord, Registry!Absent, Registry!Empty, Registry!Records

\* The supervisor and its process: no command moves.
LEMMA SupervisorSteps ==
  ASSUME Registry!RegistryAssumption, RegistryInv,
         Registry!CreateFile \/ Registry!WriteRecord \/ Registry!set_child_pid \/ Registry!set_exited \/ Registry!DropGuard \/ Registry!Exit
           \/ Registry!ChangeAttachment \/ Registry!WriteAttachment \/ Registry!Stop \/ Registry!Continue \/ Registry!Crash \/ Registry!ReusePid
  PROVE  RegistryInv'
  <1> USE DEF RegistryInv
  <1>1. cmd' = cmd
    BY DEF Registry!CreateFile, Registry!WriteRecord, Registry!set_child_pid,
           Registry!set_exited, Registry!DropGuard, Registry!Exit, Registry!ChangeAttachment,
           Registry!WriteAttachment, Registry!Stop, Registry!Continue, Registry!Crash,
           Registry!ReusePid
  <1>2. mem' \in Registry!Records
    <2>1. ASSUME NEW code \in Codes PROVE [mem EXCEPT !.status = "exited", !.code = code] \in Registry!Records
      BY DEF Registry!TypeOK, Registry!Records
    <2>2. [mem EXCEPT !.status = "exited", !.code = Registry!Lost] \in Registry!Records
      BY DEF Registry!TypeOK, Registry!Records
    <2> QED
      BY <2>1, <2>2
         DEF Registry!TypeOK, Registry!CreateFile, Registry!WriteRecord,
             Registry!set_child_pid, Registry!set_exited, Registry!DropGuard, Registry!Exit,
           Registry!ChangeAttachment, Registry!WriteAttachment, Registry!Stop,
           Registry!Continue, Registry!Crash, Registry!ReusePid
  <1>3. update' \in Registry!Records \cup {Registry!NoRecord}
    <2>1. client' \in {"attached", "detached"} /\ (session_file \in Registry!Records => [session_file EXCEPT !.attach = client'] \in Registry!Records)
      BY DEF Registry!TypeOK, Registry!Records, Registry!CreateFile, Registry!WriteRecord,
             Registry!set_child_pid, Registry!set_exited, Registry!DropGuard, Registry!Exit,
           Registry!ChangeAttachment, Registry!WriteAttachment, Registry!Stop,
           Registry!Continue, Registry!Crash, Registry!ReusePid
    <2> QED
      BY <2>1
         DEF Registry!TypeOK, Registry!CreateFile, Registry!WriteRecord,
             Registry!set_child_pid, Registry!set_exited, Registry!DropGuard, Registry!Exit,
           Registry!ChangeAttachment, Registry!WriteAttachment, Registry!Stop,
           Registry!Continue, Registry!Crash, Registry!ReusePid, Registry!Killed
  <1>4. session_file' \in Registry!Records \cup {Registry!Absent, Registry!Empty}
    BY <1>2
       DEF Registry!TypeOK, Registry!CreateFile, Registry!WriteRecord, Registry!set_child_pid,
           Registry!set_exited, Registry!DropGuard, Registry!Exit,
           Registry!ChangeAttachment, Registry!WriteAttachment, Registry!Stop,
           Registry!Continue, Registry!Crash, Registry!ReusePid, Registry!Killed
  <1>5. /\ sup' \in {"new", "creating", "up", "forked", "ending", "dropped", "dead"}
        /\ stopped' \in BOOLEAN /\ pid' \in {"own", "free", "other"}
        /\ client' \in {"attached", "detached"}
        /\ attaches' \in 0 .. MaxAttach /\ pauses' \in 0 .. MaxPauses
        /\ ended' \in Codes \cup {Registry!None}
    <2>1. CASE Registry!CreateFile
      BY <2>1
         DEF Registry!CreateFile, Registry!TypeOK, Registry!RegistryAssumption, Registry!Killed
    <2>2. CASE Registry!WriteRecord
      BY <2>2
         DEF Registry!WriteRecord, Registry!TypeOK, Registry!RegistryAssumption, Registry!Killed
    <2>3. CASE Registry!set_child_pid
      BY <2>3
         DEF Registry!set_child_pid, Registry!TypeOK, Registry!RegistryAssumption,
             Registry!Killed
    <2>4. CASE Registry!set_exited
      BY <2>4
         DEF Registry!set_exited, Registry!TypeOK, Registry!RegistryAssumption, Registry!Killed
    <2>5. CASE Registry!DropGuard
      BY <2>5
         DEF Registry!DropGuard, Registry!TypeOK, Registry!RegistryAssumption, Registry!Killed
    <2>6. CASE Registry!Exit
      BY <2>6 DEF Registry!Exit, Registry!TypeOK, Registry!RegistryAssumption, Registry!Killed
    <2>7. CASE Registry!ChangeAttachment
      BY <2>7
         DEF Registry!ChangeAttachment, Registry!TypeOK, Registry!RegistryAssumption,
             Registry!Killed
    <2>8. CASE Registry!WriteAttachment
      BY <2>8
         DEF Registry!WriteAttachment, Registry!TypeOK, Registry!RegistryAssumption,
             Registry!Killed
    <2>9. CASE Registry!Stop
      BY <2>9 DEF Registry!Stop, Registry!TypeOK, Registry!RegistryAssumption, Registry!Killed
    <2>10. CASE Registry!Continue
      BY <2>10
         DEF Registry!Continue, Registry!TypeOK, Registry!RegistryAssumption, Registry!Killed
    <2>11. CASE Registry!Crash
      BY <2>11 DEF Registry!Crash, Registry!TypeOK, Registry!RegistryAssumption, Registry!Killed
    <2>12. CASE Registry!ReusePid
      BY <2>12
         DEF Registry!ReusePid, Registry!TypeOK, Registry!RegistryAssumption, Registry!Killed
    <2> QED
      BY <2>1, <2>2, <2>3, <2>4, <2>5, <2>6, <2>7, <2>8, <2>9, <2>10, <2>11, <2>12
  <1>6. Registry!TypeOK'
    BY <1>1, <1>2, <1>3, <1>4, <1>5 DEF Registry!TypeOK
  <1>7. PidOwned' /\ (sup = "dead" => sup' = "dead")
    BY DEF Registry!TypeOK, PidOwned, Registry!CreateFile, Registry!WriteRecord,
           Registry!set_child_pid, Registry!set_exited, Registry!DropGuard, Registry!Exit,
           Registry!ChangeAttachment, Registry!WriteAttachment, Registry!Stop,
           Registry!Continue, Registry!Crash, Registry!ReusePid, Registry!Killed,
           Registry!SupSteps
  <1>8. LateCommands' /\ RecordsHeld'
    BY <1>1, <1>7 DEF LateCommands, RecordsHeld
  <1>9. FoundRunning'
    <2>1. CASE Registry!CreateFile
      BY <2>1, <1>1, <1>5
         DEF Registry!CreateFile, Registry!TypeOK, FoundRunning, Registry!SupSteps,
             Registry!Killed, Registry!RegistryAssumption
    <2>2. CASE Registry!WriteRecord
      BY <2>2, <1>1, <1>5
         DEF Registry!WriteRecord, Registry!TypeOK, FoundRunning, Registry!SupSteps,
             Registry!Killed, Registry!RegistryAssumption
    <2>3. CASE Registry!set_child_pid
      BY <2>3, <1>1, <1>5
         DEF Registry!set_child_pid, Registry!TypeOK, FoundRunning, Registry!SupSteps,
             Registry!Killed, Registry!RegistryAssumption
    <2>4. CASE Registry!set_exited
      BY <2>4, <1>1, <1>5
         DEF Registry!set_exited, Registry!TypeOK, FoundRunning, Registry!SupSteps,
             Registry!Killed, Registry!RegistryAssumption
    <2>5. CASE Registry!DropGuard
      BY <2>5, <1>1, <1>5
         DEF Registry!DropGuard, Registry!TypeOK, FoundRunning, Registry!SupSteps,
             Registry!Killed, Registry!RegistryAssumption
    <2>6. CASE Registry!Exit
      BY <2>6, <1>1, <1>5
         DEF Registry!Exit, Registry!TypeOK, FoundRunning, Registry!SupSteps, Registry!Killed,
             Registry!RegistryAssumption
    <2>7. CASE Registry!ChangeAttachment
      BY <2>7, <1>1, <1>5
         DEF Registry!ChangeAttachment, Registry!TypeOK, FoundRunning, Registry!SupSteps,
             Registry!Killed, Registry!RegistryAssumption
    <2>8. CASE Registry!WriteAttachment
      BY <2>8, <1>1, <1>5
         DEF Registry!WriteAttachment, Registry!TypeOK, FoundRunning, Registry!SupSteps,
             Registry!Killed, Registry!RegistryAssumption
    <2>9. CASE Registry!Stop
      BY <2>9, <1>1, <1>5
         DEF Registry!Stop, Registry!TypeOK, FoundRunning, Registry!SupSteps, Registry!Killed,
             Registry!RegistryAssumption
    <2>10. CASE Registry!Continue
      BY <2>10, <1>1, <1>5
         DEF Registry!Continue, Registry!TypeOK, FoundRunning, Registry!SupSteps,
             Registry!Killed, Registry!RegistryAssumption
    <2>11. CASE Registry!Crash
      BY <2>11, <1>1, <1>5
         DEF Registry!Crash, Registry!TypeOK, FoundRunning, Registry!SupSteps, Registry!Killed,
             Registry!RegistryAssumption
    <2>12. CASE Registry!ReusePid
      BY <2>12, <1>1, <1>5
         DEF Registry!ReusePid, Registry!TypeOK, FoundRunning, Registry!SupSteps,
             Registry!Killed, Registry!RegistryAssumption
    <2> QED
      BY <2>1, <2>2, <2>3, <2>4, <2>5, <2>6, <2>7, <2>8, <2>9, <2>10, <2>11, <2>12
  <1>10. Registry!LiveRecordKept'
    <2>1. CASE Registry!CreateFile
      BY <2>1, <1>2, <1>5
         DEF Registry!CreateFile, Registry!TypeOK, Registry!LiveRecordKept, Registry!SupSteps,
             Registry!Killed, Registry!RegistryAssumption
    <2>2. CASE Registry!WriteRecord
      BY <2>2, <1>2, <1>5
         DEF Registry!WriteRecord, Registry!TypeOK, Registry!LiveRecordKept, Registry!SupSteps,
             Registry!Killed, Registry!RegistryAssumption
    <2>3. CASE Registry!set_child_pid
      BY <2>3, <1>2, <1>5
         DEF Registry!set_child_pid, Registry!TypeOK, Registry!LiveRecordKept,
             Registry!SupSteps, Registry!Killed, Registry!RegistryAssumption
    <2>4. CASE Registry!set_exited
      BY <2>4, <1>2, <1>5
         DEF Registry!set_exited, Registry!TypeOK, Registry!LiveRecordKept, Registry!SupSteps,
             Registry!Killed, Registry!RegistryAssumption
    <2>5. CASE Registry!DropGuard
      BY <2>5, <1>2, <1>5
         DEF Registry!DropGuard, Registry!TypeOK, Registry!LiveRecordKept, Registry!SupSteps,
             Registry!Killed, Registry!RegistryAssumption
    <2>6. CASE Registry!Exit
      BY <2>6, <1>2, <1>5
         DEF Registry!Exit, Registry!TypeOK, Registry!LiveRecordKept, Registry!SupSteps,
             Registry!Killed, Registry!RegistryAssumption
    <2>7. CASE Registry!ChangeAttachment
      BY <2>7, <1>2, <1>5
         DEF Registry!ChangeAttachment, Registry!TypeOK, Registry!LiveRecordKept,
             Registry!SupSteps, Registry!Killed, Registry!RegistryAssumption
    <2>8. CASE Registry!WriteAttachment
      BY <2>8, <1>2, <1>5
         DEF Registry!WriteAttachment, Registry!TypeOK, Registry!LiveRecordKept,
             Registry!SupSteps, Registry!Killed, Registry!RegistryAssumption
    <2>9. CASE Registry!Stop
      BY <2>9, <1>2, <1>5
         DEF Registry!Stop, Registry!TypeOK, Registry!LiveRecordKept, Registry!SupSteps,
             Registry!Killed, Registry!RegistryAssumption
    <2>10. CASE Registry!Continue
      BY <2>10, <1>2, <1>5
         DEF Registry!Continue, Registry!TypeOK, Registry!LiveRecordKept, Registry!SupSteps,
             Registry!Killed, Registry!RegistryAssumption
    <2>11. CASE Registry!Crash
      BY <2>11, <1>2, <1>5
         DEF Registry!Crash, Registry!TypeOK, Registry!LiveRecordKept, Registry!SupSteps,
             Registry!Killed, Registry!RegistryAssumption
    <2>12. CASE Registry!ReusePid
      BY <2>12, <1>2, <1>5
         DEF Registry!ReusePid, Registry!TypeOK, Registry!LiveRecordKept, Registry!SupSteps,
             Registry!Killed, Registry!RegistryAssumption
    <2> QED
      BY <2>1, <2>2, <2>3, <2>4, <2>5, <2>6, <2>7, <2>8, <2>9, <2>10, <2>11, <2>12
  <1> QED  BY <1>6, <1>7, <1>8, <1>9, <1>10

\* One command moves and the file is as before, or as the command writes it.
CommandMoves(c, to, rec) ==
    cmd' = [cmd EXCEPT ![c] = [pc |-> to, rec |-> rec, late |-> cmd[c].late,
                               signalled |-> cmd[c].signalled]]

LEMMA TwoFields ==
  ASSUME NEW r \in CmdRecords, NEW to, NEW rec
  PROVE  [[r EXCEPT !.pc = to] EXCEPT !.rec = rec]
           = [pc |-> to, rec |-> rec, late |-> r.late, signalled |-> r.signalled]
  <1> DEFINE q == [r EXCEPT !.pc = to]
  <1>1. q = [pc |-> to, rec |-> r.rec, late |-> r.late, signalled |-> r.signalled]
    BY DEF CmdRecords
  <1> HIDE DEF q
  <1>2. [q EXCEPT !.rec = rec] = [pc |-> to, rec |-> rec, late |-> r.late, signalled |-> r.signalled]
    BY <1>1
  <1> QED  BY <1>2 DEF q

LEMMA CmdMoves ==
  ASSUME RegistryInv, NEW c \in Commands, NEW to, NEW rec, cmd' = Registry!Cmd(c, to, rec)
  PROVE  CommandMoves(c, to, rec)
  <1>1. cmd = [d \in Commands |-> cmd[d]] /\ cmd[c] \in CmdRecords
    BY DEF RegistryInv, Registry!TypeOK, CmdRecords
  <1>2. cmd' = [cmd EXCEPT ![c] = [[cmd[c] EXCEPT !.pc = to] EXCEPT !.rec = rec]]
    BY <1>1 DEF Registry!Cmd
  <1>3. [[cmd[c] EXCEPT !.pc = to] EXCEPT !.rec = rec]
          = [pc |-> to, rec |-> rec, late |-> cmd[c].late, signalled |-> cmd[c].signalled]
    BY <1>1, TwoFields
  <1> QED  BY <1>2, <1>3 DEF CommandMoves

LEMMA CommandKeeps ==
  ASSUME RegistryInv, NEW c \in Commands, NEW to \in Registry!Steps,
         NEW rec \in Registry!Records \cup {Registry!NoRecord},
         CommandMoves(c, to, rec), Registry!Rest,
         to \in {"loaded", "alive", "changed", "have", "sure"} => rec \in Registry!Records,
         cmd[c].late =>
            /\ to \in {"absent", "loaded", "changed", "have", "done"}
            /\ to \in {"changed", "have"} =>
                  rec.status = "exited" /\ rec.attach = "detached" /\ rec.code # Registry!None,
         sup # "dead" /\ pauses = 0 /\ to \in {"changed", "have", "sure"} => rec.status = "running"
  PROVE  RegistryInv'
  <1> DEFINE n == [pc |-> to, rec |-> rec, late |-> cmd[c].late, signalled |-> cmd[c].signalled]
  <1>1. n \in CmdRecords /\ cmd' = [cmd EXCEPT ![c] = n]
    BY DEF CmdRecords, CommandMoves, RegistryInv, Registry!TypeOK
  <1>2. n.pc = to /\ n.rec = rec /\ n.late = cmd[c].late /\ n.signalled = cmd[c].signalled
    OBVIOUS
  <1>3. cmd \in [Commands -> CmdRecords]
    BY DEF RegistryInv, Registry!TypeOK, CmdRecords
  <1> HIDE DEF n
  <1>4. cmd' \in [Commands -> CmdRecords] /\ cmd'[c] = n /\ \A d \in Commands \ {c} : cmd'[d] = cmd[d]
    BY <1>1, <1>3
  <1>5. Registry!TypeOK'
    BY <1>4 DEF RegistryInv, Registry!TypeOK, Registry!Rest, CmdRecords
  <1>6. LateCommands'
    BY <1>2, <1>4 DEF RegistryInv, LateCommands, Registry!Rest
  <1>7. RecordsHeld'
    BY <1>2, <1>4 DEF RegistryInv, RecordsHeld, Registry!Rest
  <1>8. FoundRunning'
    BY <1>2, <1>4 DEF RegistryInv, FoundRunning, Registry!Rest
  <1> QED  BY <1>5, <1>6, <1>7, <1>8
              DEF RegistryInv, PidOwned, Registry!LiveRecordKept, Registry!Rest

LEMMA LoadKeeps == ASSUME RegistryInv, NEW c \in Commands, Registry!Load(c) PROVE RegistryInv'
  <1> DEFINE n == IF session_file \in Registry!Records
                  THEN [pc |-> "loaded", rec |-> session_file, late |-> sup = "dead", signalled |-> "none"]
                  ELSE [pc |-> "absent", rec |-> Registry!NoRecord, late |-> sup = "dead", signalled |-> "none"]
  <1>1. n \in CmdRecords /\ cmd' = [cmd EXCEPT ![c] = n]
    BY DEF CmdRecords, Registry!Load, RegistryInv, Registry!TypeOK, Registry!Steps
  <1>2. /\ n.late => sup = "dead"
        /\ n.pc \in {"absent", "loaded"} /\ n.signalled = "none"
        /\ n.pc = "loaded" => n.rec \in Registry!Records
    OBVIOUS
  <1>3. cmd \in [Commands -> CmdRecords]
    BY DEF RegistryInv, Registry!TypeOK, CmdRecords
  <1> HIDE DEF n
  <1>4. cmd' \in [Commands -> CmdRecords] /\ cmd'[c] = n /\ \A d \in Commands \ {c} : cmd'[d] = cmd[d]
    BY <1>1, <1>3
  <1>5. Registry!TypeOK'
    BY <1>4 DEF RegistryInv, Registry!TypeOK, Registry!Load, Registry!Rest, CmdRecords
  <1>6. LateCommands'
    BY <1>2, <1>4 DEF RegistryInv, LateCommands, Registry!Load, Registry!Rest
  <1>7. RecordsHeld'
    BY <1>2, <1>4 DEF RegistryInv, RecordsHeld, Registry!Load, Registry!Rest
  <1>8. FoundRunning'
    BY <1>2, <1>4 DEF RegistryInv, FoundRunning, Registry!Load, Registry!Rest
  <1> QED  BY <1>5, <1>6, <1>7, <1>8
              DEF RegistryInv, PidOwned, Registry!LiveRecordKept, Registry!Load, Registry!Rest

LEMMA FoundKeeps ==
  ASSUME RegistryInv, NEW c \in Commands, NEW seen \in {"dead", "stopped", "running"},
         Registry!Found(c, seen), Registry!Rest,
         cmd[c].rec \in Registry!Records,
         cmd[c].late => seen = "dead",
         sup # "dead" /\ pauses = 0 => seen = "running"
  PROVE  RegistryInv'
  <1> DEFINE new == Registry!Reconciled(cmd[c].rec, seen)
             next == IF Registry!Changed(cmd[c].rec, new) THEN "changed" ELSE "have"
  <1>1. new \in Registry!Records
    BY DEF Registry!Reconciled, Registry!Records
  <1>2. seen = "dead" => new.status = "exited" /\ new.attach = "detached" /\ new.code # Registry!None
    BY DEF Registry!Reconciled, Registry!Lost, Registry!None
  <1>3. seen = "running" => new.status = "running"
    BY DEF Registry!Reconciled, Registry!Records
  <1>4. cmd' = Registry!Cmd(c, next, new)
    BY DEF Registry!Found
  <1> HIDE DEF new
  <1>5. next \in Registry!Steps /\ next \in {"changed", "have"}
    BY DEF Registry!Steps
  <1> HIDE DEF next
  <1>6. CommandMoves(c, next, new)
    BY <1>4, CmdMoves
  <1> QED  BY <1>1, <1>2, <1>3, <1>5, <1>6, CommandKeeps

LEMMA CommandSteps ==
  ASSUME RegistryInv, NEW c \in Commands, Registry!CommandStep(c)
  PROVE  RegistryInv'
  <1>0. /\ PidOwned /\ LateCommands /\ RecordsHeld /\ FoundRunning /\ Registry!TypeOK
        /\ cmd[c].rec \in Registry!Records \cup {Registry!NoRecord}
    BY DEF RegistryInv, Registry!TypeOK
  <1>1. CASE Registry!ProbeAlive(c)
    <2>1. cmd[c].pc = "loaded" /\ Registry!Rest /\ cmd[c].rec \in Registry!Records
      BY <1>0, <1>1 DEF Registry!ProbeAlive, RecordsHeld
    <2>2. CASE Registry!is_process_alive
      <3>1. CommandMoves(c, "alive", cmd[c].rec)
        BY <1>1, <2>2, CmdMoves DEF Registry!ProbeAlive
      <3>2. ~cmd[c].late
        BY <1>0, <2>2 DEF LateCommands, PidOwned, Registry!is_process_alive
      <3> QED  BY <2>1, <3>1, <3>2, CommandKeeps DEF Registry!Steps
    <2>3. CASE ~Registry!is_process_alive
      <3>1. Registry!Found(c, "dead") /\ sup = "dead"
        BY <1>0, <1>1, <2>3 DEF Registry!ProbeAlive, PidOwned, Registry!is_process_alive
      <3> QED  BY <2>1, <3>1, FoundKeeps
    <2> QED  BY <2>2, <2>3
  <1>2. CASE Registry!ProbeStopped(c)
    <2>1. /\ cmd[c].pc = "alive"
          /\ Registry!Rest
          /\ cmd[c].rec \in Registry!Records
          /\ ~cmd[c].late
      BY <1>0, <1>2 DEF Registry!ProbeStopped, RecordsHeld, LateCommands
    <2>2. Registry!Found(c, IF stopped THEN "stopped" ELSE "running")
      BY <1>2 DEF Registry!ProbeStopped
    <2>3. CASE stopped
      BY <1>0, <2>1, <2>2, <2>3, FoundKeeps DEF FoundRunning
    <2>4. CASE ~stopped
      BY <2>1, <2>2, <2>4, FoundKeeps
    <2> QED  BY <2>3, <2>4
  <1>3. CASE Registry!WriteBack(c)
    <2>1. cmd[c].pc = "changed" /\ cmd[c].rec \in Registry!Records /\ session_file' = cmd[c].rec
          /\ UNCHANGED <<sup, stopped, pid, mem, update, client, attaches, pauses, ended>>
      BY <1>0, <1>3 DEF Registry!WriteBack, RecordsHeld
    <2>2. cmd' = [cmd EXCEPT ![c] = [pc |-> "have", rec |-> cmd[c].rec, late |-> cmd[c].late,
                                     signalled |-> cmd[c].signalled]]
      BY <1>3, CmdMoves DEF Registry!WriteBack, CommandMoves
    <2>3. Registry!TypeOK'
      BY <1>0, <2>1, <2>2 DEF Registry!TypeOK, Registry!Steps
    <2>4. cmd'[c].pc = "have" /\ cmd'[c].rec = cmd[c].rec /\ cmd'[c].late = cmd[c].late
          /\ cmd'[c].signalled = cmd[c].signalled /\ \A d \in Commands \ {c} : cmd'[d] = cmd[d]
      BY <1>0, <2>2 DEF Registry!TypeOK
    <2>5. LateCommands'
      BY <1>0, <2>1, <2>4 DEF LateCommands
    <2>6. RecordsHeld' /\ FoundRunning'
      BY <1>0, <2>1, <2>4 DEF RecordsHeld, FoundRunning
    <2> QED  BY <1>0, <2>1, <2>3, <2>5, <2>6 DEF RegistryInv, PidOwned, Registry!LiveRecordKept
  <1>4. ASSUME CommandMoves(c, "done", Registry!NoRecord), Registry!Rest PROVE RegistryInv'
    BY <1>4, CommandKeeps DEF Registry!Steps
  <1>5. CASE Registry!Finish(c)
    BY <1>4, <1>5, CmdMoves DEF Registry!Finish, Registry!Done
  <1>6. CASE Registry!Prune(c)
    <2>1. cmd[c].pc = "have" /\ cmd[c].rec.status # "running" /\ session_file' = Registry!Absent
          /\ UNCHANGED <<sup, stopped, pid, mem, update, client, attaches, pauses, ended>>
      BY <1>6 DEF Registry!Prune
    <2>2. cmd' = [cmd EXCEPT ![c] = [pc |-> "done", rec |-> Registry!NoRecord, late |-> cmd[c].late,
                                     signalled |-> cmd[c].signalled]]
      BY <1>6, CmdMoves DEF Registry!Prune, Registry!Done, CommandMoves
    <2>3. Registry!TypeOK'
      BY <1>0, <2>1, <2>2 DEF Registry!TypeOK, Registry!Steps
    <2>4. cmd'[c].pc = "done" /\ cmd'[c].late = cmd[c].late
          /\ cmd'[c].signalled = cmd[c].signalled /\ \A d \in Commands \ {c} : cmd'[d] = cmd[d]
      BY <1>0, <2>2 DEF Registry!TypeOK
    <2>5. LateCommands'
      BY <1>0, <2>1, <2>4 DEF LateCommands
    <2>6. RecordsHeld' /\ FoundRunning'
      BY <1>0, <2>1, <2>4 DEF RecordsHeld, FoundRunning
    <2>7. ~(sup # "dead" /\ pauses = 0)
      BY <1>0, <2>1 DEF FoundRunning
    <2> QED  BY <1>0, <2>1, <2>3, <2>5, <2>6, <2>7
                DEF RegistryInv, PidOwned, Registry!LiveRecordKept
  <1>7. CASE Registry!CheckAlive(c)
    <2>1. /\ cmd[c].pc = "have"
          /\ cmd[c].rec.status # "exited"
          /\ Registry!Rest
          /\ cmd[c].rec \in Registry!Records
          /\ ~cmd[c].late
      BY <1>0, <1>7 DEF Registry!CheckAlive, LateCommands, RecordsHeld
    <2>2. CASE Registry!is_process_alive
      <3>1. CommandMoves(c, "sure", cmd[c].rec)
        BY <1>7, <2>2, CmdMoves DEF Registry!CheckAlive
      <3> QED  BY <1>0, <2>1, <3>1, CommandKeeps DEF Registry!Steps, FoundRunning
    <2>3. CASE ~Registry!is_process_alive
      BY <1>4, <1>7, <2>1, <2>3, CmdMoves DEF Registry!CheckAlive, Registry!Done
    <2> QED  BY <2>2, <2>3
  <1>8. CASE Registry!SeesItGone(c)
    BY <1>4, <1>8, CmdMoves DEF Registry!SeesItGone, Registry!Done
  <1>9. ASSUME NEW next \in {"done", "waiting"}, Registry!Signals(c, next), ~cmd[c].late,
               UNCHANGED <<mem, session_file, client, attaches, pauses, ended>>,
               UNCHANGED <<sup, stopped, pid, update>> \/ Registry!Killed
        PROVE  RegistryInv'
    <2>1. PICK g \in {"none", "session", "other"} :
            cmd' = [cmd EXCEPT ![c] = [pc |-> next, rec |-> Registry!NoRecord, late |-> cmd[c].late, signalled |-> g]]
      <3>1. PICK g \in {"none", "session", "other"} :
              cmd' = [cmd EXCEPT ![c].pc = next, ![c].rec = Registry!NoRecord, ![c].signalled = g]
        BY <1>0, <1>9 DEF Registry!Signals, Registry!TypeOK
      <3>2. cmd[c] \in CmdRecords
        BY <1>0 DEF Registry!TypeOK, CmdRecords
      <3> DEFINE r == [[cmd[c] EXCEPT !.pc = next] EXCEPT !.rec = Registry!NoRecord]
      <3>3. cmd' = [cmd EXCEPT ![c] = [r EXCEPT !.signalled = g]]
        BY <1>0, <3>1 DEF Registry!TypeOK
      <3>4. r = [pc |-> next, rec |-> Registry!NoRecord, late |-> cmd[c].late, signalled |-> cmd[c].signalled]
        BY <3>2, TwoFields
      <3> HIDE DEF r
      <3>5. [r EXCEPT !.signalled = g]
              = [pc |-> next, rec |-> Registry!NoRecord, late |-> cmd[c].late, signalled |-> g]
        BY <3>4
      <3> QED  BY <3>3, <3>5
    <2>2. /\ Registry!TypeOK'
      BY <1>0, <1>9, <2>1 DEF Registry!TypeOK, Registry!Steps, Registry!Killed
    <2>3. cmd'[c].pc = next /\ ~cmd'[c].late /\ \A d \in Commands \ {c} : cmd'[d] = cmd[d]
      BY <1>0, <1>9, <2>1 DEF Registry!TypeOK
    <2>4. PidOwned' /\ (sup = "dead" => sup' = "dead")
      BY <1>0, <1>9 DEF PidOwned, Registry!Killed
    <2>5. LateCommands'
      BY <1>0, <2>3, <2>4 DEF LateCommands
    <2>6. RecordsHeld' /\ FoundRunning'
      BY <1>0, <1>9, <2>3 DEF RecordsHeld, FoundRunning, Registry!Killed
    <2>7. Registry!LiveRecordKept'
      BY <1>9 DEF RegistryInv, Registry!LiveRecordKept, Registry!Killed
    <2> QED  BY <2>2, <2>4, <2>5, <2>6, <2>7 DEF RegistryInv
  <1>10. CASE Registry!Terminate(c)
    <2>1. ~cmd[c].late
      BY <1>0, <1>10 DEF Registry!Terminate, LateCommands
    <2> QED  BY <1>9, <1>10, <2>1 DEF Registry!Terminate, Registry!Rest
  <1>11. CASE Registry!KillNow(c)
    <2>1. ~cmd[c].late
      BY <1>0, <1>11 DEF Registry!KillNow, LateCommands
    <2> QED  BY <1>9, <1>11, <2>1 DEF Registry!KillNow
  <1>12. CASE Registry!DeadlinePasses(c)
    <2>1. CommandMoves(c, "overdue", Registry!NoRecord) /\ ~cmd[c].late /\ Registry!Rest
      BY <1>0, <1>12, CmdMoves DEF Registry!DeadlinePasses, LateCommands
    <2> QED  BY <2>1, CommandKeeps DEF Registry!Steps
  <1> QED
    BY <1>1, <1>2, <1>3, <1>5, <1>6, <1>7, <1>8, <1>10, <1>11, <1>12 DEF Registry!CommandStep

LEMMA RegistryNext ==
  ASSUME Registry!RegistryAssumption, RegistryInv, [Registry!Next]_(Registry!vars)
  PROVE  RegistryInv'
  <1>1. CASE UNCHANGED Registry!vars
    BY <1>1
       DEF Registry!vars, RegistryInv, Registry!TypeOK, PidOwned, LateCommands, RecordsHeld,
           FoundRunning, Registry!LiveRecordKept
  <1> QED  BY <1>1, SupervisorSteps, LoadKeeps, CommandSteps DEF Registry!Next

\* RegistryInv is an invariant of the session record and those who rewrite it.
THEOREM RegistryInvariant ==
  Registry!RegistryAssumption /\ Registry!Spec => [](Registry!RegistryAssumption /\ RegistryInv)
  <1> DEFINE I == Registry!RegistryAssumption /\ RegistryInv
  <1>1. Registry!RegistryAssumption /\ Registry!Init => I
    BY RegistryBegins
  <1>2. I /\ [Registry!Next]_(Registry!vars) => I'
    BY RegistryNext DEF Registry!RegistryAssumption
  <1> QED  BY <1>1, <1>2, PTL DEF Registry!Spec

\* Whatever the file says by then and whoever has the process id: a command that
\* starts after the supervisor died shows the exit and signals no one.
THEOREM LateCommandsHarmless ==
  Registry!RegistryAssumption /\ Registry!Spec => []LateCommandsSeeTheExit
  <1>1. RegistryInv => Registry!LateCommandsSeeTheExit
    BY DEF RegistryInv, LateCommands, Registry!LateCommandsSeeTheExit
  <1>9. Registry!LateCommandsSeeTheExit => LateCommandsSeeTheExit
    BY DEF LateCommandsSeeTheExit
  <1> QED  BY <1>9, <1>1, RegistryInvariant, PTL

\* No cleanup takes the record of a session whose supervisor lives and was never
\* stopped, however the commands that probe it interleave.
THEOREM LiveRecordsKept ==
  Registry!RegistryAssumption /\ Registry!Spec => []Registry!LiveRecordKept
  <1>1. RegistryInv => Registry!LiveRecordKept
    BY DEF RegistryInv
  <1> QED  BY <1>1, RegistryInvariant, PTL

-----------------------------------------------------------------------------
\* The platform sign-in (PlatformLogin).

Answers == {"none", "rotated", "invalid_grant", "invalid_target", "revoked"}
ProcRecords == [pc : Login!Inside \cup Login!Outside, cmd : Login!LoginCommands, s : Login!SignIns \cup {NoSession},
                tok : Login!Tokens \cup {NoSession}, answer : Answers]

\* The process that has the lock, and what it holds of the files: a refresh or a
\* revocation works on the record and the token on disk.
HeldIsStored ==
    \A p \in Procs :
        /\ proc[p].pc \in {"send", "resend", "reply", "save", "revoke"} =>
             /\ record # NoSession /\ proc[p].s = record
             /\ proc[p].tok \in Login!Tokens /\ proc[p].tok.s = record
        /\ proc[p].pc \in {"send", "resend", "revoke"} => proc[p].tok = token
        /\ proc[p].pc = "revoke" => proc[p].cmd = "logout"

\* What an answer of the platform says of the session it is about.
AnswersTrue ==
    \A p \in Procs :
        /\ proc[p].pc = "reply" => proc[p].answer \in {"rotated", "invalid_grant", "invalid_target"}
        /\ proc[p].pc = "reply" /\ proc[p].answer = "rotated" =>
             proc[p].tok.gen = server[record].gen
        /\ proc[p].pc = "reply" /\ proc[p].answer = "invalid_grant" =>
             server[record].st = "revoked"
        /\ proc[p].answer = "revoked" =>
             /\ proc[p].s \in Login!SignIns /\ server[proc[p].s].st = "revoked"
             /\ proc[p].pc \in {"clear1", "clear2", "clear3"}

\* What is being removed or written is not on disk under its record.
RecordFirst ==
    \A p \in Procs :
        /\ proc[p].pc \in {"clear2", "clear3", "store2", "store3", "store4"} => record = NoSession
        /\ proc[p].pc \in {"store3", "store4"} => key = proc[p].s
        /\ proc[p].pc = "store4" => token = proc[p].tok
        /\ proc[p].pc = "clear1" /\ proc[p].cmd # "logout" /\ record # NoSession =>
             server[record].st = "revoked"

Fresh == {"authorized", "store1", "store2", "store3", "store4"}

\* A session that has been granted and not yet recorded is its process's alone,
\* and its token has never been used.
FreshIsOwn ==
    \A p \in Procs :
        proc[p].pc \in Fresh =>
            /\ proc[p].s \in Login!SignIns /\ proc[p].tok = [s |-> proc[p].s, gen |-> 1]
            /\ server[proc[p].s].gen = 1
            /\ record # proc[p].s
            /\ proc[p].pc # "store4" /\ token # NoSession => token.s # proc[p].s
            /\ \A q \in Procs : q # p => proc[q].s # proc[p].s

\* Whatever anyone has was granted.
Granted ==
    /\ record # NoSession => server[record].st # "none"
    /\ token # NoSession => server[token.s].st # "none"
    /\ \A p \in Procs : proc[p].s # NoSession => server[proc[p].s].st # "none"

\* A stored token is behind the platform's only while its successor is on the way,
\* or once that was lost.
BehindIsLost ==
    record # NoSession /\ token # NoSession /\ token.gen < server[token.s].gen =>
        \/ token.s \in lost
        \/ \E p \in Procs : /\ proc[p].pc = "reply"
                            /\ proc[p].answer = "rotated"
                            /\ proc[p].s = token.s

LoginInv ==
    /\ Login!TypeOK
    /\ HeldIsStored
    /\ AnswersTrue
    /\ RecordFirst
    /\ FreshIsOwn
    /\ Granted
    /\ BehindIsLost
    /\ Login!RecordHasItsSecrets
    /\ Login!ReuseOnlyAfterLoss
    /\ Login!SignedOutIsRevoked

\* Process p is left with n; no other process moves.
Leaves(p, n) ==
    /\ n \in ProcRecords
    /\ proc' \in [Procs -> ProcRecords]
    /\ proc'[p] = n
    /\ \A q \in Procs : q # p => proc'[q] = proc[q]

LEMMA ProcTyped == ASSUME Login!TypeOK PROVE proc \in [Procs -> ProcRecords]
  BY DEF Login!TypeOK, ProcRecords, Answers

LEMMA LeavesAs ==
  ASSUME Login!TypeOK, NEW p \in Procs, NEW n \in ProcRecords, proc' = [proc EXCEPT ![p] = n]
  PROVE  Leaves(p, n)
  BY ProcTyped DEF Leaves

LEMMA IdleTyped ==
  /\ Login!Idle \in ProcRecords
  /\ Login!Idle.pc = "idle" /\ Login!Idle.cmd = "access" /\ Login!Idle.s = NoSession /\ Login!Idle.answer = "none"
  BY DEF Login!Idle, ProcRecords, Login!Outside, Login!LoginCommands, Answers

\* The record a change of some fields leaves.
With(p, to, s, tok, answer) ==
    [pc |-> to, cmd |-> proc[p].cmd, s |-> s, tok |-> tok, answer |-> answer]

LEMMA WithTyped ==
  ASSUME Login!TypeOK, NEW p \in Procs, NEW to \in Login!Inside \cup Login!Outside,
         NEW s \in Login!SignIns \cup {NoSession},
         NEW tok \in Login!Tokens \cup {NoSession}, NEW answer \in Answers
  PROVE  /\ With(p, to, s, tok, answer) \in ProcRecords
         /\ With(p, to, s, tok, answer).pc = to
         /\ With(p, to, s, tok, answer).cmd = proc[p].cmd
         /\ With(p, to, s, tok, answer).s = s
         /\ With(p, to, s, tok, answer).tok = tok
         /\ With(p, to, s, tok, answer).answer = answer
  BY ProcTyped DEF With, ProcRecords

LEMMA GotoLeaves ==
  ASSUME Login!TypeOK, NEW p \in Procs, NEW to \in Login!Inside \cup Login!Outside,
         Login!Goto(p, to)
  PROVE  Leaves(p, With(p, to, proc[p].s, proc[p].tok, proc[p].answer))
  <1> DEFINE r == [proc[p] EXCEPT !.pc = to]
  <1>a. proc' = [proc EXCEPT ![p] = r]
    BY ProcTyped DEF Login!Goto
  <1>b. r = With(p, to, proc[p].s, proc[p].tok, proc[p].answer)
    BY ProcTyped DEF With, ProcRecords
  <1>1. proc' = [proc EXCEPT ![p] = With(p, to, proc[p].s, proc[p].tok, proc[p].answer)]
    BY <1>a, <1>b
  <1>2. With(p, to, proc[p].s, proc[p].tok, proc[p].answer) \in ProcRecords
    BY ProcTyped, WithTyped DEF ProcRecords
  <1> QED  BY <1>1, <1>2, LeavesAs

LEMMA AnswerLeaves ==
  ASSUME Login!TypeOK, NEW p \in Procs, NEW to \in Login!Inside \cup Login!Outside,
         NEW a \in Answers,
         proc' = [proc EXCEPT ![p].pc = to, ![p].answer = a]
  PROVE  Leaves(p, With(p, to, proc[p].s, proc[p].tok, a))
  <1> DEFINE r == [proc[p] EXCEPT !.pc = to]
  <1>1. proc' = [proc EXCEPT ![p] = [r EXCEPT !.answer = a]]
    BY ProcTyped
  <1>2. r = [pc |-> to, cmd |-> proc[p].cmd, s |-> proc[p].s, tok |-> proc[p].tok,
             answer |-> proc[p].answer]
    BY ProcTyped DEF ProcRecords
  <1> HIDE DEF r
  <1>3. [r EXCEPT !.answer = a] = With(p, to, proc[p].s, proc[p].tok, a)
    BY <1>2 DEF With
  <1>4. With(p, to, proc[p].s, proc[p].tok, a) \in ProcRecords
    BY ProcTyped, WithTyped DEF ProcRecords
  <1> QED  BY <1>1, <1>3, <1>4, LeavesAs

LEMMA SessionLeaves ==
  ASSUME Login!TypeOK, NEW p \in Procs, NEW to \in Login!Inside \cup Login!Outside,
         NEW s \in Login!SignIns,
         NEW t \in Login!Tokens, proc' = [proc EXCEPT ![p].pc = to, ![p].s = s, ![p].tok = t]
  PROVE  Leaves(p, With(p, to, s, t, proc[p].answer))
  <1> DEFINE r == [proc[p] EXCEPT !.pc = to]
             u == [r EXCEPT !.s = s]
  <1>1. proc' = [proc EXCEPT ![p] = [u EXCEPT !.tok = t]]
    BY ProcTyped
  <1>2. r = [pc |-> to, cmd |-> proc[p].cmd, s |-> proc[p].s, tok |-> proc[p].tok,
             answer |-> proc[p].answer]
    BY ProcTyped DEF ProcRecords
  <1> HIDE DEF r
  <1>3. u = [pc |-> to, cmd |-> proc[p].cmd, s |-> s, tok |-> proc[p].tok,
             answer |-> proc[p].answer]
    BY <1>2
  <1> HIDE DEF u
  <1>4. [u EXCEPT !.tok = t] = With(p, to, s, t, proc[p].answer)
    BY <1>3 DEF With
  <1>5. With(p, to, s, t, proc[p].answer) \in ProcRecords
    BY ProcTyped, WithTyped DEF ProcRecords
  <1> QED  BY <1>1, <1>4, <1>5, LeavesAs

LEMMA RotatedLeaves ==
  ASSUME Login!TypeOK, NEW p \in Procs, NEW g \in 1 .. MaxGen, proc[p].tok \in Login!Tokens,
         proc' = [proc EXCEPT ![p].pc = "reply", ![p].answer = "rotated", ![p].tok.gen = g]
  PROVE  Leaves(p, With(p, "reply", proc[p].s, [s |-> proc[p].tok.s, gen |-> g], "rotated"))
  <1> DEFINE r == [proc[p] EXCEPT !.pc = "reply"]
             u == [r EXCEPT !.answer = "rotated"]
             t == [s |-> proc[p].tok.s, gen |-> g]
  <1>1. proc' = [proc EXCEPT ![p] = [u EXCEPT !.tok = [u.tok EXCEPT !.gen = g]]]
    BY ProcTyped
  <1>2. r = [pc |-> "reply", cmd |-> proc[p].cmd, s |-> proc[p].s, tok |-> proc[p].tok,
             answer |-> proc[p].answer]
    BY ProcTyped DEF ProcRecords
  <1> HIDE DEF r
  <1>3. u = [pc |-> "reply", cmd |-> proc[p].cmd, s |-> proc[p].s, tok |-> proc[p].tok,
             answer |-> "rotated"]
    BY <1>2
  <1> HIDE DEF u
  <1>4. [u.tok EXCEPT !.gen = g] = t /\ t \in Login!Tokens
    BY <1>3 DEF Login!Tokens
  <1> HIDE DEF t
  <1>5. [u EXCEPT !.tok = t] = With(p, "reply", proc[p].s, t, "rotated")
    BY <1>3 DEF With
  <1>6. With(p, "reply", proc[p].s, t, "rotated") \in ProcRecords
    <2>1. "reply" \in Login!Inside \cup Login!Outside /\ "rotated" \in Answers
      BY DEF Login!Inside, Answers
    <2>2. proc[p].s \in Login!SignIns \cup {NoSession}
      BY ProcTyped DEF ProcRecords
    <2> QED  BY <1>4, <2>1, <2>2, WithTyped
  <1>7. Leaves(p, With(p, "reply", proc[p].s, t, "rotated"))
    BY <1>1, <1>4, <1>5, <1>6, LeavesAs
  <1> QED  BY <1>7 DEF t

LEMMA LoginBegins == ASSUME Login!LoginAssumption, Login!Init PROVE LoginInv
  <1>1. proc \in [Procs -> ProcRecords] /\ \A p \in Procs : proc[p] = Login!Idle
    BY IdleTyped DEF Login!Init
  <1>2. Login!TypeOK
    <2>1. server \in [Login!SignIns -> [st : {"none", "open", "revoked"}, gen : 0 .. MaxGen]]
      BY DEF Login!Init, Login!LoginAssumption
    <2>2. crashes \in 0 .. MaxCrashes
      BY DEF Login!Init, Login!LoginAssumption
    <2>3. \A p \in Procs : proc[p].pc \in Login!Inside <=> login_lock = p
      BY <1>1, IdleTyped DEF Login!Init, Login!LoginAssumption, Login!Inside
    <2>4. vanished \in BOOLEAN
      BY DEF Login!Init
    <2> QED  BY <1>1, <2>1, <2>2, <2>3, <2>4 DEF Login!Init, Login!TypeOK, ProcRecords, Answers
  <1> QED
    BY <1>1, <1>2, IdleTyped
    DEF Login!Init, LoginInv, HeldIsStored, AnswersTrue, RecordFirst, Fresh, FreshIsOwn,
    Granted, BehindIsLost,
        Login!RecordHasItsSecrets, Login!ReuseOnlyAfterLoss, Login!SignedOutIsRevoked

\* Whoever has the lock, the others are outside.
LEMMA OthersOutside ==
  ASSUME Login!TypeOK, NEW p \in Procs, login_lock = p
  PROVE  \A q \in Procs : q # p => proc[q].pc \notin Login!Inside
  BY DEF Login!TypeOK

LEMMA Quits ==
  ASSUME Login!LoginAssumption, LoginInv, NEW p \in Procs, NEW n, Leaves(p, n),
         n.pc \in {"idle", "browser", "load"}, n.s = NoSession, n.answer = "none",
         n.pc = "load" <=> login_lock' = p, login_lock' \in Procs \cup {NoSession},
         \A q \in Procs : q # p => (login_lock = q <=> login_lock' = q),
         UNCHANGED <<record, token, server, reused>>,
         key' = key \/ (key' = NoSession /\ record = NoSession /\ login_lock = p),
         lost \subseteq lost', lost' \subseteq Login!SignIns,
         proc[p].pc = "reply" /\ proc[p].answer = "rotated" => proc[p].s \in lost',
         \A s \in out' : s \in out \/ (s \in Login!SignIns /\ server[s].st = "revoked"),
         crashes' \in 0 .. MaxCrashes, vanished' \in BOOLEAN
  PROVE  LoginInv'
  <1>0. /\ Login!TypeOK /\ HeldIsStored /\ AnswersTrue /\ RecordFirst /\ FreshIsOwn
        /\ Granted /\ BehindIsLost /\ Login!RecordHasItsSecrets /\ Login!ReuseOnlyAfterLoss
        /\ Login!SignedOutIsRevoked /\ NoSession \notin Login!SignIns
    BY DEF LoginInv, Login!LoginAssumption, Login!SignIns
  <1>1. /\ proc'[p] = n /\ \A q \in Procs : q # p => proc'[q] = proc[q]
        /\ login_lock = p => \A q \in Procs : q # p => proc[q].pc \notin Login!Inside
    BY <1>0, OthersOutside DEF Leaves
  <1>2. Login!TypeOK'
    <2>1. \A q \in Procs : proc'[q].pc \in Login!Inside <=> login_lock' = q
      BY <1>0, <1>1 DEF Login!TypeOK, Login!Inside
    <2> QED  BY <1>0, <1>1, <2>1 DEF Login!TypeOK, Leaves, ProcRecords, Answers
  <1>3. HeldIsStored'
    BY <1>0, <1>1 DEF HeldIsStored, Login!TypeOK, Login!Inside
  <1>4. AnswersTrue'
    BY <1>0, <1>1 DEF AnswersTrue, Login!TypeOK, Login!Inside
  <1>5. RecordFirst'
    BY <1>0, <1>1 DEF RecordFirst, Login!TypeOK, Login!Inside
  <1>6. FreshIsOwn'
    BY <1>0, <1>1 DEF FreshIsOwn, Login!TypeOK, Login!Inside, Fresh
  <1>7. Granted'
    BY <1>0, <1>1 DEF Granted, Login!TypeOK, Login!Inside
  <1>8. BehindIsLost'
    BY <1>0, <1>1 DEF BehindIsLost, Login!TypeOK, Login!Inside
  <1>9. Login!RecordHasItsSecrets'
    BY <1>0, <1>1 DEF Login!RecordHasItsSecrets, Login!TypeOK, Login!Inside
  <1>10. Login!ReuseOnlyAfterLoss'
    BY <1>0, <1>1 DEF Login!ReuseOnlyAfterLoss, Login!TypeOK, Login!Inside
  <1>11. Login!SignedOutIsRevoked'
    BY <1>0, <1>1 DEF Login!SignedOutIsRevoked, Login!TypeOK, Login!Inside
  <1> QED
    BY <1>2, <1>3, <1>4, <1>5, <1>6, <1>7, <1>8, <1>9, <1>10, <1>11 DEF LoginInv

LEMMA FreshHolds ==
  ASSUME Login!LoginAssumption, LoginInv, NEW p \in Procs, proc[p].pc \in Fresh
  PROVE  /\ proc[p].s \in Login!SignIns /\ proc[p].tok \in Login!Tokens /\ proc[p].tok.s = proc[p].s
         /\ proc[p].tok.gen = 1 /\ proc[p].tok # NoSession /\ server[proc[p].s].gen = 1
  <1>1. /\ proc[p].s \in Login!SignIns
        /\ server[proc[p].s].gen = 1
        /\ proc[p].tok = [s |-> proc[p].s, gen |-> 1]
    BY DEF LoginInv, FreshIsOwn
  <1>2. 1 \in 1 .. MaxGen
    BY DEF Login!LoginAssumption
  <1>3. [s |-> proc[p].s, gen |-> 1] \in Login!Tokens
    BY <1>1, <1>2 DEF Login!Tokens
  <1> QED  BY <1>1, <1>3 DEF Login!LoginAssumption

LEMMA LoadTakes ==
  ASSUME Login!LoginAssumption, LoginInv, NEW p \in Procs, Login!At(p, "load"),
         record # NoSession, NEW next \in {"send", "revoke"},
         next = "revoke" <=> proc[p].cmd = "logout",
         proc' = [proc EXCEPT ![p].pc = next, ![p].s = record, ![p].tok = token],
         UNCHANGED <<login_lock, Login!files, server, crashes, Login!history>>
  PROVE  LoginInv'
  <1>0. /\ Login!TypeOK /\ HeldIsStored /\ AnswersTrue /\ RecordFirst /\ FreshIsOwn
        /\ Granted /\ BehindIsLost /\ Login!RecordHasItsSecrets /\ Login!ReuseOnlyAfterLoss
        /\ Login!SignedOutIsRevoked /\ NoSession \notin Login!SignIns
    BY DEF LoginInv, Login!LoginAssumption, Login!SignIns
  <1>b. record \in Login!SignIns /\ token \in Login!Tokens /\ token.s = record /\ next \in Login!Inside \cup Login!Outside
    BY <1>0 DEF Login!TypeOK, Login!RecordHasItsSecrets, Login!Inside
  <1>a. Leaves(p, With(p, next, record, token, proc[p].answer))
    BY <1>0, <1>b, SessionLeaves
  <1>1. /\ proc'[p].pc = next /\ proc'[p].cmd = proc[p].cmd /\ proc'[p].s = record
        /\ proc'[p].tok = token /\ proc'[p].answer = proc[p].answer
        /\ \A q \in Procs : q # p => proc'[q] = proc[q]
        /\ proc' \in [Procs -> ProcRecords]
        /\ login_lock = p /\ \A q \in Procs : q # p => proc[q].pc \notin Login!Inside
    BY <1>0, <1>a, OthersOutside DEF Leaves, With, Login!At, Login!TypeOK, Login!Inside
  <1>2. Login!TypeOK'
    <2>1. \A q \in Procs : proc'[q].pc \in Login!Inside <=> login_lock' = q
      BY <1>0, <1>1 DEF Login!TypeOK, Login!Inside
    <2> QED  BY <1>0, <1>1, <2>1
                DEF Login!TypeOK, Login!files, Login!history, ProcRecords, Answers
  <1>3. HeldIsStored'
    BY <1>0, <1>1, <1>b
       DEF HeldIsStored, Login!TypeOK, Login!Inside, Login!files, Login!history, Login!At
  <1>4. AnswersTrue'
    BY <1>0, <1>1, <1>b
       DEF AnswersTrue, Login!TypeOK, Login!Inside, Login!files, Login!history, Login!At
  <1>5. RecordFirst'
    BY <1>0, <1>1, <1>b
       DEF RecordFirst, Login!TypeOK, Login!Inside, Login!files, Login!history, Login!At
  <1>6. FreshIsOwn'
    BY <1>0, <1>1, <1>b
       DEF FreshIsOwn, Login!TypeOK, Login!Inside, Fresh, Login!files, Login!history, Login!At
  <1>7. Granted'
    BY <1>0, <1>1, <1>b
       DEF Granted, Login!TypeOK, Login!Inside, Login!files, Login!history, Login!At
  <1>8. BehindIsLost'
    BY <1>0, <1>1, <1>b
       DEF BehindIsLost, Login!TypeOK, Login!Inside, Login!files, Login!history, Login!At
  <1>9. Login!RecordHasItsSecrets'
    BY <1>0, <1>1, <1>b
       DEF Login!RecordHasItsSecrets, Login!TypeOK, Login!Inside, Login!files, Login!history,
           Login!At
  <1>10. Login!ReuseOnlyAfterLoss'
    BY <1>0, <1>1, <1>b
       DEF Login!ReuseOnlyAfterLoss, Login!TypeOK, Login!Inside, Login!files, Login!history,
           Login!At
  <1>11. Login!SignedOutIsRevoked'
    BY <1>0, <1>1, <1>b
       DEF Login!SignedOutIsRevoked, Login!TypeOK, Login!Inside, Login!files, Login!history,
           Login!At
  <1> QED
    BY <1>2, <1>3, <1>4, <1>5, <1>6, <1>7, <1>8, <1>9, <1>10, <1>11 DEF LoginInv

LEMMA LoadMissing ==
  ASSUME Login!LoginAssumption, LoginInv, NEW p \in Procs, Login!At(p, "load"),
         record = NoSession,
         Login!Goto(p, "clear1"),
         UNCHANGED <<login_lock, Login!files, server, crashes, Login!history>>
  PROVE  LoginInv'
  <1>0. /\ Login!TypeOK /\ HeldIsStored /\ AnswersTrue /\ RecordFirst /\ FreshIsOwn
        /\ Granted /\ BehindIsLost /\ Login!RecordHasItsSecrets /\ Login!ReuseOnlyAfterLoss
        /\ Login!SignedOutIsRevoked /\ NoSession \notin Login!SignIns
    BY DEF LoginInv, Login!LoginAssumption, Login!SignIns
  <1>c. "clear1" \in Login!Inside \cup Login!Outside
    BY DEF Login!Inside, Login!Outside
  <1>a. Leaves(p, With(p, "clear1", proc[p].s, proc[p].tok, proc[p].answer))
    BY <1>0, <1>c, GotoLeaves
  <1>1. /\ proc'[p].pc = "clear1" /\ proc'[p].cmd = proc[p].cmd /\ proc'[p].s = proc[p].s
        /\ proc'[p].tok = proc[p].tok /\ proc'[p].answer = proc[p].answer
        /\ \A q \in Procs : q # p => proc'[q] = proc[q]
        /\ proc' \in [Procs -> ProcRecords]
        /\ login_lock = p /\ \A q \in Procs : q # p => proc[q].pc \notin Login!Inside
    BY <1>0, <1>a, OthersOutside DEF Leaves, With, Login!At, Login!TypeOK, Login!Inside
  <1>2. Login!TypeOK'
    <2>1. \A q \in Procs : proc'[q].pc \in Login!Inside <=> login_lock' = q
      BY <1>0, <1>1 DEF Login!TypeOK, Login!Inside
    <2> QED  BY <1>0, <1>1, <2>1
                DEF Login!TypeOK, Login!files, Login!history, ProcRecords, Answers
  <1>3. HeldIsStored'
    BY <1>0, <1>1
       DEF HeldIsStored, Login!TypeOK, Login!Inside, Login!files, Login!history, Login!At
  <1>4. AnswersTrue'
    BY <1>0, <1>1
       DEF AnswersTrue, Login!TypeOK, Login!Inside, Login!files, Login!history, Login!At
  <1>5. RecordFirst'
    BY <1>0, <1>1
       DEF RecordFirst, Login!TypeOK, Login!Inside, Login!files, Login!history, Login!At
  <1>6. FreshIsOwn'
    BY <1>0, <1>1
       DEF FreshIsOwn, Login!TypeOK, Login!Inside, Fresh, Login!files, Login!history, Login!At
  <1>7. Granted'
    BY <1>0, <1>1 DEF Granted, Login!TypeOK, Login!Inside, Login!files, Login!history, Login!At
  <1>8. BehindIsLost'
    BY <1>0, <1>1
       DEF BehindIsLost, Login!TypeOK, Login!Inside, Login!files, Login!history, Login!At
  <1>9. Login!RecordHasItsSecrets'
    BY <1>0, <1>1
       DEF Login!RecordHasItsSecrets, Login!TypeOK, Login!Inside, Login!files, Login!history,
           Login!At
  <1>10. Login!ReuseOnlyAfterLoss'
    BY <1>0, <1>1
       DEF Login!ReuseOnlyAfterLoss, Login!TypeOK, Login!Inside, Login!files, Login!history,
           Login!At
  <1>11. Login!SignedOutIsRevoked'
    BY <1>0, <1>1
       DEF Login!SignedOutIsRevoked, Login!TypeOK, Login!Inside, Login!files, Login!history,
           Login!At
  <1> QED
    BY <1>2, <1>3, <1>4, <1>5, <1>6, <1>7, <1>8, <1>9, <1>10, <1>11 DEF LoginInv

LEMMA NonceDemandedKeeps ==
  ASSUME Login!LoginAssumption, LoginInv, NEW p \in Procs, Login!At(p, "send"),
         Login!Goto(p, "resend"),
         UNCHANGED <<login_lock, Login!files, server, crashes, Login!history>>
  PROVE  LoginInv'
  <1>0. /\ Login!TypeOK /\ HeldIsStored /\ AnswersTrue /\ RecordFirst /\ FreshIsOwn
        /\ Granted /\ BehindIsLost /\ Login!RecordHasItsSecrets /\ Login!ReuseOnlyAfterLoss
        /\ Login!SignedOutIsRevoked /\ NoSession \notin Login!SignIns
    BY DEF LoginInv, Login!LoginAssumption, Login!SignIns
  <1>c. "resend" \in Login!Inside \cup Login!Outside
    BY DEF Login!Inside, Login!Outside
  <1>a. Leaves(p, With(p, "resend", proc[p].s, proc[p].tok, proc[p].answer))
    BY <1>0, <1>c, GotoLeaves
  <1>1. /\ proc'[p].pc = "resend" /\ proc'[p].cmd = proc[p].cmd /\ proc'[p].s = proc[p].s
        /\ proc'[p].tok = proc[p].tok /\ proc'[p].answer = proc[p].answer
        /\ \A q \in Procs : q # p => proc'[q] = proc[q]
        /\ proc' \in [Procs -> ProcRecords]
        /\ login_lock = p /\ \A q \in Procs : q # p => proc[q].pc \notin Login!Inside
    BY <1>0, <1>a, OthersOutside DEF Leaves, With, Login!At, Login!TypeOK, Login!Inside
  <1>2. Login!TypeOK'
    <2>1. \A q \in Procs : proc'[q].pc \in Login!Inside <=> login_lock' = q
      BY <1>0, <1>1 DEF Login!TypeOK, Login!Inside
    <2> QED  BY <1>0, <1>1, <2>1
                DEF Login!TypeOK, Login!files, Login!history, ProcRecords, Answers
  <1>3. HeldIsStored'
    BY <1>0, <1>1
       DEF HeldIsStored, Login!TypeOK, Login!Inside, Login!files, Login!history, Login!At
  <1>4. AnswersTrue'
    BY <1>0, <1>1
       DEF AnswersTrue, Login!TypeOK, Login!Inside, Login!files, Login!history, Login!At
  <1>5. RecordFirst'
    BY <1>0, <1>1
       DEF RecordFirst, Login!TypeOK, Login!Inside, Login!files, Login!history, Login!At
  <1>6. FreshIsOwn'
    BY <1>0, <1>1
       DEF FreshIsOwn, Login!TypeOK, Login!Inside, Fresh, Login!files, Login!history, Login!At
  <1>7. Granted'
    BY <1>0, <1>1 DEF Granted, Login!TypeOK, Login!Inside, Login!files, Login!history, Login!At
  <1>8. BehindIsLost'
    BY <1>0, <1>1
       DEF BehindIsLost, Login!TypeOK, Login!Inside, Login!files, Login!history, Login!At
  <1>9. Login!RecordHasItsSecrets'
    BY <1>0, <1>1
       DEF Login!RecordHasItsSecrets, Login!TypeOK, Login!Inside, Login!files, Login!history,
           Login!At
  <1>10. Login!ReuseOnlyAfterLoss'
    BY <1>0, <1>1
       DEF Login!ReuseOnlyAfterLoss, Login!TypeOK, Login!Inside, Login!files, Login!history,
           Login!At
  <1>11. Login!SignedOutIsRevoked'
    BY <1>0, <1>1
       DEF Login!SignedOutIsRevoked, Login!TypeOK, Login!Inside, Login!files, Login!history,
           Login!At
  <1> QED
    BY <1>2, <1>3, <1>4, <1>5, <1>6, <1>7, <1>8, <1>9, <1>10, <1>11 DEF LoginInv

LEMMA TargetRefused ==
  ASSUME Login!LoginAssumption, LoginInv, NEW p \in Procs,
         Login!At(p, "send") \/ Login!At(p, "resend"),
         proc' = [proc EXCEPT ![p].pc = "reply", ![p].answer = "invalid_target"],
         UNCHANGED <<login_lock, Login!files, server, crashes, Login!history>>
  PROVE  LoginInv'
  <1>0. /\ Login!TypeOK /\ HeldIsStored /\ AnswersTrue /\ RecordFirst /\ FreshIsOwn
        /\ Granted /\ BehindIsLost /\ Login!RecordHasItsSecrets /\ Login!ReuseOnlyAfterLoss
        /\ Login!SignedOutIsRevoked /\ NoSession \notin Login!SignIns
    BY DEF LoginInv, Login!LoginAssumption, Login!SignIns
  <1>c. "reply" \in Login!Inside \cup Login!Outside /\ "invalid_target" \in Answers
    BY DEF Login!Inside, Login!Outside, Answers
  <1>a. Leaves(p, With(p, "reply", proc[p].s, proc[p].tok, "invalid_target"))
    BY <1>0, <1>c, AnswerLeaves
  <1>1. /\ proc'[p].pc = "reply" /\ proc'[p].cmd = proc[p].cmd /\ proc'[p].s = proc[p].s
        /\ proc'[p].tok = proc[p].tok /\ proc'[p].answer = "invalid_target"
        /\ \A q \in Procs : q # p => proc'[q] = proc[q]
        /\ proc' \in [Procs -> ProcRecords]
        /\ login_lock = p /\ \A q \in Procs : q # p => proc[q].pc \notin Login!Inside
    BY <1>0, <1>a, OthersOutside DEF Leaves, With, Login!At, Login!TypeOK, Login!Inside
  <1>2. Login!TypeOK'
    <2>1. \A q \in Procs : proc'[q].pc \in Login!Inside <=> login_lock' = q
      BY <1>0, <1>1 DEF Login!TypeOK, Login!Inside
    <2> QED  BY <1>0, <1>1, <2>1
                DEF Login!TypeOK, Login!files, Login!history, ProcRecords, Answers
  <1>3. HeldIsStored'
    BY <1>0, <1>1
       DEF HeldIsStored, Login!TypeOK, Login!Inside, Login!files, Login!history, Login!At
  <1>4. AnswersTrue'
    BY <1>0, <1>1
       DEF AnswersTrue, Login!TypeOK, Login!Inside, Login!files, Login!history, Login!At
  <1>5. RecordFirst'
    BY <1>0, <1>1
       DEF RecordFirst, Login!TypeOK, Login!Inside, Login!files, Login!history, Login!At
  <1>6. FreshIsOwn'
    BY <1>0, <1>1
       DEF FreshIsOwn, Login!TypeOK, Login!Inside, Fresh, Login!files, Login!history, Login!At
  <1>7. Granted'
    BY <1>0, <1>1 DEF Granted, Login!TypeOK, Login!Inside, Login!files, Login!history, Login!At
  <1>8. BehindIsLost'
    BY <1>0, <1>1
       DEF BehindIsLost, Login!TypeOK, Login!Inside, Login!files, Login!history, Login!At
  <1>9. Login!RecordHasItsSecrets'
    BY <1>0, <1>1
       DEF Login!RecordHasItsSecrets, Login!TypeOK, Login!Inside, Login!files, Login!history,
           Login!At
  <1>10. Login!ReuseOnlyAfterLoss'
    BY <1>0, <1>1
       DEF Login!ReuseOnlyAfterLoss, Login!TypeOK, Login!Inside, Login!files, Login!history,
           Login!At
  <1>11. Login!SignedOutIsRevoked'
    BY <1>0, <1>1
       DEF Login!SignedOutIsRevoked, Login!TypeOK, Login!Inside, Login!files, Login!history,
           Login!At
  <1> QED
    BY <1>2, <1>3, <1>4, <1>5, <1>6, <1>7, <1>8, <1>9, <1>10, <1>11 DEF LoginInv

LEMMA TokenRotates ==
  ASSUME Login!LoginAssumption, LoginInv, NEW p \in Procs,
         Login!At(p, "send") \/ Login!At(p, "resend"),
         Login!Platform(proc[p].tok) = "rotated", proc[p].tok.gen < MaxGen,
         server' = [server EXCEPT ![proc[p].tok.s].gen = proc[p].tok.gen + 1],
         proc' = [proc EXCEPT ![p].pc = "reply", ![p].answer = "rotated",
                              ![p].tok.gen = proc[p].tok.gen + 1],
         UNCHANGED <<login_lock, Login!files, crashes, Login!history>>
  PROVE  LoginInv'
  <1>0. /\ Login!TypeOK /\ HeldIsStored /\ AnswersTrue /\ RecordFirst /\ FreshIsOwn
        /\ Granted /\ BehindIsLost /\ Login!RecordHasItsSecrets /\ Login!ReuseOnlyAfterLoss
        /\ Login!SignedOutIsRevoked /\ NoSession \notin Login!SignIns
    BY DEF LoginInv, Login!LoginAssumption, Login!SignIns
  <1>b. /\ record \in Login!SignIns /\ proc[p].s = record /\ proc[p].tok \in Login!Tokens
        /\ proc[p].tok = token /\ token.s = record /\ token # NoSession
    BY <1>0 DEF Login!At, HeldIsStored, Login!TypeOK, Login!RecordHasItsSecrets
  <1>c. proc[p].tok.gen + 1 \in 1 .. MaxGen /\ proc[p].tok.gen + 1 \in 0 .. MaxGen
    BY <1>b DEF Login!Tokens, Login!LoginAssumption
  <1>d. /\ server'[record].gen = token.gen + 1 /\ server'[record].st = server[record].st
        /\ \A s \in Login!SignIns : s # record => server'[s] = server[s]
        /\ server' \in [Login!SignIns -> [st : {"none", "open", "revoked"}, gen : 0 .. MaxGen]]
    BY <1>0, <1>b, <1>c DEF Login!TypeOK
  <1>e. server[record].st = "open"
    BY <1>b DEF Login!Platform
  <1> DEFINE t == [s |-> proc[p].tok.s, gen |-> proc[p].tok.gen + 1]
  <1>h. Leaves(p, With(p, "reply", proc[p].s, t, "rotated"))
    BY <1>0, <1>b, <1>c, RotatedLeaves
  <1>i. t \in Login!Tokens /\ t.s = record /\ t.gen = token.gen + 1
    BY <1>b, <1>c DEF Login!Tokens
  <1> HIDE DEF t
  <1>a. Leaves(p, With(p, "reply", proc[p].s, t, "rotated"))
    BY <1>h
  <1>1. /\ proc'[p].pc = "reply" /\ proc'[p].cmd = proc[p].cmd /\ proc'[p].s = proc[p].s
        /\ proc'[p].tok = t /\ proc'[p].answer = "rotated"
        /\ \A q \in Procs : q # p => proc'[q] = proc[q]
        /\ proc' \in [Procs -> ProcRecords]
        /\ login_lock = p /\ \A q \in Procs : q # p => proc[q].pc \notin Login!Inside
    <2>1. /\ proc'[p] = With(p, "reply", proc[p].s, t, "rotated") /\ \A q \in Procs : q # p => proc'[q] = proc[q]
          /\ proc' \in [Procs -> ProcRecords]
      BY <1>a DEF Leaves
    <2>2. /\ /\ "reply" \in Login!Inside \cup Login!Outside
          /\ "rotated" \in Answers
          /\ proc[p].s \in Login!SignIns \cup {NoSession}
          /\ proc[p].answer \in Answers
      BY <1>0, ProcTyped DEF Login!Inside, Login!Outside, Answers, ProcRecords
    <2>3. /\ /\ With(p, "reply", proc[p].s, t, "rotated").pc = "reply"
          /\ With(p, "reply", proc[p].s, t, "rotated").cmd = proc[p].cmd
          /\ With(p, "reply", proc[p].s, t, "rotated").s = proc[p].s /\ With(p, "reply", proc[p].s, t, "rotated").tok = t
          /\ With(p, "reply", proc[p].s, t, "rotated").answer = "rotated"
      BY <1>0, <1>i, <2>2, WithTyped
    <2>4. login_lock = p => \A q \in Procs : q # p => proc[q].pc \notin Login!Inside
      BY <1>0, OthersOutside
    <2>5. proc[p].pc \in Login!Inside => login_lock = p
      BY <1>0 DEF Login!TypeOK
    <2> QED  BY <2>1, <2>3, <2>4, <2>5 DEF Login!At, Login!Inside
  <1>f. proc'[p].tok \in Login!Tokens /\ proc'[p].tok.s = record /\ proc'[p].tok.gen = token.gen + 1
    BY <1>1, <1>i
  <1>g. \A q \in Procs : q # p /\ proc[q].s # NoSession => proc[q].s \in Login!SignIns
    BY <1>0, ProcTyped DEF ProcRecords
  <1>2. Login!TypeOK'
    <2>1. \A q \in Procs : proc'[q].pc \in Login!Inside <=> login_lock' = q
      BY <1>0, <1>1 DEF Login!TypeOK, Login!Inside
    <2> QED  BY <1>0, <1>1, <2>1, <1>d
                DEF Login!TypeOK, Login!files, Login!history, ProcRecords, Answers
  <1>3. HeldIsStored'
    BY <1>0, <1>1, <1>b, <1>d, <1>e, <1>f, <1>g
       DEF HeldIsStored, Login!TypeOK, Login!Inside, Login!files, Login!history, Login!At
  <1>4. AnswersTrue'
    BY <1>0, <1>1, <1>b, <1>d, <1>e, <1>f, <1>g
       DEF AnswersTrue, Login!TypeOK, Login!Inside, Login!files, Login!history, Login!At
  <1>5. RecordFirst'
    BY <1>0, <1>1, <1>b, <1>d, <1>e, <1>f, <1>g
       DEF RecordFirst, Login!TypeOK, Login!Inside, Login!files, Login!history, Login!At
  <1>6. FreshIsOwn'
    BY <1>0, <1>1, <1>b, <1>d, <1>e, <1>f, <1>g
       DEF FreshIsOwn, Login!TypeOK, Login!Inside, Fresh, Login!files, Login!history, Login!At
  <1>7. Granted'
    BY <1>0, <1>1, <1>b, <1>d, <1>e, <1>f, <1>g
       DEF Granted, Login!TypeOK, Login!Inside, Login!files, Login!history, Login!At
  <1>8. BehindIsLost'
    BY <1>0, <1>1, <1>b, <1>d, <1>e, <1>f, <1>g
       DEF BehindIsLost, Login!TypeOK, Login!Inside, Login!files, Login!history, Login!At
  <1>9. Login!RecordHasItsSecrets'
    BY <1>0, <1>1, <1>b, <1>d, <1>e, <1>f, <1>g
       DEF Login!RecordHasItsSecrets, Login!TypeOK, Login!Inside, Login!files, Login!history,
           Login!At
  <1>10. Login!ReuseOnlyAfterLoss'
    BY <1>0, <1>1, <1>b, <1>d, <1>e, <1>f, <1>g
       DEF Login!ReuseOnlyAfterLoss, Login!TypeOK, Login!Inside, Login!files, Login!history,
           Login!At
  <1>11. Login!SignedOutIsRevoked'
    BY <1>0, <1>1, <1>b, <1>d, <1>e, <1>f, <1>g
       DEF Login!SignedOutIsRevoked, Login!TypeOK, Login!Inside, Login!files, Login!history,
           Login!At
  <1> QED
    BY <1>2, <1>3, <1>4, <1>5, <1>6, <1>7, <1>8, <1>9, <1>10, <1>11 DEF LoginInv

LEMMA TokenRefused ==
  ASSUME Login!LoginAssumption, LoginInv, NEW p \in Procs,
         Login!At(p, "send") \/ Login!At(p, "resend"),
         Login!Platform(proc[p].tok) = "invalid_grant",
         reused' = IF proc[p].tok.gen < server[proc[p].tok.s].gen
                   THEN reused \cup {proc[p].tok.s} ELSE reused,
         server' = [server EXCEPT ![proc[p].tok.s].st = "revoked"],
         proc' = [proc EXCEPT ![p].pc = "reply", ![p].answer = "invalid_grant"],
         UNCHANGED <<login_lock, Login!files, crashes, lost, out, vanished>>
  PROVE  LoginInv'
  <1>0. /\ Login!TypeOK /\ HeldIsStored /\ AnswersTrue /\ RecordFirst /\ FreshIsOwn
        /\ Granted /\ BehindIsLost /\ Login!RecordHasItsSecrets /\ Login!ReuseOnlyAfterLoss
        /\ Login!SignedOutIsRevoked /\ NoSession \notin Login!SignIns
    BY DEF LoginInv, Login!LoginAssumption, Login!SignIns
  <1>b. /\ record \in Login!SignIns /\ proc[p].s = record /\ proc[p].tok \in Login!Tokens
        /\ proc[p].tok = token /\ token.s = record /\ token # NoSession
    BY <1>0 DEF Login!At, HeldIsStored, Login!TypeOK, Login!RecordHasItsSecrets
  <1>d. /\ server'[record].gen = server[record].gen /\ server'[record].st = "revoked"
        /\ \A s \in Login!SignIns : s # record => server'[s] = server[s]
        /\ server' \in [Login!SignIns -> [st : {"none", "open", "revoked"}, gen : 0 .. MaxGen]]
    BY <1>0, <1>b DEF Login!TypeOK
  <1>c. "reply" \in Login!Inside \cup Login!Outside /\ "invalid_grant" \in Answers
    BY DEF Login!Inside, Login!Outside, Answers
  <1>a. Leaves(p, With(p, "reply", proc[p].s, proc[p].tok, "invalid_grant"))
    BY <1>0, <1>c, AnswerLeaves
  <1>1. /\ proc'[p].pc = "reply" /\ proc'[p].cmd = proc[p].cmd /\ proc'[p].s = proc[p].s
        /\ proc'[p].tok = proc[p].tok /\ proc'[p].answer = "invalid_grant"
        /\ \A q \in Procs : q # p => proc'[q] = proc[q]
        /\ proc' \in [Procs -> ProcRecords]
        /\ login_lock = p /\ \A q \in Procs : q # p => proc[q].pc \notin Login!Inside
    BY <1>0, <1>a, OthersOutside DEF Leaves, With, Login!At, Login!TypeOK, Login!Inside
  <1>f. reused' \subseteq reused \cup {record}
    BY <1>b
  <1>g. \A q \in Procs : q # p /\ proc[q].s # NoSession => proc[q].s \in Login!SignIns
    BY <1>0, ProcTyped DEF ProcRecords
  <1>2. Login!TypeOK'
    <2>1. \A q \in Procs : proc'[q].pc \in Login!Inside <=> login_lock' = q
      BY <1>0, <1>1 DEF Login!TypeOK, Login!Inside
    <2> QED  BY <1>0, <1>1, <2>1, <1>b, <1>d, <1>f
                DEF Login!TypeOK, Login!files, Login!history, ProcRecords, Answers
  <1>3. HeldIsStored'
    BY <1>0, <1>1, <1>b, <1>d, <1>g
       DEF HeldIsStored, Login!TypeOK, Login!Inside, Login!files, Login!history, Login!At,
           BehindIsLost
  <1>4. AnswersTrue'
    BY <1>0, <1>1, <1>b, <1>d, <1>g
       DEF AnswersTrue, Login!TypeOK, Login!Inside, Login!files, Login!history, Login!At,
           BehindIsLost
  <1>5. RecordFirst'
    BY <1>0, <1>1, <1>b, <1>d, <1>g
       DEF RecordFirst, Login!TypeOK, Login!Inside, Login!files, Login!history, Login!At,
           BehindIsLost
  <1>6. FreshIsOwn'
    BY <1>0, <1>1, <1>b, <1>d, <1>g
       DEF FreshIsOwn, Login!TypeOK, Login!Inside, Fresh, Login!files, Login!history, Login!At,
           BehindIsLost
  <1>7. Granted'
    BY <1>0, <1>1, <1>b, <1>d, <1>g
       DEF Granted, Login!TypeOK, Login!Inside, Login!files, Login!history, Login!At,
           BehindIsLost
  <1>8. BehindIsLost'
    BY <1>0, <1>1, <1>b, <1>d, <1>g
       DEF BehindIsLost, Login!TypeOK, Login!Inside, Login!files, Login!history, Login!At
  <1>9. Login!RecordHasItsSecrets'
    BY <1>0, <1>1, <1>b, <1>d, <1>g
       DEF Login!RecordHasItsSecrets, Login!TypeOK, Login!Inside, Login!files, Login!history,
           Login!At, BehindIsLost
  <1>10. Login!ReuseOnlyAfterLoss'
    BY <1>0, <1>1, <1>b, <1>d, <1>g
       DEF Login!ReuseOnlyAfterLoss, Login!TypeOK, Login!Inside, Login!files, Login!history,
           Login!At, BehindIsLost
  <1>11. Login!SignedOutIsRevoked'
    BY <1>0, <1>1, <1>b, <1>d, <1>g
       DEF Login!SignedOutIsRevoked, Login!TypeOK, Login!Inside, Login!files, Login!history,
           Login!At, BehindIsLost
  <1> QED
    BY <1>2, <1>3, <1>4, <1>5, <1>6, <1>7, <1>8, <1>9, <1>10, <1>11 DEF LoginInv

LEMMA AnswerStored ==
  ASSUME Login!LoginAssumption, LoginInv, NEW p \in Procs, Login!At(p, "reply"),
         proc[p].answer = "rotated",
         token' = proc[p].tok, Login!Goto(p, "save"), UNCHANGED <<login_lock, lost>>,
         UNCHANGED <<record, key, server, crashes, reused, out, vanished>>
  PROVE  LoginInv'
  <1>0. /\ Login!TypeOK /\ HeldIsStored /\ AnswersTrue /\ RecordFirst /\ FreshIsOwn
        /\ Granted /\ BehindIsLost /\ Login!RecordHasItsSecrets /\ Login!ReuseOnlyAfterLoss
        /\ Login!SignedOutIsRevoked /\ NoSession \notin Login!SignIns
    BY DEF LoginInv, Login!LoginAssumption, Login!SignIns
  <1>b. /\ record \in Login!SignIns /\ proc[p].s = record /\ proc[p].tok \in Login!Tokens
        /\ proc[p].tok.s = record /\ proc[p].tok # NoSession /\ proc[p].tok.gen = server[record].gen
        /\ server[record].gen \in 0 .. MaxGen
    BY <1>0 DEF Login!At, HeldIsStored, AnswersTrue, Login!TypeOK, Login!LoginAssumption
  <1>c. "save" \in Login!Inside \cup Login!Outside
    BY DEF Login!Inside, Login!Outside
  <1>a. Leaves(p, With(p, "save", proc[p].s, proc[p].tok, proc[p].answer))
    BY <1>0, <1>c, GotoLeaves
  <1>1. /\ proc'[p].pc = "save" /\ proc'[p].cmd = proc[p].cmd /\ proc'[p].s = proc[p].s
        /\ proc'[p].tok = proc[p].tok /\ proc'[p].answer = proc[p].answer
        /\ \A q \in Procs : q # p => proc'[q] = proc[q]
        /\ proc' \in [Procs -> ProcRecords]
        /\ login_lock = p /\ \A q \in Procs : q # p => proc[q].pc \notin Login!Inside
    BY <1>0, <1>a, OthersOutside DEF Leaves, With, Login!At, Login!TypeOK, Login!Inside
  <1>2. Login!TypeOK'
    <2>1. \A q \in Procs : proc'[q].pc \in Login!Inside <=> login_lock' = q
      BY <1>0, <1>1 DEF Login!TypeOK, Login!Inside
    <2> QED  BY <1>0, <1>1, <2>1, <1>b
                DEF Login!TypeOK, Login!files, Login!history, ProcRecords, Answers
  <1>3. HeldIsStored'
    BY <1>0, <1>1, <1>b
       DEF HeldIsStored, Login!TypeOK, Login!Inside, Login!files, Login!history, Login!At
  <1>4. AnswersTrue'
    BY <1>0, <1>1, <1>b
       DEF AnswersTrue, Login!TypeOK, Login!Inside, Login!files, Login!history, Login!At
  <1>5. RecordFirst'
    BY <1>0, <1>1, <1>b
       DEF RecordFirst, Login!TypeOK, Login!Inside, Login!files, Login!history, Login!At
  <1>6. FreshIsOwn'
    BY <1>0, <1>1, <1>b
       DEF FreshIsOwn, Login!TypeOK, Login!Inside, Fresh, Login!files, Login!history, Login!At
  <1>7. Granted'
    BY <1>0, <1>1, <1>b
       DEF Granted, Login!TypeOK, Login!Inside, Login!files, Login!history, Login!At
  <1>8. BehindIsLost'
    BY <1>0, <1>1, <1>b
       DEF BehindIsLost, Login!TypeOK, Login!Inside, Login!files, Login!history, Login!At
  <1>9. Login!RecordHasItsSecrets'
    BY <1>0, <1>1, <1>b
       DEF Login!RecordHasItsSecrets, Login!TypeOK, Login!Inside, Login!files, Login!history,
           Login!At
  <1>10. Login!ReuseOnlyAfterLoss'
    BY <1>0, <1>1, <1>b
       DEF Login!ReuseOnlyAfterLoss, Login!TypeOK, Login!Inside, Login!files, Login!history,
           Login!At
  <1>11. Login!SignedOutIsRevoked'
    BY <1>0, <1>1, <1>b
       DEF Login!SignedOutIsRevoked, Login!TypeOK, Login!Inside, Login!files, Login!history,
           Login!At
  <1> QED
    BY <1>2, <1>3, <1>4, <1>5, <1>6, <1>7, <1>8, <1>9, <1>10, <1>11 DEF LoginInv

LEMMA AnswerRefused ==
  ASSUME Login!LoginAssumption, LoginInv, NEW p \in Procs, Login!At(p, "reply"),
         proc[p].answer = "invalid_grant",
         Login!Goto(p, "clear1"),
         UNCHANGED <<login_lock, Login!files, server, crashes, Login!history>>
  PROVE  LoginInv'
  <1>0. /\ Login!TypeOK /\ HeldIsStored /\ AnswersTrue /\ RecordFirst /\ FreshIsOwn
        /\ Granted /\ BehindIsLost /\ Login!RecordHasItsSecrets /\ Login!ReuseOnlyAfterLoss
        /\ Login!SignedOutIsRevoked /\ NoSession \notin Login!SignIns
    BY DEF LoginInv, Login!LoginAssumption, Login!SignIns
  <1>c. "clear1" \in Login!Inside \cup Login!Outside
    BY DEF Login!Inside, Login!Outside
  <1>a. Leaves(p, With(p, "clear1", proc[p].s, proc[p].tok, proc[p].answer))
    BY <1>0, <1>c, GotoLeaves
  <1>1. /\ proc'[p].pc = "clear1" /\ proc'[p].cmd = proc[p].cmd /\ proc'[p].s = proc[p].s
        /\ proc'[p].tok = proc[p].tok /\ proc'[p].answer = proc[p].answer
        /\ \A q \in Procs : q # p => proc'[q] = proc[q]
        /\ proc' \in [Procs -> ProcRecords]
        /\ login_lock = p /\ \A q \in Procs : q # p => proc[q].pc \notin Login!Inside
    BY <1>0, <1>a, OthersOutside DEF Leaves, With, Login!At, Login!TypeOK, Login!Inside
  <1>2. Login!TypeOK'
    <2>1. \A q \in Procs : proc'[q].pc \in Login!Inside <=> login_lock' = q
      BY <1>0, <1>1 DEF Login!TypeOK, Login!Inside
    <2> QED  BY <1>0, <1>1, <2>1
                DEF Login!TypeOK, Login!files, Login!history, ProcRecords, Answers
  <1>3. HeldIsStored'
    BY <1>0, <1>1
       DEF HeldIsStored, Login!TypeOK, Login!Inside, Login!files, Login!history, Login!At,
           AnswersTrue
  <1>4. AnswersTrue'
    BY <1>0, <1>1
       DEF AnswersTrue, Login!TypeOK, Login!Inside, Login!files, Login!history, Login!At,
           HeldIsStored
  <1>5. RecordFirst'
    BY <1>0, <1>1
       DEF RecordFirst, Login!TypeOK, Login!Inside, Login!files, Login!history, Login!At,
           AnswersTrue, HeldIsStored
  <1>6. FreshIsOwn'
    BY <1>0, <1>1
       DEF FreshIsOwn, Login!TypeOK, Login!Inside, Fresh, Login!files, Login!history, Login!At,
           AnswersTrue
  <1>7. Granted'
    BY <1>0, <1>1
       DEF Granted, Login!TypeOK, Login!Inside, Login!files, Login!history, Login!At,
           AnswersTrue, HeldIsStored
  <1>8. BehindIsLost'
    BY <1>0, <1>1
       DEF BehindIsLost, Login!TypeOK, Login!Inside, Login!files, Login!history, Login!At,
           AnswersTrue, HeldIsStored
  <1>9. Login!RecordHasItsSecrets'
    BY <1>0, <1>1
       DEF Login!RecordHasItsSecrets, Login!TypeOK, Login!Inside, Login!files, Login!history,
           Login!At, AnswersTrue, HeldIsStored
  <1>10. Login!ReuseOnlyAfterLoss'
    BY <1>0, <1>1
       DEF Login!ReuseOnlyAfterLoss, Login!TypeOK, Login!Inside, Login!files, Login!history,
           Login!At, AnswersTrue, HeldIsStored
  <1>11. Login!SignedOutIsRevoked'
    BY <1>0, <1>1
       DEF Login!SignedOutIsRevoked, Login!TypeOK, Login!Inside, Login!files, Login!history,
           Login!At, AnswersTrue, HeldIsStored
  <1> QED
    BY <1>2, <1>3, <1>4, <1>5, <1>6, <1>7, <1>8, <1>9, <1>10, <1>11 DEF LoginInv

LEMMA RevocationFails ==
  ASSUME Login!LoginAssumption, LoginInv, NEW p \in Procs, Login!At(p, "revoke"),
         Login!Goto(p, "clear1"),
         UNCHANGED <<server, login_lock, Login!files, crashes, Login!history>>
  PROVE  LoginInv'
  <1>0. /\ Login!TypeOK /\ HeldIsStored /\ AnswersTrue /\ RecordFirst /\ FreshIsOwn
        /\ Granted /\ BehindIsLost /\ Login!RecordHasItsSecrets /\ Login!ReuseOnlyAfterLoss
        /\ Login!SignedOutIsRevoked /\ NoSession \notin Login!SignIns
    BY DEF LoginInv, Login!LoginAssumption, Login!SignIns
  <1>c. "clear1" \in Login!Inside \cup Login!Outside
    BY DEF Login!Inside, Login!Outside
  <1>a. Leaves(p, With(p, "clear1", proc[p].s, proc[p].tok, proc[p].answer))
    BY <1>0, <1>c, GotoLeaves
  <1>1. /\ proc'[p].pc = "clear1" /\ proc'[p].cmd = proc[p].cmd /\ proc'[p].s = proc[p].s
        /\ proc'[p].tok = proc[p].tok /\ proc'[p].answer = proc[p].answer
        /\ \A q \in Procs : q # p => proc'[q] = proc[q]
        /\ proc' \in [Procs -> ProcRecords]
        /\ login_lock = p /\ \A q \in Procs : q # p => proc[q].pc \notin Login!Inside
    BY <1>0, <1>a, OthersOutside DEF Leaves, With, Login!At, Login!TypeOK, Login!Inside
  <1>2. Login!TypeOK'
    <2>1. \A q \in Procs : proc'[q].pc \in Login!Inside <=> login_lock' = q
      BY <1>0, <1>1 DEF Login!TypeOK, Login!Inside
    <2> QED  BY <1>0, <1>1, <2>1
                DEF Login!TypeOK, Login!files, Login!history, ProcRecords, Answers
  <1>3. HeldIsStored'
    BY <1>0, <1>1
       DEF HeldIsStored, Login!TypeOK, Login!Inside, Login!files, Login!history, Login!At
  <1>4. AnswersTrue'
    BY <1>0, <1>1
       DEF AnswersTrue, Login!TypeOK, Login!Inside, Login!files, Login!history, Login!At,
           HeldIsStored
  <1>5. RecordFirst'
    BY <1>0, <1>1
       DEF RecordFirst, Login!TypeOK, Login!Inside, Login!files, Login!history, Login!At,
           HeldIsStored
  <1>6. FreshIsOwn'
    BY <1>0, <1>1
       DEF FreshIsOwn, Login!TypeOK, Login!Inside, Fresh, Login!files, Login!history, Login!At
  <1>7. Granted'
    BY <1>0, <1>1
       DEF Granted, Login!TypeOK, Login!Inside, Login!files, Login!history, Login!At,
           HeldIsStored
  <1>8. BehindIsLost'
    BY <1>0, <1>1
       DEF BehindIsLost, Login!TypeOK, Login!Inside, Login!files, Login!history, Login!At,
           HeldIsStored
  <1>9. Login!RecordHasItsSecrets'
    BY <1>0, <1>1
       DEF Login!RecordHasItsSecrets, Login!TypeOK, Login!Inside, Login!files, Login!history,
           Login!At, HeldIsStored
  <1>10. Login!ReuseOnlyAfterLoss'
    BY <1>0, <1>1
       DEF Login!ReuseOnlyAfterLoss, Login!TypeOK, Login!Inside, Login!files, Login!history,
           Login!At, HeldIsStored
  <1>11. Login!SignedOutIsRevoked'
    BY <1>0, <1>1
       DEF Login!SignedOutIsRevoked, Login!TypeOK, Login!Inside, Login!files, Login!history,
           Login!At, HeldIsStored
  <1> QED
    BY <1>2, <1>3, <1>4, <1>5, <1>6, <1>7, <1>8, <1>9, <1>10, <1>11 DEF LoginInv

LEMMA SessionRevoked ==
  ASSUME Login!LoginAssumption, LoginInv, NEW p \in Procs, Login!At(p, "revoke"),
         NEW a \in {"revoked", "none"},
         proc' = [proc EXCEPT ![p].pc = "clear1", ![p].answer = a],
         server' = IF key = proc[p].tok.s
                   THEN [server EXCEPT ![proc[p].tok.s].st = "revoked"] ELSE server,
         UNCHANGED <<login_lock, Login!files, crashes, Login!history>>
  PROVE  LoginInv'
  <1>0. /\ Login!TypeOK /\ HeldIsStored /\ AnswersTrue /\ RecordFirst /\ FreshIsOwn
        /\ Granted /\ BehindIsLost /\ Login!RecordHasItsSecrets /\ Login!ReuseOnlyAfterLoss
        /\ Login!SignedOutIsRevoked /\ NoSession \notin Login!SignIns
    BY DEF LoginInv, Login!LoginAssumption, Login!SignIns
  <1>b. /\ record \in Login!SignIns /\ proc[p].s = record /\ proc[p].tok \in Login!Tokens /\ key = record
        /\ proc[p].tok = token /\ token.s = record /\ token # NoSession /\ proc[p].cmd = "logout"
    BY <1>0 DEF Login!At, HeldIsStored, Login!TypeOK, Login!RecordHasItsSecrets
  <1>d. /\ server'[record].gen = server[record].gen /\ server'[record].st = "revoked"
        /\ \A s \in Login!SignIns : s # record => server'[s] = server[s]
        /\ server' \in [Login!SignIns -> [st : {"none", "open", "revoked"}, gen : 0 .. MaxGen]]
    BY <1>0, <1>b DEF Login!TypeOK
  <1>c. "clear1" \in Login!Inside \cup Login!Outside /\ a \in Answers
    BY DEF Login!Inside, Login!Outside, Answers
  <1>a. Leaves(p, With(p, "clear1", proc[p].s, proc[p].tok, a))
    BY <1>0, <1>c, AnswerLeaves
  <1>1. /\ proc'[p].pc = "clear1" /\ proc'[p].cmd = proc[p].cmd /\ proc'[p].s = proc[p].s
        /\ proc'[p].tok = proc[p].tok /\ proc'[p].answer = a
        /\ \A q \in Procs : q # p => proc'[q] = proc[q]
        /\ proc' \in [Procs -> ProcRecords]
        /\ login_lock = p /\ \A q \in Procs : q # p => proc[q].pc \notin Login!Inside
    BY <1>0, <1>a, OthersOutside DEF Leaves, With, Login!At, Login!TypeOK, Login!Inside
  <1>g. \A q \in Procs : q # p /\ proc[q].s # NoSession => proc[q].s \in Login!SignIns
    BY <1>0, ProcTyped DEF ProcRecords
  <1>2. Login!TypeOK'
    <2>1. \A q \in Procs : proc'[q].pc \in Login!Inside <=> login_lock' = q
      BY <1>0, <1>1 DEF Login!TypeOK, Login!Inside
    <2> QED  BY <1>0, <1>1, <2>1, <1>b, <1>d
                DEF Login!TypeOK, Login!files, Login!history, ProcRecords, Answers
  <1>3. HeldIsStored'
    BY <1>0, <1>1, <1>b, <1>d, <1>g
       DEF HeldIsStored, Login!TypeOK, Login!Inside, Login!files, Login!history, Login!At
  <1>4. AnswersTrue'
    BY <1>0, <1>1, <1>b, <1>d, <1>g
       DEF AnswersTrue, Login!TypeOK, Login!Inside, Login!files, Login!history, Login!At
  <1>5. RecordFirst'
    BY <1>0, <1>1, <1>b, <1>d, <1>g
       DEF RecordFirst, Login!TypeOK, Login!Inside, Login!files, Login!history, Login!At
  <1>6. FreshIsOwn'
    BY <1>0, <1>1, <1>b, <1>d, <1>g
       DEF FreshIsOwn, Login!TypeOK, Login!Inside, Fresh, Login!files, Login!history, Login!At
  <1>7. Granted'
    BY <1>0, <1>1, <1>b, <1>d, <1>g
       DEF Granted, Login!TypeOK, Login!Inside, Login!files, Login!history, Login!At
  <1>8. BehindIsLost'
    BY <1>0, <1>1, <1>b, <1>d, <1>g
       DEF BehindIsLost, Login!TypeOK, Login!Inside, Login!files, Login!history, Login!At
  <1>9. Login!RecordHasItsSecrets'
    BY <1>0, <1>1, <1>b, <1>d, <1>g
       DEF Login!RecordHasItsSecrets, Login!TypeOK, Login!Inside, Login!files, Login!history,
           Login!At
  <1>10. Login!ReuseOnlyAfterLoss'
    BY <1>0, <1>1, <1>b, <1>d, <1>g
       DEF Login!ReuseOnlyAfterLoss, Login!TypeOK, Login!Inside, Login!files, Login!history,
           Login!At
  <1>11. Login!SignedOutIsRevoked'
    BY <1>0, <1>1, <1>b, <1>d, <1>g
       DEF Login!SignedOutIsRevoked, Login!TypeOK, Login!Inside, Login!files, Login!history,
           Login!At
  <1> QED
    BY <1>2, <1>3, <1>4, <1>5, <1>6, <1>7, <1>8, <1>9, <1>10, <1>11 DEF LoginInv

LEMMA RecordCleared ==
  ASSUME Login!LoginAssumption, LoginInv, NEW p \in Procs, Login!At(p, "clear1"),
         record' = NoSession,
         Login!Goto(p, "clear2"), UNCHANGED <<key, token, login_lock, out>>,
         UNCHANGED <<server, crashes, lost, reused, vanished>>
  PROVE  LoginInv'
  <1>0. /\ Login!TypeOK /\ HeldIsStored /\ AnswersTrue /\ RecordFirst /\ FreshIsOwn
        /\ Granted /\ BehindIsLost /\ Login!RecordHasItsSecrets /\ Login!ReuseOnlyAfterLoss
        /\ Login!SignedOutIsRevoked /\ NoSession \notin Login!SignIns
    BY DEF LoginInv, Login!LoginAssumption, Login!SignIns
  <1>c. "clear2" \in Login!Inside \cup Login!Outside
    BY DEF Login!Inside, Login!Outside
  <1>a. Leaves(p, With(p, "clear2", proc[p].s, proc[p].tok, proc[p].answer))
    BY <1>0, <1>c, GotoLeaves
  <1>1. /\ proc'[p].pc = "clear2" /\ proc'[p].cmd = proc[p].cmd /\ proc'[p].s = proc[p].s
        /\ proc'[p].tok = proc[p].tok /\ proc'[p].answer = proc[p].answer
        /\ \A q \in Procs : q # p => proc'[q] = proc[q]
        /\ proc' \in [Procs -> ProcRecords]
        /\ login_lock = p /\ \A q \in Procs : q # p => proc[q].pc \notin Login!Inside
    BY <1>0, <1>a, OthersOutside DEF Leaves, With, Login!At, Login!TypeOK, Login!Inside
  <1>2. Login!TypeOK'
    <2>1. \A q \in Procs : proc'[q].pc \in Login!Inside <=> login_lock' = q
      BY <1>0, <1>1 DEF Login!TypeOK, Login!Inside
    <2> QED  BY <1>0, <1>1, <2>1
                DEF Login!TypeOK, Login!files, Login!history, ProcRecords, Answers
  <1>3. HeldIsStored'
    BY <1>0, <1>1
       DEF HeldIsStored, Login!TypeOK, Login!Inside, Login!files, Login!history, Login!At
  <1>4. AnswersTrue'
    BY <1>0, <1>1
       DEF AnswersTrue, Login!TypeOK, Login!Inside, Login!files, Login!history, Login!At
  <1>5. RecordFirst'
    BY <1>0, <1>1
       DEF RecordFirst, Login!TypeOK, Login!Inside, Login!files, Login!history, Login!At
  <1>6. FreshIsOwn'
    BY <1>0, <1>1
       DEF FreshIsOwn, Login!TypeOK, Login!Inside, Fresh, Login!files, Login!history, Login!At
  <1>7. Granted'
    BY <1>0, <1>1 DEF Granted, Login!TypeOK, Login!Inside, Login!files, Login!history, Login!At
  <1>8. BehindIsLost'
    BY <1>0, <1>1
       DEF BehindIsLost, Login!TypeOK, Login!Inside, Login!files, Login!history, Login!At
  <1>9. Login!RecordHasItsSecrets'
    BY <1>0, <1>1
       DEF Login!RecordHasItsSecrets, Login!TypeOK, Login!Inside, Login!files, Login!history,
           Login!At
  <1>10. Login!ReuseOnlyAfterLoss'
    BY <1>0, <1>1
       DEF Login!ReuseOnlyAfterLoss, Login!TypeOK, Login!Inside, Login!files, Login!history,
           Login!At
  <1>11. Login!SignedOutIsRevoked'
    BY <1>0, <1>1
       DEF Login!SignedOutIsRevoked, Login!TypeOK, Login!Inside, Login!files, Login!history,
           Login!At
  <1> QED
    BY <1>2, <1>3, <1>4, <1>5, <1>6, <1>7, <1>8, <1>9, <1>10, <1>11 DEF LoginInv

LEMMA TokenCleared ==
  ASSUME Login!LoginAssumption, LoginInv, NEW p \in Procs, Login!At(p, "clear2"),
         token' = NoSession,
         Login!Goto(p, "clear3"), UNCHANGED <<record, key, login_lock, out>>,
         UNCHANGED <<server, crashes, lost, reused, vanished>>
  PROVE  LoginInv'
  <1>0. /\ Login!TypeOK /\ HeldIsStored /\ AnswersTrue /\ RecordFirst /\ FreshIsOwn
        /\ Granted /\ BehindIsLost /\ Login!RecordHasItsSecrets /\ Login!ReuseOnlyAfterLoss
        /\ Login!SignedOutIsRevoked /\ NoSession \notin Login!SignIns
    BY DEF LoginInv, Login!LoginAssumption, Login!SignIns
  <1>c. "clear3" \in Login!Inside \cup Login!Outside
    BY DEF Login!Inside, Login!Outside
  <1>a. Leaves(p, With(p, "clear3", proc[p].s, proc[p].tok, proc[p].answer))
    BY <1>0, <1>c, GotoLeaves
  <1>1. /\ proc'[p].pc = "clear3" /\ proc'[p].cmd = proc[p].cmd /\ proc'[p].s = proc[p].s
        /\ proc'[p].tok = proc[p].tok /\ proc'[p].answer = proc[p].answer
        /\ \A q \in Procs : q # p => proc'[q] = proc[q]
        /\ proc' \in [Procs -> ProcRecords]
        /\ login_lock = p /\ \A q \in Procs : q # p => proc[q].pc \notin Login!Inside
    BY <1>0, <1>a, OthersOutside DEF Leaves, With, Login!At, Login!TypeOK, Login!Inside
  <1>2. Login!TypeOK'
    <2>1. \A q \in Procs : proc'[q].pc \in Login!Inside <=> login_lock' = q
      BY <1>0, <1>1 DEF Login!TypeOK, Login!Inside
    <2> QED  BY <1>0, <1>1, <2>1
                DEF Login!TypeOK, Login!files, Login!history, ProcRecords, Answers
  <1>3. HeldIsStored'
    BY <1>0, <1>1
       DEF HeldIsStored, Login!TypeOK, Login!Inside, Login!files, Login!history, Login!At,
           RecordFirst
  <1>4. AnswersTrue'
    BY <1>0, <1>1
       DEF AnswersTrue, Login!TypeOK, Login!Inside, Login!files, Login!history, Login!At,
           RecordFirst
  <1>5. RecordFirst'
    BY <1>0, <1>1
       DEF RecordFirst, Login!TypeOK, Login!Inside, Login!files, Login!history, Login!At
  <1>6. FreshIsOwn'
    BY <1>0, <1>1
       DEF FreshIsOwn, Login!TypeOK, Login!Inside, Fresh, Login!files, Login!history, Login!At,
           RecordFirst
  <1>7. Granted'
    BY <1>0, <1>1
       DEF Granted, Login!TypeOK, Login!Inside, Login!files, Login!history, Login!At,
           RecordFirst
  <1>8. BehindIsLost'
    BY <1>0, <1>1
       DEF BehindIsLost, Login!TypeOK, Login!Inside, Login!files, Login!history, Login!At,
           RecordFirst
  <1>9. Login!RecordHasItsSecrets'
    BY <1>0, <1>1
       DEF Login!RecordHasItsSecrets, Login!TypeOK, Login!Inside, Login!files, Login!history,
           Login!At, RecordFirst
  <1>10. Login!ReuseOnlyAfterLoss'
    BY <1>0, <1>1
       DEF Login!ReuseOnlyAfterLoss, Login!TypeOK, Login!Inside, Login!files, Login!history,
           Login!At, RecordFirst
  <1>11. Login!SignedOutIsRevoked'
    BY <1>0, <1>1
       DEF Login!SignedOutIsRevoked, Login!TypeOK, Login!Inside, Login!files, Login!history,
           Login!At, RecordFirst
  <1> QED
    BY <1>2, <1>3, <1>4, <1>5, <1>6, <1>7, <1>8, <1>9, <1>10, <1>11 DEF LoginInv

LEMMA SignInGranted ==
  ASSUME Login!LoginAssumption, LoginInv, NEW p \in Procs, Login!At(p, "browser"),
         NEW s \in Login!SignIns,
         server[s].st = "none", server' = [server EXCEPT ![s] = [st |-> "open", gen |-> 1]],
         proc' = [proc EXCEPT ![p].pc = "authorized", ![p].s = s, ![p].tok = [s |-> s, gen |-> 1]],
         UNCHANGED <<login_lock, Login!files, crashes, Login!history>>
  PROVE  LoginInv'
  <1>0. /\ Login!TypeOK /\ HeldIsStored /\ AnswersTrue /\ RecordFirst /\ FreshIsOwn
        /\ Granted /\ BehindIsLost /\ Login!RecordHasItsSecrets /\ Login!ReuseOnlyAfterLoss
        /\ Login!SignedOutIsRevoked /\ NoSession \notin Login!SignIns
    BY DEF LoginInv, Login!LoginAssumption, Login!SignIns
  <1> DEFINE t == [s |-> s, gen |-> 1]
  <1>i. t \in Login!Tokens /\ t.s = s
    BY DEF Login!Tokens, Login!LoginAssumption
  <1>c. "authorized" \in Login!Inside \cup Login!Outside
    BY DEF Login!Outside
  <1>d. /\ server'[s].gen = 1 /\ server'[s].st = "open"
        /\ \A r \in Login!SignIns : r # s => server'[r] = server[r]
        /\ server' \in [Login!SignIns -> [st : {"none", "open", "revoked"}, gen : 0 .. MaxGen]]
    BY <1>0 DEF Login!TypeOK, Login!LoginAssumption
  <1>h. Leaves(p, With(p, "authorized", s, t, proc[p].answer))
    BY <1>0, <1>i, <1>c, SessionLeaves
  <1>j. t = [s |-> s, gen |-> 1]
    OBVIOUS
  <1> HIDE DEF t
  <1>a. Leaves(p, With(p, "authorized", s, t, proc[p].answer))
    BY <1>h
  <1>1. /\ proc'[p].pc = "authorized" /\ proc'[p].cmd = proc[p].cmd /\ proc'[p].s = s
        /\ proc'[p].tok = t /\ proc'[p].answer = proc[p].answer
        /\ \A q \in Procs : q # p => proc'[q] = proc[q]
        /\ proc' \in [Procs -> ProcRecords]
    <2>1. /\ proc'[p] = With(p, "authorized", s, t, proc[p].answer) /\ \A q \in Procs : q # p => proc'[q] = proc[q]
          /\ proc' \in [Procs -> ProcRecords]
      BY <1>a DEF Leaves
    <2>2. /\ /\ "authorized" \in Login!Inside \cup Login!Outside
          /\ proc[p].answer \in Answers
          /\ s \in Login!SignIns \cup {NoSession}
          /\ proc[p].answer \in Answers
      BY <1>0, ProcTyped DEF Login!Inside, Login!Outside, Answers, ProcRecords
    <2>3. /\ /\ With(p, "authorized", s, t, proc[p].answer).pc = "authorized"
          /\ With(p, "authorized", s, t, proc[p].answer).cmd = proc[p].cmd
          /\ With(p, "authorized", s, t, proc[p].answer).s = s /\ With(p, "authorized", s, t, proc[p].answer).tok = t
          /\ With(p, "authorized", s, t, proc[p].answer).answer = proc[p].answer
      BY <1>0, <1>i, <2>2, WithTyped
    <2>4. login_lock = p => \A q \in Procs : q # p => proc[q].pc \notin Login!Inside
      BY <1>0, OthersOutside
    <2>5. proc[p].pc \in Login!Inside => login_lock = p
      BY <1>0 DEF Login!TypeOK
    <2> QED  BY <2>1, <2>3, <2>4, <2>5 DEF Login!At, Login!Inside
  <1>g. /\ \A q \in Procs : proc[q].s # NoSession => proc[q].s \in Login!SignIns /\ proc[q].s # s
        /\ record # s /\ (token # NoSession => token.s # s)
        /\ proc[p].pc = "browser"
    BY <1>0, ProcTyped DEF ProcRecords, Granted, Login!At
  <1>2. Login!TypeOK'
    <2>1. \A q \in Procs : proc'[q].pc \in Login!Inside <=> login_lock' = q
      BY <1>0, <1>1, <1>g DEF Login!TypeOK, Login!Inside
    <2> QED  BY <1>0, <1>1, <2>1, <1>d
                DEF Login!TypeOK, Login!files, Login!history, ProcRecords, Answers
  <1>3. HeldIsStored'
    BY <1>0, <1>1, <1>d, <1>g, <1>i, <1>j
       DEF HeldIsStored, Login!TypeOK, Login!Inside, Login!files, Login!history, Login!Tokens
  <1>4. AnswersTrue'
    BY <1>0, <1>1, <1>d, <1>g, <1>i, <1>j
       DEF AnswersTrue, Login!TypeOK, Login!Inside, Login!files, Login!history, Login!Tokens
  <1>5. RecordFirst'
    BY <1>0, <1>1, <1>d, <1>g, <1>i, <1>j
       DEF RecordFirst, Login!TypeOK, Login!Inside, Login!files, Login!history, Login!Tokens
  <1>6. FreshIsOwn'
    BY <1>0, <1>1, <1>d, <1>g, <1>i, <1>j
       DEF FreshIsOwn, Login!TypeOK, Login!Inside, Fresh, Login!files, Login!history,
           Login!Tokens
  <1>7. Granted'
    BY <1>0, <1>1, <1>d, <1>g, <1>i, <1>j
       DEF Granted, Login!TypeOK, Login!Inside, Login!files, Login!history, Login!Tokens
  <1>8. BehindIsLost'
    BY <1>0, <1>1, <1>d, <1>g, <1>i, <1>j
       DEF BehindIsLost, Login!TypeOK, Login!Inside, Login!files, Login!history, Login!Tokens
  <1>9. Login!RecordHasItsSecrets'
    BY <1>0, <1>1, <1>d, <1>g, <1>i, <1>j
       DEF Login!RecordHasItsSecrets, Login!TypeOK, Login!Inside, Login!files, Login!history,
           Login!Tokens
  <1>10. Login!ReuseOnlyAfterLoss'
    BY <1>0, <1>1, <1>d, <1>g, <1>i, <1>j
       DEF Login!ReuseOnlyAfterLoss, Login!TypeOK, Login!Inside, Login!files, Login!history,
           Login!Tokens
  <1>11. Login!SignedOutIsRevoked'
    BY <1>0, <1>1, <1>d, <1>g, <1>i, <1>j
       DEF Login!SignedOutIsRevoked, Login!TypeOK, Login!Inside, Login!files, Login!history,
           Login!Tokens
  <1> QED
    BY <1>2, <1>3, <1>4, <1>5, <1>6, <1>7, <1>8, <1>9, <1>10, <1>11 DEF LoginInv

LEMMA RelockKeeps ==
  ASSUME Login!LoginAssumption, LoginInv, NEW p \in Procs, Login!Relock(p)
  PROVE  LoginInv'
  <1>0. /\ Login!TypeOK /\ HeldIsStored /\ AnswersTrue /\ RecordFirst /\ FreshIsOwn
        /\ Granted /\ BehindIsLost /\ Login!RecordHasItsSecrets /\ Login!ReuseOnlyAfterLoss
        /\ Login!SignedOutIsRevoked /\ NoSession \notin Login!SignIns
    BY DEF LoginInv, Login!LoginAssumption, Login!SignIns
  <1>c. "store1" \in Login!Inside \cup Login!Outside
    BY DEF Login!Inside, Login!Outside
  <1>d. Login!Goto(p, "store1") /\ Login!At(p, "authorized") /\ login_lock = NoSession /\ login_lock' = p
        /\ UNCHANGED <<Login!files, server, crashes, Login!history>>
    BY DEF Login!Relock
  <1>a. Leaves(p, With(p, "store1", proc[p].s, proc[p].tok, proc[p].answer))
    BY <1>0, <1>c, <1>d, GotoLeaves
  <1>1. /\ proc'[p].pc = "store1" /\ proc'[p].cmd = proc[p].cmd /\ proc'[p].s = proc[p].s
        /\ proc'[p].tok = proc[p].tok /\ proc'[p].answer = proc[p].answer
        /\ \A q \in Procs : q # p => proc'[q] = proc[q]
        /\ proc' \in [Procs -> ProcRecords]
    BY <1>0, <1>a DEF Leaves, With, Login!At, Login!TypeOK, Login!Inside
  <1>2. Login!TypeOK'
    <2>1. \A q \in Procs : proc'[q].pc \in Login!Inside <=> login_lock' = q
      BY <1>0, <1>1, <1>d DEF Login!TypeOK, Login!Inside, Login!LoginAssumption
    <2> QED  BY <1>0, <1>1, <2>1, <1>d
                DEF Login!TypeOK, Login!files, Login!history, ProcRecords, Answers
  <1>3. HeldIsStored'
    BY <1>0, <1>1, <1>d
       DEF HeldIsStored, Login!TypeOK, Login!Inside, Login!files, Login!history, Login!At
  <1>4. AnswersTrue'
    BY <1>0, <1>1, <1>d
       DEF AnswersTrue, Login!TypeOK, Login!Inside, Login!files, Login!history, Login!At
  <1>5. RecordFirst'
    BY <1>0, <1>1, <1>d
       DEF RecordFirst, Login!TypeOK, Login!Inside, Login!files, Login!history, Login!At
  <1>6. FreshIsOwn'
    BY <1>0, <1>1, <1>d
       DEF FreshIsOwn, Login!TypeOK, Login!Inside, Fresh, Login!files, Login!history, Login!At
  <1>7. Granted'
    BY <1>0, <1>1, <1>d
       DEF Granted, Login!TypeOK, Login!Inside, Login!files, Login!history, Login!At
  <1>8. BehindIsLost'
    BY <1>0, <1>1, <1>d
       DEF BehindIsLost, Login!TypeOK, Login!Inside, Login!files, Login!history, Login!At
  <1>9. Login!RecordHasItsSecrets'
    BY <1>0, <1>1, <1>d
       DEF Login!RecordHasItsSecrets, Login!TypeOK, Login!Inside, Login!files, Login!history,
           Login!At
  <1>10. Login!ReuseOnlyAfterLoss'
    BY <1>0, <1>1, <1>d
       DEF Login!ReuseOnlyAfterLoss, Login!TypeOK, Login!Inside, Login!files, Login!history,
           Login!At
  <1>11. Login!SignedOutIsRevoked'
    BY <1>0, <1>1, <1>d
       DEF Login!SignedOutIsRevoked, Login!TypeOK, Login!Inside, Login!files, Login!history,
           Login!At
  <1> QED
    BY <1>2, <1>3, <1>4, <1>5, <1>6, <1>7, <1>8, <1>9, <1>10, <1>11 DEF LoginInv

LEMMA StoreBegins ==
  ASSUME Login!LoginAssumption, LoginInv, NEW p \in Procs, Login!At(p, "store1"),
         record' = NoSession, Login!Goto(p, "store2"),
         UNCHANGED <<key, token, login_lock>>, UNCHANGED <<server, crashes, Login!history>>
  PROVE  LoginInv'
  <1>0. /\ Login!TypeOK /\ HeldIsStored /\ AnswersTrue /\ RecordFirst /\ FreshIsOwn
        /\ Granted /\ BehindIsLost /\ Login!RecordHasItsSecrets /\ Login!ReuseOnlyAfterLoss
        /\ Login!SignedOutIsRevoked /\ NoSession \notin Login!SignIns
    BY DEF LoginInv, Login!LoginAssumption, Login!SignIns
  <1>b. /\ proc[p].s \in Login!SignIns /\ proc[p].tok \in Login!Tokens /\ proc[p].tok.s = proc[p].s
        /\ proc[p].tok.gen = 1 /\ proc[p].tok # NoSession /\ server[proc[p].s].gen = 1
    BY <1>0, FreshHolds DEF Login!At, Fresh
  <1>c. "store2" \in Login!Inside \cup Login!Outside
    BY DEF Login!Inside, Login!Outside
  <1>a. Leaves(p, With(p, "store2", proc[p].s, proc[p].tok, proc[p].answer))
    BY <1>0, <1>c, GotoLeaves
  <1>1. /\ proc'[p].pc = "store2" /\ proc'[p].cmd = proc[p].cmd /\ proc'[p].s = proc[p].s
        /\ proc'[p].tok = proc[p].tok /\ proc'[p].answer = proc[p].answer
        /\ \A q \in Procs : q # p => proc'[q] = proc[q]
        /\ proc' \in [Procs -> ProcRecords]
        /\ login_lock = p /\ \A q \in Procs : q # p => proc[q].pc \notin Login!Inside
    BY <1>0, <1>a, OthersOutside DEF Leaves, With, Login!At, Login!TypeOK, Login!Inside
  <1>g. \A q \in Procs : q # p /\ proc[q].s # NoSession => proc[q].s \in Login!SignIns
    BY <1>0, ProcTyped DEF ProcRecords
  <1>2. Login!TypeOK'
    <2>1. \A q \in Procs : proc'[q].pc \in Login!Inside <=> login_lock' = q
      BY <1>0, <1>1 DEF Login!TypeOK, Login!Inside
    <2> QED  BY <1>0, <1>1, <2>1, <1>b
                DEF Login!TypeOK, Login!files, Login!history, ProcRecords, Answers
  <1>3. HeldIsStored'
    BY <1>0, <1>1, <1>b, <1>g
       DEF HeldIsStored, Login!TypeOK, Login!Inside, Login!files, Login!history, Login!At,
           RecordFirst
  <1>4. AnswersTrue'
    BY <1>0, <1>1, <1>b, <1>g
       DEF AnswersTrue, Login!TypeOK, Login!Inside, Login!files, Login!history, Login!At,
           RecordFirst
  <1>5. RecordFirst'
    BY <1>0, <1>1, <1>b, <1>g
       DEF RecordFirst, Login!TypeOK, Login!Inside, Login!files, Login!history, Login!At
  <1>6. FreshIsOwn'
    BY <1>0, <1>1, <1>b, <1>g
       DEF FreshIsOwn, Login!TypeOK, Login!Inside, Fresh, Login!files, Login!history, Login!At,
           RecordFirst
  <1>7. Granted'
    BY <1>0, <1>1, <1>b, <1>g
       DEF Granted, Login!TypeOK, Login!Inside, Login!files, Login!history, Login!At,
           RecordFirst
  <1>8. BehindIsLost'
    BY <1>0, <1>1, <1>b, <1>g
       DEF BehindIsLost, Login!TypeOK, Login!Inside, Login!files, Login!history, Login!At,
           RecordFirst
  <1>9. Login!RecordHasItsSecrets'
    BY <1>0, <1>1, <1>b, <1>g
       DEF Login!RecordHasItsSecrets, Login!TypeOK, Login!Inside, Login!files, Login!history,
           Login!At, RecordFirst
  <1>10. Login!ReuseOnlyAfterLoss'
    BY <1>0, <1>1, <1>b, <1>g
       DEF Login!ReuseOnlyAfterLoss, Login!TypeOK, Login!Inside, Login!files, Login!history,
           Login!At, RecordFirst
  <1>11. Login!SignedOutIsRevoked'
    BY <1>0, <1>1, <1>b, <1>g
       DEF Login!SignedOutIsRevoked, Login!TypeOK, Login!Inside, Login!files, Login!history,
           Login!At, RecordFirst
  <1> QED
    BY <1>2, <1>3, <1>4, <1>5, <1>6, <1>7, <1>8, <1>9, <1>10, <1>11 DEF LoginInv

LEMMA StoreKey ==
  ASSUME Login!LoginAssumption, LoginInv, NEW p \in Procs, Login!At(p, "store2"),
         key' = proc[p].s, Login!Goto(p, "store3"),
         UNCHANGED <<record, token, login_lock>>, UNCHANGED <<server, crashes, Login!history>>
  PROVE  LoginInv'
  <1>0. /\ Login!TypeOK /\ HeldIsStored /\ AnswersTrue /\ RecordFirst /\ FreshIsOwn
        /\ Granted /\ BehindIsLost /\ Login!RecordHasItsSecrets /\ Login!ReuseOnlyAfterLoss
        /\ Login!SignedOutIsRevoked /\ NoSession \notin Login!SignIns
    BY DEF LoginInv, Login!LoginAssumption, Login!SignIns
  <1>b. /\ proc[p].s \in Login!SignIns /\ proc[p].tok \in Login!Tokens /\ proc[p].tok.s = proc[p].s
        /\ proc[p].tok.gen = 1 /\ proc[p].tok # NoSession /\ server[proc[p].s].gen = 1
    BY <1>0, FreshHolds DEF Login!At, Fresh
  <1>c. "store3" \in Login!Inside \cup Login!Outside
    BY DEF Login!Inside, Login!Outside
  <1>a. Leaves(p, With(p, "store3", proc[p].s, proc[p].tok, proc[p].answer))
    BY <1>0, <1>c, GotoLeaves
  <1>1. /\ proc'[p].pc = "store3" /\ proc'[p].cmd = proc[p].cmd /\ proc'[p].s = proc[p].s
        /\ proc'[p].tok = proc[p].tok /\ proc'[p].answer = proc[p].answer
        /\ \A q \in Procs : q # p => proc'[q] = proc[q]
        /\ proc' \in [Procs -> ProcRecords]
        /\ login_lock = p /\ \A q \in Procs : q # p => proc[q].pc \notin Login!Inside
    BY <1>0, <1>a, OthersOutside DEF Leaves, With, Login!At, Login!TypeOK, Login!Inside
  <1>g. \A q \in Procs : q # p /\ proc[q].s # NoSession => proc[q].s \in Login!SignIns
    BY <1>0, ProcTyped DEF ProcRecords
  <1>2. Login!TypeOK'
    <2>1. \A q \in Procs : proc'[q].pc \in Login!Inside <=> login_lock' = q
      BY <1>0, <1>1 DEF Login!TypeOK, Login!Inside
    <2> QED  BY <1>0, <1>1, <2>1, <1>b
                DEF Login!TypeOK, Login!files, Login!history, ProcRecords, Answers
  <1>3. HeldIsStored'
    BY <1>0, <1>1, <1>b, <1>g
       DEF HeldIsStored, Login!TypeOK, Login!Inside, Login!files, Login!history, Login!At,
           RecordFirst
  <1>4. AnswersTrue'
    BY <1>0, <1>1, <1>b, <1>g
       DEF AnswersTrue, Login!TypeOK, Login!Inside, Login!files, Login!history, Login!At,
           RecordFirst
  <1>5. RecordFirst'
    BY <1>0, <1>1, <1>b, <1>g
       DEF RecordFirst, Login!TypeOK, Login!Inside, Login!files, Login!history, Login!At
  <1>6. FreshIsOwn'
    BY <1>0, <1>1, <1>b, <1>g
       DEF FreshIsOwn, Login!TypeOK, Login!Inside, Fresh, Login!files, Login!history, Login!At,
           RecordFirst
  <1>7. Granted'
    BY <1>0, <1>1, <1>b, <1>g
       DEF Granted, Login!TypeOK, Login!Inside, Login!files, Login!history, Login!At,
           RecordFirst
  <1>8. BehindIsLost'
    BY <1>0, <1>1, <1>b, <1>g
       DEF BehindIsLost, Login!TypeOK, Login!Inside, Login!files, Login!history, Login!At,
           RecordFirst
  <1>9. Login!RecordHasItsSecrets'
    BY <1>0, <1>1, <1>b, <1>g
       DEF Login!RecordHasItsSecrets, Login!TypeOK, Login!Inside, Login!files, Login!history,
           Login!At, RecordFirst
  <1>10. Login!ReuseOnlyAfterLoss'
    BY <1>0, <1>1, <1>b, <1>g
       DEF Login!ReuseOnlyAfterLoss, Login!TypeOK, Login!Inside, Login!files, Login!history,
           Login!At, RecordFirst
  <1>11. Login!SignedOutIsRevoked'
    BY <1>0, <1>1, <1>b, <1>g
       DEF Login!SignedOutIsRevoked, Login!TypeOK, Login!Inside, Login!files, Login!history,
           Login!At, RecordFirst
  <1> QED
    BY <1>2, <1>3, <1>4, <1>5, <1>6, <1>7, <1>8, <1>9, <1>10, <1>11 DEF LoginInv

LEMMA StoreToken ==
  ASSUME Login!LoginAssumption, LoginInv, NEW p \in Procs, Login!At(p, "store3"),
         token' = proc[p].tok, Login!Goto(p, "store4"),
         UNCHANGED <<record, key, login_lock>>, UNCHANGED <<server, crashes, Login!history>>
  PROVE  LoginInv'
  <1>0. /\ Login!TypeOK /\ HeldIsStored /\ AnswersTrue /\ RecordFirst /\ FreshIsOwn
        /\ Granted /\ BehindIsLost /\ Login!RecordHasItsSecrets /\ Login!ReuseOnlyAfterLoss
        /\ Login!SignedOutIsRevoked /\ NoSession \notin Login!SignIns
    BY DEF LoginInv, Login!LoginAssumption, Login!SignIns
  <1>b. /\ proc[p].s \in Login!SignIns /\ proc[p].tok \in Login!Tokens /\ proc[p].tok.s = proc[p].s
        /\ proc[p].tok.gen = 1 /\ proc[p].tok # NoSession /\ server[proc[p].s].gen = 1
    BY <1>0, FreshHolds DEF Login!At, Fresh
  <1>c. "store4" \in Login!Inside \cup Login!Outside
    BY DEF Login!Inside, Login!Outside
  <1>a. Leaves(p, With(p, "store4", proc[p].s, proc[p].tok, proc[p].answer))
    BY <1>0, <1>c, GotoLeaves
  <1>1. /\ proc'[p].pc = "store4" /\ proc'[p].cmd = proc[p].cmd /\ proc'[p].s = proc[p].s
        /\ proc'[p].tok = proc[p].tok /\ proc'[p].answer = proc[p].answer
        /\ \A q \in Procs : q # p => proc'[q] = proc[q]
        /\ proc' \in [Procs -> ProcRecords]
        /\ login_lock = p /\ \A q \in Procs : q # p => proc[q].pc \notin Login!Inside
    BY <1>0, <1>a, OthersOutside DEF Leaves, With, Login!At, Login!TypeOK, Login!Inside
  <1>g. \A q \in Procs : q # p /\ proc[q].s # NoSession => proc[q].s \in Login!SignIns
    BY <1>0, ProcTyped DEF ProcRecords
  <1>2. Login!TypeOK'
    <2>1. \A q \in Procs : proc'[q].pc \in Login!Inside <=> login_lock' = q
      BY <1>0, <1>1 DEF Login!TypeOK, Login!Inside
    <2> QED  BY <1>0, <1>1, <2>1, <1>b
                DEF Login!TypeOK, Login!files, Login!history, ProcRecords, Answers
  <1>3. HeldIsStored'
    BY <1>0, <1>1, <1>b, <1>g
       DEF HeldIsStored, Login!TypeOK, Login!Inside, Login!files, Login!history, Login!At,
           RecordFirst
  <1>4. AnswersTrue'
    BY <1>0, <1>1, <1>b, <1>g
       DEF AnswersTrue, Login!TypeOK, Login!Inside, Login!files, Login!history, Login!At,
           RecordFirst
  <1>5. RecordFirst'
    BY <1>0, <1>1, <1>b, <1>g
       DEF RecordFirst, Login!TypeOK, Login!Inside, Login!files, Login!history, Login!At
  <1>6. FreshIsOwn'
    <2>1. record' = NoSession /\ token' = proc[p].tok /\ server' = server /\ record' # proc[p].s
      BY <1>0, <1>b DEF Login!At, RecordFirst, Login!history, Login!files
    <2>2. \A q \in Procs : q # p => proc[q].s # proc[p].s
      BY <1>0 DEF FreshIsOwn, Fresh, Login!At
    <2>3. ASSUME NEW q \in Procs, q # p, proc[q].pc \in Fresh
          PROVE  /\ proc[q].s \in Login!SignIns /\ proc[q].tok = [s |-> proc[q].s, gen |-> 1]
                 /\ server'[proc[q].s].gen = 1 /\ record' # proc[q].s
                 /\ token'.s # proc[q].s
                 /\ \A r \in Procs : r # q => proc'[r].s # proc[q].s
      BY <1>0, <1>1, <1>b, <2>1, <2>2, <2>3 DEF FreshIsOwn
    <2>4. /\ proc'[p].tok = [s |-> proc'[p].s, gen |-> 1]
          /\ \A q \in Procs : q # p => proc'[q].s # proc'[p].s
      BY <1>0, <1>1, <2>2 DEF FreshIsOwn, Fresh, Login!At
    <2> QED  BY <1>1, <1>b, <2>1, <2>3, <2>4 DEF FreshIsOwn
  <1>7. Granted'
    BY <1>0, <1>1, <1>b, <1>g
       DEF Granted, Login!TypeOK, Login!Inside, Login!files, Login!history, Login!At,
           RecordFirst
  <1>8. BehindIsLost'
    BY <1>0, <1>1, <1>b, <1>g
       DEF BehindIsLost, Login!TypeOK, Login!Inside, Login!files, Login!history, Login!At,
           RecordFirst
  <1>9. Login!RecordHasItsSecrets'
    BY <1>0, <1>1, <1>b, <1>g
       DEF Login!RecordHasItsSecrets, Login!TypeOK, Login!Inside, Login!files, Login!history,
           Login!At, RecordFirst
  <1>10. Login!ReuseOnlyAfterLoss'
    BY <1>0, <1>1, <1>b, <1>g
       DEF Login!ReuseOnlyAfterLoss, Login!TypeOK, Login!Inside, Login!files, Login!history,
           Login!At, RecordFirst
  <1>11. Login!SignedOutIsRevoked'
    BY <1>0, <1>1, <1>b, <1>g
       DEF Login!SignedOutIsRevoked, Login!TypeOK, Login!Inside, Login!files, Login!history,
           Login!At, RecordFirst
  <1> QED
    BY <1>2, <1>3, <1>4, <1>5, <1>6, <1>7, <1>8, <1>9, <1>10, <1>11 DEF LoginInv

LEMMA StoreEnds ==
  ASSUME Login!LoginAssumption, LoginInv, NEW p \in Procs, Login!At(p, "store4"),
         record' = proc[p].s, Login!Goto(p, "read"), login_lock' = NoSession,
         UNCHANGED <<key, token>>, UNCHANGED <<server, crashes, Login!history>>
  PROVE  LoginInv'
  <1>0. /\ Login!TypeOK /\ HeldIsStored /\ AnswersTrue /\ RecordFirst /\ FreshIsOwn
        /\ Granted /\ BehindIsLost /\ Login!RecordHasItsSecrets /\ Login!ReuseOnlyAfterLoss
        /\ Login!SignedOutIsRevoked /\ NoSession \notin Login!SignIns
    BY DEF LoginInv, Login!LoginAssumption, Login!SignIns
  <1>b. /\ proc[p].s \in Login!SignIns /\ proc[p].tok \in Login!Tokens /\ proc[p].tok.s = proc[p].s
        /\ proc[p].tok.gen = 1 /\ proc[p].tok # NoSession /\ server[proc[p].s].gen = 1
        /\ key = proc[p].s /\ token = proc[p].tok
    BY <1>0, FreshHolds DEF Login!At, Fresh, RecordFirst
  <1>c. "read" \in Login!Inside \cup Login!Outside
    BY DEF Login!Inside, Login!Outside
  <1>a. Leaves(p, With(p, "read", proc[p].s, proc[p].tok, proc[p].answer))
    BY <1>0, <1>c, GotoLeaves
  <1>1. /\ proc'[p].pc = "read" /\ proc'[p].cmd = proc[p].cmd /\ proc'[p].s = proc[p].s
        /\ proc'[p].tok = proc[p].tok /\ proc'[p].answer = proc[p].answer
        /\ \A q \in Procs : q # p => proc'[q] = proc[q]
        /\ proc' \in [Procs -> ProcRecords]
        /\ login_lock = p /\ \A q \in Procs : q # p => proc[q].pc \notin Login!Inside
    BY <1>0, <1>a, OthersOutside DEF Leaves, With, Login!At, Login!TypeOK, Login!Inside
  <1>g. \A q \in Procs : q # p /\ proc[q].s # NoSession => proc[q].s \in Login!SignIns
    BY <1>0, ProcTyped DEF ProcRecords
  <1>2. Login!TypeOK'
    <2>1. \A q \in Procs : proc'[q].pc \in Login!Inside <=> login_lock' = q
      BY <1>0, <1>1 DEF Login!TypeOK, Login!Inside, Login!LoginAssumption
    <2> QED  BY <1>0, <1>1, <2>1, <1>b
                DEF Login!TypeOK, Login!files, Login!history, ProcRecords, Answers
  <1>3. HeldIsStored'
    BY <1>0, <1>1, <1>b, <1>g
       DEF HeldIsStored, Login!TypeOK, Login!Inside, Login!files, Login!history, Login!At
  <1>4. AnswersTrue'
    BY <1>0, <1>1, <1>b, <1>g
       DEF AnswersTrue, Login!TypeOK, Login!Inside, Login!files, Login!history, Login!At
  <1>5. RecordFirst'
    BY <1>0, <1>1, <1>b, <1>g
       DEF RecordFirst, Login!TypeOK, Login!Inside, Login!files, Login!history, Login!At
  <1>6. FreshIsOwn'
    BY <1>0, <1>1, <1>b, <1>g
       DEF FreshIsOwn, Login!TypeOK, Login!Inside, Fresh, Login!files, Login!history, Login!At
  <1>7. Granted'
    BY <1>0, <1>1, <1>b, <1>g
       DEF Granted, Login!TypeOK, Login!Inside, Login!files, Login!history, Login!At
  <1>8. BehindIsLost'
    BY <1>0, <1>1, <1>b, <1>g
       DEF BehindIsLost, Login!TypeOK, Login!Inside, Login!files, Login!history, Login!At
  <1>9. Login!RecordHasItsSecrets'
    BY <1>0, <1>1, <1>b, <1>g
       DEF Login!RecordHasItsSecrets, Login!TypeOK, Login!Inside, Login!files, Login!history,
           Login!At
  <1>10. Login!ReuseOnlyAfterLoss'
    BY <1>0, <1>1, <1>b, <1>g
       DEF Login!ReuseOnlyAfterLoss, Login!TypeOK, Login!Inside, Login!files, Login!history,
           Login!At
  <1>11. Login!SignedOutIsRevoked'
    BY <1>0, <1>1, <1>b, <1>g
       DEF Login!SignedOutIsRevoked, Login!TypeOK, Login!Inside, Login!files, Login!history,
           Login!At
  <1> QED
    BY <1>2, <1>3, <1>4, <1>5, <1>6, <1>7, <1>8, <1>9, <1>10, <1>11 DEF LoginInv

LEMMA ExpireKeeps ==
  ASSUME Login!LoginAssumption, LoginInv, NEW s \in Login!SignIns, Login!Expire(s)
  PROVE  LoginInv'
  <1>0. /\ Login!TypeOK /\ HeldIsStored /\ AnswersTrue /\ RecordFirst /\ FreshIsOwn
        /\ Granted /\ BehindIsLost /\ Login!RecordHasItsSecrets /\ Login!ReuseOnlyAfterLoss
        /\ Login!SignedOutIsRevoked /\ NoSession \notin Login!SignIns
    BY DEF LoginInv, Login!LoginAssumption, Login!SignIns
  <1>1. /\ server'[s].gen = server[s].gen /\ server'[s].st = "revoked"
        /\ \A r \in Login!SignIns : r # s => server'[r] = server[r]
        /\ server' \in [Login!SignIns -> [st : {"none", "open", "revoked"}, gen : 0 .. MaxGen]]
        /\ \A q \in Procs : proc[q].s # NoSession => proc[q].s \in Login!SignIns
        /\ token # NoSession => token.s \in Login!SignIns
        /\ UNCHANGED <<login_lock, record, key, token, proc, crashes, lost, reused, out, vanished>>
    BY <1>0, ProcTyped
       DEF Login!TypeOK, Login!Expire, ProcRecords, Login!Tokens, Login!files, Login!history
  <1>2. Login!TypeOK'
    BY <1>0, <1>1 DEF Login!TypeOK
  <1>3. HeldIsStored'
    BY <1>0, <1>1 DEF HeldIsStored, Login!TypeOK
  <1>4. AnswersTrue'
    BY <1>0, <1>1 DEF AnswersTrue, Login!TypeOK, HeldIsStored
  <1>5. RecordFirst'
    BY <1>0, <1>1 DEF RecordFirst, Login!TypeOK, HeldIsStored
  <1>6. FreshIsOwn'
    BY <1>0, <1>1 DEF FreshIsOwn, Login!TypeOK, Fresh
  <1>7. Granted'
    BY <1>0, <1>1 DEF Granted, Login!TypeOK, HeldIsStored
  <1>8. BehindIsLost'
    BY <1>0, <1>1 DEF BehindIsLost, Login!TypeOK, HeldIsStored
  <1>9. Login!RecordHasItsSecrets'
    BY <1>0, <1>1 DEF Login!RecordHasItsSecrets, Login!TypeOK, HeldIsStored
  <1>10. Login!ReuseOnlyAfterLoss'
    BY <1>0, <1>1 DEF Login!ReuseOnlyAfterLoss, Login!TypeOK, HeldIsStored
  <1>11. Login!SignedOutIsRevoked'
    BY <1>0, <1>1 DEF Login!SignedOutIsRevoked, Login!TypeOK, HeldIsStored
  <1> QED
    BY <1>2, <1>3, <1>4, <1>5, <1>6, <1>7, <1>8, <1>9, <1>10, <1>11 DEF LoginInv

\* A command that returns: the lock is dropped.
LEMMA Returns ==
  ASSUME Login!LoginAssumption, LoginInv, NEW p \in Procs, login_lock = p, Login!Return(p),
         UNCHANGED <<record, token, server, reused, crashes, vanished>>,
         key' = key \/ (key' = NoSession /\ record = NoSession),
         lost' = lost \/ (lost' = lost \cup {proc[p].s} /\ proc[p].s \in Login!SignIns),
         proc[p].pc = "reply" /\ proc[p].answer = "rotated" => proc[p].s \in lost',
         \A s \in out' : s \in out \/ (s \in Login!SignIns /\ server[s].st = "revoked")
  PROVE  LoginInv'
  <1>1. Login!TypeOK
    BY DEF LoginInv
  <1>2. Leaves(p, Login!Idle)
    BY <1>1, IdleTyped, LeavesAs DEF Login!Return
  <1>3. login_lock' = NoSession /\ \A q \in Procs : q # p => (login_lock = q <=> login_lock' = q)
    BY DEF Login!Return, Login!LoginAssumption
  <1>4. lost \subseteq lost' /\ lost' \subseteq Login!SignIns /\ crashes' \in 0 .. MaxCrashes
        /\ vanished' \in BOOLEAN
    BY <1>1 DEF Login!TypeOK
  <1>5. login_lock' # p
    BY <1>3 DEF Login!LoginAssumption
  <1> QED  BY <1>2, <1>3, <1>4, <1>5, IdleTyped, Quits

\* A login that has nothing to keep goes on to the browser; the others return.
LEMMA AfterClears ==
  ASSUME Login!LoginAssumption, LoginInv, NEW p \in Procs, login_lock = p, Login!AfterClear(p),
         proc[p].pc # "reply" \/ proc[p].answer # "rotated",
         UNCHANGED <<record, token, server, reused, crashes, vanished, lost>>,
         key' = key \/ (key' = NoSession /\ record = NoSession),
         \A s \in out' : s \in out \/ (s \in Login!SignIns /\ server[s].st = "revoked")
  PROVE  LoginInv'
  <1>1. CASE proc[p].cmd = "login"
    <2> DEFINE n == [pc |-> "browser", cmd |-> "login", s |-> NoSession, tok |-> NoSession, answer |-> "none"]
    <2>1. [Login!Idle EXCEPT !.pc = "browser", !.cmd = "login"] = n
      <3> DEFINE i == [Login!Idle EXCEPT !.pc = "browser"]
      <3>1. i = [pc |-> "browser", cmd |-> "access", s |-> NoSession, tok |-> NoSession, answer |-> "none"]
        BY DEF Login!Idle
      <3>2. [Login!Idle EXCEPT !.pc = "browser", !.cmd = "login"] = [i EXCEPT !.cmd = "login"]
        OBVIOUS
      <3> HIDE DEF i
      <3> QED  BY <3>1, <3>2
    <2>2. n \in ProcRecords
      BY DEF ProcRecords, Login!Outside, Login!LoginCommands, Answers
    <2>3. n.pc = "browser" /\ n.s = NoSession /\ n.answer = "none"
      OBVIOUS
    <2>4. proc' = [proc EXCEPT ![p] = n] /\ login_lock' = NoSession
      BY <1>1, <2>1 DEF Login!AfterClear
    <2> HIDE DEF n
    <2>5. Login!TypeOK
      BY DEF LoginInv
    <2>6. Leaves(p, n)
      BY <2>2, <2>4, <2>5, LeavesAs
    <2>7. /\ login_lock' # p /\ \A q \in Procs : q # p => (login_lock = q <=> login_lock' = q)
          /\ lost \subseteq lost' /\ lost' \subseteq Login!SignIns /\ crashes' \in 0 .. MaxCrashes
          /\ vanished' \in BOOLEAN
      BY <2>4, <2>5 DEF Login!LoginAssumption, Login!TypeOK
    <2> QED  BY <2>3, <2>4, <2>6, <2>7, Quits
  <1>2. CASE proc[p].cmd # "login"
    BY <1>2, Returns DEF Login!AfterClear
  <1> QED  BY <1>1, <1>2

LEMMA StartKeeps ==
  ASSUME Login!LoginAssumption, LoginInv, NEW p \in Procs, NEW command \in Login!LoginCommands,
         Login!Start(p, command)
  PROVE  LoginInv'
  <1> DEFINE n == [pc |-> "load", cmd |-> command, s |-> NoSession, tok |-> NoSession, answer |-> "none"]
  <1>1. [Login!Idle EXCEPT !.pc = "load", !.cmd = command] = n
    <2> DEFINE i == [Login!Idle EXCEPT !.pc = "load"]
    <2>1. i = [pc |-> "load", cmd |-> "access", s |-> NoSession, tok |-> NoSession, answer |-> "none"]
      BY DEF Login!Idle
    <2>2. [Login!Idle EXCEPT !.pc = "load", !.cmd = command] = [i EXCEPT !.cmd = command]
      OBVIOUS
    <2> HIDE DEF i
    <2> QED  BY <2>1, <2>2
  <1>2. n \in ProcRecords
    BY DEF ProcRecords, Login!Inside, Answers
  <1>3. n.pc = "load" /\ n.s = NoSession /\ n.answer = "none"
    OBVIOUS
  <1>4. proc' = [proc EXCEPT ![p] = n]
    BY <1>1 DEF Login!Start
  <1> HIDE DEF n
  <1>5. Login!TypeOK
    BY DEF LoginInv
  <1>6. Leaves(p, n)
    BY <1>2, <1>4, <1>5, LeavesAs
  <1>7. /\ login_lock' = p /\ \A q \in Procs : q # p => (login_lock = q <=> login_lock' = q)
        /\ lost \subseteq lost' /\ lost' \subseteq Login!SignIns /\ crashes' \in 0 .. MaxCrashes
        /\ vanished' \in BOOLEAN /\ proc[p].pc = "idle" /\ UNCHANGED <<record, key, token, server, reused, out>>
    BY <1>5
       DEF Login!LoginAssumption, Login!TypeOK, Login!Start, Login!files, Login!history,
           Login!At
  <1> QED  BY <1>3, <1>6, <1>7, Quits

LEMMA LoginLoadKeeps ==
  ASSUME Login!LoginAssumption, LoginInv, NEW p \in Procs, Login!Load(p) PROVE LoginInv'
  <1>1. /\ Login!At(p, "load")
        /\ login_lock = p
        /\ UNCHANGED <<Login!files, server, crashes, Login!history>>
    BY DEF Login!Load, LoginInv, Login!TypeOK, Login!At, Login!Inside
  <1>2. CASE record = NoSession /\ proc[p].cmd = "logout"
    BY <1>1, <1>2, LoadMissing DEF Login!Load
  <1>3. CASE record = NoSession /\ proc[p].cmd # "logout"
    <2>1. Login!AfterClear(p)
      BY <1>3 DEF Login!Load
    <2> QED  BY <1>1, <2>1, AfterClears DEF Login!files, Login!history, Login!At
  <1>4. CASE record # NoSession
    <2>1. key = record /\ token # NoSession
      BY <1>4 DEF LoginInv, Login!RecordHasItsSecrets
    <2> DEFINE next == IF proc[p].cmd = "logout" THEN "revoke" ELSE "send"
    <2>2. /\ proc' = [proc EXCEPT ![p].pc = next, ![p].s = record, ![p].tok = token]
          /\ UNCHANGED login_lock
      BY <1>4, <2>1 DEF Login!Load
    <2>3. next \in {"send", "revoke"} /\ (next = "revoke" <=> proc[p].cmd = "logout")
      OBVIOUS
    <2> HIDE DEF next
    <2> QED  BY <1>1, <1>4, <2>2, <2>3, LoadTakes
  <1> QED  BY <1>2, <1>3, <1>4

LEMMA SendKeeps ==
  ASSUME Login!LoginAssumption, LoginInv, NEW p \in Procs, Login!Send(p) PROVE LoginInv'
  <1>1. /\ Login!At(p, "send") \/ Login!At(p, "resend")
        /\ login_lock = p
        /\ UNCHANGED <<Login!files, crashes, lost, out, vanished>>
    BY DEF Login!Send, LoginInv, Login!TypeOK, Login!At, Login!Inside
  <1>2. CASE Login!Return(p) /\ UNCHANGED <<server, reused>>
    BY <1>1, <1>2, Returns DEF Login!files, Login!At
  <1>3. CASE /\ proc' = [proc EXCEPT ![p].pc = "reply", ![p].answer = "invalid_target"]
             /\ UNCHANGED <<login_lock, server, reused>>
    BY <1>1, <1>3, TargetRefused DEF Login!history
  <1>4. CASE /\ Login!Platform(proc[p].tok) = "rotated" /\ proc[p].tok.gen < MaxGen
             /\ server' = [server EXCEPT ![proc[p].tok.s].gen = proc[p].tok.gen + 1]
             /\ proc' = [proc EXCEPT ![p].pc = "reply", ![p].answer = "rotated",
                                     ![p].tok.gen = proc[p].tok.gen + 1]
             /\ UNCHANGED <<login_lock, reused>>
    BY <1>1, <1>4, TokenRotates DEF Login!history
  <1>5. CASE /\ Login!Platform(proc[p].tok) = "invalid_grant"
             /\ reused' = IF proc[p].tok.gen < server[proc[p].tok.s].gen
                          THEN reused \cup {proc[p].tok.s} ELSE reused
             /\ server' = [server EXCEPT ![proc[p].tok.s].st = "revoked"]
             /\ proc' = [proc EXCEPT ![p].pc = "reply", ![p].answer = "invalid_grant"]
             /\ UNCHANGED login_lock
    BY <1>1, <1>5, TokenRefused
  <1> QED  BY <1>2, <1>3, <1>4, <1>5 DEF Login!Send

\* The session a refresh is about.
LEMMA ReplySession ==
  ASSUME LoginInv, NEW p \in Procs, Login!At(p, "reply")
  PROVE  /\ login_lock = p /\ proc[p].s \in Login!SignIns
         /\ proc[p].answer \in {"rotated", "invalid_grant", "invalid_target"}
  BY DEF LoginInv, Login!TypeOK, HeldIsStored, AnswersTrue, Login!At, Login!Inside

LEMMA ReplyKeeps ==
  ASSUME Login!LoginAssumption, LoginInv, NEW p \in Procs,
         Login!Reply(p) \/ Login!ReplyLost(p) PROVE LoginInv'
  <1>1. /\ Login!At(p, "reply") /\ login_lock = p /\ proc[p].s \in Login!SignIns
        /\ proc[p].answer \in {"rotated", "invalid_grant", "invalid_target"}
        /\ UNCHANGED <<record, key, server, crashes, reused, out, vanished>>
    BY ReplySession DEF Login!Reply, Login!ReplyLost, Login!files
  <1>2. CASE Login!ReplyLost(p)
    <2>1. Login!Return(p) /\ UNCHANGED token
          /\ lost' = IF proc[p].answer = "rotated" THEN lost \cup {proc[p].s} ELSE lost
      BY <1>2 DEF Login!ReplyLost, Login!files
    <2> QED  BY <1>1, <2>1, Returns
  <1>3. CASE Login!Reply(p) /\ proc[p].answer = "rotated"
    <2>1. CASE token' = proc[p].tok /\ Login!Goto(p, "save") /\ UNCHANGED <<login_lock, lost>>
      BY <1>1, <1>3, <2>1, AnswerStored
    <2>2. CASE lost' = lost \cup {proc[p].s} /\ Login!Return(p) /\ UNCHANGED token
      BY <1>1, <2>2, Returns
    <2> QED  BY <1>3, <2>1, <2>2 DEF Login!Reply
  <1>4. CASE Login!Reply(p) /\ proc[p].answer = "invalid_grant"
    <2>1. Login!Goto(p, "clear1") /\ UNCHANGED <<login_lock, token, lost>>
      BY <1>4 DEF Login!Reply
    <2> QED  BY <1>1, <1>4, <2>1, AnswerRefused DEF Login!files, Login!history
  <1>5. CASE Login!Reply(p) /\ proc[p].answer = "invalid_target"
    <2>1. Login!AfterClear(p) /\ UNCHANGED <<token, lost>>
      BY <1>5 DEF Login!Reply
    <2> QED  BY <1>1, <1>5, <2>1, AfterClears
  <1> QED  BY <1>1, <1>2, <1>3, <1>4, <1>5

LEMMA SaveKeeps ==
  ASSUME Login!LoginAssumption, LoginInv, NEW p \in Procs, Login!Save(p) PROVE LoginInv'
  <1>1. login_lock = p /\ record' = record /\ proc[p].pc = "save"
    BY DEF Login!Save, Login!At, LoginInv, Login!TypeOK, HeldIsStored, Login!Inside
  <1>2. /\ Login!Return(p)
        /\ UNCHANGED <<key, token, server, crashes, lost, reused, out, vanished>>
    BY DEF Login!Save, Login!history
  <1> QED  BY <1>1, <1>2, Returns

LEMMA RevokeKeeps ==
  ASSUME Login!LoginAssumption, LoginInv, NEW p \in Procs, Login!Revoke(p) PROVE LoginInv'
  <1>1. Login!At(p, "revoke") /\ UNCHANGED <<login_lock, Login!files, crashes, Login!history>>
    BY DEF Login!Revoke
  <1>2. CASE Login!Goto(p, "clear1") /\ UNCHANGED server
    BY <1>1, <1>2, RevocationFails
  <1>3. CASE /\ server' = IF key = proc[p].tok.s
                          THEN [server EXCEPT ![proc[p].tok.s].st = "revoked"] ELSE server
             /\ \E a \in {"revoked", "none"} :
                   proc' = [proc EXCEPT ![p].pc = "clear1", ![p].answer = a]
    <2>1. PICK a \in {"revoked", "none"} : proc' = [proc EXCEPT ![p].pc = "clear1", ![p].answer = a]
      BY <1>3
    <2> QED  BY <1>1, <1>3, <2>1, SessionRevoked
  <1> QED  BY <1>2, <1>3 DEF Login!Revoke

LEMMA ClearKeeps ==
  ASSUME Login!LoginAssumption, LoginInv, NEW p \in Procs, Login!Clear(p) PROVE LoginInv'
  <1>1. /\ login_lock = p /\ proc[p].pc \in {"clear1", "clear2", "clear3"}
        /\ UNCHANGED <<server, crashes, lost, reused, vanished>>
    BY DEF Login!Clear, Login!At, LoginInv, Login!TypeOK, Login!Inside
  <1>2. CASE Login!At(p, "clear1") /\ record' = NoSession /\ Login!Goto(p, "clear2") /\ UNCHANGED <<key, token, login_lock, out>>
    BY <1>1, <1>2, RecordCleared
  <1>3. CASE Login!At(p, "clear2") /\ token' = NoSession /\ Login!Goto(p, "clear3") /\ UNCHANGED <<record, key, login_lock, out>>
    BY <1>1, <1>3, TokenCleared
  <1>4. CASE /\ Login!At(p, "clear3") /\ key' = NoSession /\ Login!AfterClear(p)
             /\ out' = IF proc[p].cmd = "logout" /\ proc[p].answer = "revoked"
                       THEN out \cup {proc[p].s} ELSE out
             /\ UNCHANGED <<record, token>>
    <2>1. record = NoSession
      BY <1>4 DEF LoginInv, RecordFirst, Login!At
    <2>2. \A s \in out' : s \in out \/ (s \in Login!SignIns /\ server[s].st = "revoked")
      BY <1>4 DEF LoginInv, AnswersTrue
    <2> QED  BY <1>1, <1>4, <2>1, <2>2, AfterClears DEF Login!At
  <1>5. CASE Login!Return(p) /\ UNCHANGED <<Login!files, out>>
    BY <1>1, <1>5, Returns DEF Login!files
  <1> QED  BY <1>2, <1>3, <1>4, <1>5 DEF Login!Clear

LEMMA AuthorizeKeeps ==
  ASSUME Login!LoginAssumption, LoginInv, NEW p \in Procs, Login!Authorize(p) PROVE LoginInv'
  <1>1. /\ Login!At(p, "browser")
        /\ UNCHANGED <<login_lock, Login!files, crashes, Login!history>>
        /\ Login!TypeOK
    BY DEF Login!Authorize, LoginInv
  <1>2. CASE \E s \in Login!SignIns :
               /\ server[s].st = "none"
               /\ server' = [server EXCEPT ![s] = [st |-> "open", gen |-> 1]]
               /\ proc' = [proc EXCEPT ![p].pc = "authorized", ![p].s = s,
                                       ![p].tok = [s |-> s, gen |-> 1]]
    BY <1>1, <1>2, SignInGranted
  <1>3. CASE proc' = [proc EXCEPT ![p] = Login!Idle] /\ UNCHANGED server
    <2>1. Leaves(p, Login!Idle) /\ login_lock # p
      BY <1>1, <1>3, IdleTyped, LeavesAs DEF Login!TypeOK, Login!At, Login!Inside
    <2>2. /\ /\ lost \subseteq lost'
          /\ lost' \subseteq Login!SignIns
          /\ crashes' \in 0 .. MaxCrashes
          /\ vanished' \in BOOLEAN /\ login_lock' = login_lock /\ login_lock \in Procs \cup {NoSession}
          /\ UNCHANGED <<record, key, token, server, reused, out>>
      BY <1>1, <1>3 DEF Login!TypeOK, Login!files, Login!history
    <2> QED  BY <1>1, <2>1, <2>2, IdleTyped, Quits DEF Login!At
  <1> QED  BY <1>2, <1>3 DEF Login!Authorize

LEMMA StoreKeeps ==
  ASSUME Login!LoginAssumption, LoginInv, NEW p \in Procs, Login!Store(p) PROVE LoginInv'
  <1>1. /\ login_lock = p /\ proc[p].pc \in {"store1", "store2", "store3", "store4"}
        /\ UNCHANGED <<server, crashes, Login!history>>
    BY DEF Login!Store, Login!At, LoginInv, Login!TypeOK, Login!Inside
  <1>2. CASE Login!At(p, "store1") /\ record' = NoSession /\ Login!Goto(p, "store2") /\ UNCHANGED <<key, token, login_lock>>
    BY <1>1, <1>2, StoreBegins
  <1>3. CASE Login!At(p, "store2") /\ key' = proc[p].s /\ Login!Goto(p, "store3") /\ UNCHANGED <<record, token, login_lock>>
    BY <1>1, <1>3, StoreKey
  <1>4. CASE Login!At(p, "store3") /\ token' = proc[p].tok /\ Login!Goto(p, "store4") /\ UNCHANGED <<record, key, login_lock>>
    BY <1>1, <1>4, StoreToken
  <1>5. CASE Login!At(p, "store4") /\ record' = proc[p].s /\ Login!Goto(p, "read") /\ login_lock' = NoSession /\ UNCHANGED <<key, token>>
    BY <1>1, <1>5, StoreEnds
  <1>6. CASE Login!Return(p) /\ UNCHANGED Login!files
    BY <1>1, <1>6, Returns DEF Login!files, Login!history
  <1> QED  BY <1>2, <1>3, <1>4, <1>5, <1>6 DEF Login!Store

LEMMA ReadBackKeeps ==
  ASSUME Login!LoginAssumption, LoginInv, NEW p \in Procs, Login!ReadBack(p) PROVE LoginInv'
  <1>1. Login!TypeOK
    BY DEF LoginInv
  <1>2. Leaves(p, Login!Idle) /\ login_lock # p /\ proc[p].pc = "read"
    BY <1>1, IdleTyped, LeavesAs DEF Login!ReadBack, Login!TypeOK, Login!At, Login!Inside
  <1>3. /\ lost \subseteq lost' /\ lost' \subseteq Login!SignIns /\ crashes' \in 0 .. MaxCrashes
        /\ login_lock' = login_lock /\ login_lock \in Procs \cup {NoSession}
        /\ UNCHANGED <<record, key, token, server, reused, out>>
    BY <1>1 DEF Login!TypeOK, Login!ReadBack, Login!files
  <1>4. vanished' \in BOOLEAN
    BY DEF Login!ReadBack
  <1> QED  BY <1>2, <1>3, <1>4, IdleTyped, Quits

LEMMA CrashKeeps ==
  ASSUME Login!LoginAssumption, LoginInv, NEW p \in Procs, Login!Crash(p) PROVE LoginInv'
  <1>1. Login!TypeOK
    BY DEF LoginInv
  <1>2. Leaves(p, Login!Idle)
    BY <1>1, IdleTyped, LeavesAs DEF Login!Crash
  <1>3. proc[p].pc = "reply" => proc[p].s \in Login!SignIns
    BY ReplySession DEF Login!At
  <1>4. /\ lost \subseteq lost' /\ lost' \subseteq Login!SignIns
        /\ proc[p].pc = "reply" /\ proc[p].answer = "rotated" => proc[p].s \in lost'
    BY <1>1, <1>3 DEF Login!Crash, Login!At, Login!TypeOK
  <1>5. crashes' \in 0 .. MaxCrashes
    BY <1>1 DEF Login!Crash, Login!TypeOK, Login!LoginAssumption
  <1>6. /\ login_lock' # p /\ login_lock' \in Procs \cup {NoSession}
        /\ \A q \in Procs : q # p => (login_lock = q <=> login_lock' = q)
    BY <1>1 DEF Login!Crash, Login!TypeOK, Login!LoginAssumption
  <1>7. UNCHANGED <<record, key, token, server, reused, out, vanished>> /\ vanished' \in BOOLEAN
    BY <1>1 DEF Login!Crash, Login!files, Login!TypeOK
  <1> QED  BY <1>2, <1>4, <1>5, <1>6, <1>7, IdleTyped, Quits

LEMMA LoginNext ==
  ASSUME Login!LoginAssumption, LoginInv, [Login!Next]_(Login!vars)
  PROVE  LoginInv'
  <1>1. CASE UNCHANGED Login!vars
    BY <1>1
       DEF Login!vars, Login!files, Login!history, LoginInv, Login!TypeOK, HeldIsStored,
           AnswersTrue, RecordFirst, FreshIsOwn,
       Granted, BehindIsLost, Login!RecordHasItsSecrets, Login!ReuseOnlyAfterLoss,
       Login!SignedOutIsRevoked
  <1>2. ASSUME NEW p \in Procs, NEW command \in Login!LoginCommands, Login!Start(p, command) PROVE LoginInv'
    BY <1>2, StartKeeps
  <1>3. ASSUME NEW p \in Procs,
               \/ Login!Load(p) \/ Login!NonceDemanded(p) \/ Login!Send(p) \/ Login!ReplyLost(p) \/ Login!Reply(p)
               \/ Login!Save(p) \/ Login!Revoke(p) \/ Login!Clear(p) \/ Login!Authorize(p) \/ Login!Relock(p) \/ Login!Store(p)
               \/ Login!ReadBack(p) \/ Login!Crash(p)
        PROVE  LoginInv'
    BY <1>3, LoginLoadKeeps, NonceDemandedKeeps, SendKeeps, ReplyKeeps, SaveKeeps, RevokeKeeps,
       ClearKeeps, AuthorizeKeeps, RelockKeeps, StoreKeeps, ReadBackKeeps, CrashKeeps
       DEF Login!NonceDemanded
  <1>4. ASSUME NEW s \in Login!SignIns, Login!Expire(s) PROVE LoginInv'
    BY <1>4, ExpireKeeps
  <1> QED  BY <1>1, <1>2, <1>3, <1>4 DEF Login!Next

\* LoginInv is an invariant of the sign-in.
THEOREM LoginInvariant ==
  Login!LoginAssumption /\ Login!Spec => [](Login!LoginAssumption /\ LoginInv)
  <1> DEFINE I == Login!LoginAssumption /\ LoginInv
  <1>1. Login!LoginAssumption /\ Login!Init => I
    BY LoginBegins
  <1>2. I /\ [Login!Next]_(Login!vars) => I'
    BY LoginNext DEF Login!LoginAssumption, Login!Tokens, Login!SignIns
  <1> QED  BY <1>1, <1>2, PTL DEF Login!Spec

\* Wherever a store or a clear fails or is cut off by a crash, a record on disk has
\* its own key and token beside it.
THEOREM RecordsHaveSecrets == Login!LoginAssumption /\ Login!Spec => []RecordHasItsSecrets
  <1>1. LoginInv => Login!RecordHasItsSecrets
    BY DEF LoginInv
  <1>9. Login!RecordHasItsSecrets => RecordHasItsSecrets
    BY DEF RecordHasItsSecrets
  <1> QED  BY <1>9, <1>1, LoginInvariant, PTL

\* However many processes refresh, a rotated token is presented again only when the
\* answer that carried its successor was lost.
THEOREM TokensUsedOnce == Login!LoginAssumption /\ Login!Spec => []ReuseOnlyAfterLoss
  <1>1. LoginInv => Login!ReuseOnlyAfterLoss
    BY DEF LoginInv
  <1>9. Login!ReuseOnlyAfterLoss => ReuseOnlyAfterLoss
    BY DEF ReuseOnlyAfterLoss
  <1> QED  BY <1>9, <1>1, LoginInvariant, PTL

\* A logout that reports success has ended the session at the platform.
THEOREM LogoutRevokes == Login!LoginAssumption /\ Login!Spec => []Login!SignedOutIsRevoked
  <1>1. LoginInv => Login!SignedOutIsRevoked
    BY DEF LoginInv
  <1> QED  BY <1>1, LoginInvariant, PTL

\* The step OpenSessionKept is about.
KeepsOpen ==
    (record # NoSession /\ record' = NoSession /\ server[record].st = "open") =>
        \E p \in Procs : /\ login_lock = p
                         /\ \/ proc[p].cmd = "logout"
                            \/ proc[p].pc = "store1"

LEMMA StepKeepsOpen == ASSUME Login!LoginAssumption, LoginInv, Login!Next PROVE KeepsOpen
  <1> SUFFICES ASSUME record # NoSession, record' = NoSession, server[record].st = "open"
               PROVE  \E p \in Procs : /\ login_lock = p
                                       /\ \/ proc[p].cmd = "logout"
                                          \/ proc[p].pc = "store1"
    BY DEF KeepsOpen
  <1>1. PICK p \in Procs : Login!Clear(p) \/ Login!Store(p) \/ Login!Save(p)
    BY DEF Login!Next, Login!Start, Login!Load, Login!NonceDemanded, Login!Send, Login!ReplyLost, Login!Reply,
           Login!Revoke, Login!Authorize, Login!Relock, Login!ReadBack, Login!Crash,
           Login!Expire, Login!files
  <1>2. proc[p].pc \in {"clear1", "store1"} /\ login_lock = p
    <2>1. CASE Login!Clear(p)
      BY <2>1 DEF Login!Clear, Login!At, Login!files, LoginInv, Login!TypeOK, Login!Inside
    <2>2. CASE Login!Store(p)
      <3>1. proc[p].pc \in {"store1", "store2", "store3", "store4"} /\ login_lock = p
        BY <2>2 DEF Login!Store, Login!At, LoginInv, Login!TypeOK, Login!Inside
      <3>2. proc[p].s # NoSession
        BY <3>1, FreshHolds DEF Fresh, Login!LoginAssumption, Login!SignIns
      <3> QED  BY <2>2, <3>1, <3>2 DEF Login!Store, Login!At, Login!files
    <2>3. CASE Login!Save(p)
      BY <2>3 DEF Login!Save, Login!At, LoginInv, HeldIsStored
    <2> QED  BY <1>1, <2>1, <2>2, <2>3
  <1>3. proc[p].pc = "clear1" => proc[p].cmd = "logout"
    BY DEF LoginInv, RecordFirst
  <1> QED  BY <1>2, <1>3

\* Only a logout, or a login about to replace it, removes the record of a session
\* the platform still honours.
THEOREM OpenSessionsKept == Login!LoginAssumption /\ Login!Spec => Login!OpenSessionKept
  <1>1. Login!LoginAssumption /\ LoginInv /\ [Login!Next]_(Login!vars) => [KeepsOpen]_(Login!vars)
    BY StepKeepsOpen
  <1>2. Login!LoginAssumption /\ Login!Spec => [][KeepsOpen]_(Login!vars)
    BY <1>1, LoginInvariant, PTL DEF Login!Spec
  <1> QED  BY <1>2 DEF KeepsOpen, Login!OpenSessionKept
=============================================================================
