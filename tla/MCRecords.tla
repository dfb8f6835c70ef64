------------------------------ MODULE MCRecords ------------------------------
(***************************************************************************)
(* What a session leaves behind: its audit log and the inclusion proofs     *)
(* over it.  They have no state in common, so they are explored side by     *)
(* side: moving says which of them takes steps, the other keeps an initial  *)
(* state.  The audit log runs under one of two loads.                       *)
(***************************************************************************)
EXTENDS SessionAudit, TLC

CONSTANTS p1, p2, p3, s1, d1, c1, c2, c3, l1, l2, none

VARIABLES moving, log, proof, altered

proofs == <<log, proof, altered>>

\* Command-policy events of two commands, one more than the rollup names.
CommandOfEvent == c1 :> "git" @@ c2 :> "git" @@ c3 :> "curl"
OutcomeOfEvent == c1 :> "Pending" @@ c2 :> "Denied" @@ c3 :> "Allowed"

\* Three proxy tasks and the supervisor deliver network events, or one task
\* does while mediation threads and capability decisions write to the log.
Load == [delivery |-> {p1, p2, p3, s1}, rollup |-> {p1, d1, c1, c2, c3}]
Faults == [delivery |-> 2, rollup |-> 1]

\* Trees of up to five leaves, so that a node is promoted at each level, and
\* proofs with two fields that differ.
Proofs == INSTANCE AuditMerkle
    WITH Leaves <- {l1, l2}, MaxLeaves <- 5, MaxAlterations <- 2, None <- none

ASSUME InstancesConfigured == AuditConstants /\ Proofs!MerkleConfigured

RecordsInit ==
    /\ moving \in {"delivery", "rollup", "proofs"}
    /\ Init
    /\ Proofs!Init

AuditMoves ==
    /\ moving \in DOMAIN Load
    /\ Next
    /\ \A e \in DOMAIN push \ Load[moving] : push'[e] = "idle"
    /\ faults' <= Faults[moving]
    /\ UNCHANGED <<moving, proofs>>
ProofsMove ==
    moving = "proofs" /\ Proofs!Next /\ UNCHANGED <<moving, vars>>

RecordsNext == AuditMoves \/ ProofsMove

RecordsSpec == RecordsInit /\ [][RecordsNext]_<<moving, vars, proofs>>

-----------------------------------------------------------------------------
(* A proof built for an event is accepted whatever the log grows to, and an *)
(* accepted one, whichever of its fields differ, names an event of the log  *)
(* whose root it carries (audit.rs, verify_inclusion_proof).                *)
AcceptedProofsAreTrue == Proofs!AcceptedProofsAreTrue
=============================================================================
