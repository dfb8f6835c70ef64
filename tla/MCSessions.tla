------------------------------ MODULE MCSessions ------------------------------
(***************************************************************************)
(* What several nono processes share through files, side by side: the       *)
(* audit ledger, the records of sessions and the platform sign-in.  moving   *)
(* says which of them takes steps, the others keep an initial state.        *)
(***************************************************************************)
EXTENDS Ledger, SharedFiles

CONSTANTS ps, prune, stop

VARIABLES moving

registry ==
    <<sup, stopped, pid, mem, session_file, update, client, cmd, attaches, pauses, ended>>
login == <<login_lock, record, key, token, proc, server, crashes, lost, reused, out, vanished>>

\* A legacy ledger of two records.
TwoRecords == <<"old1", "old2">>

KindOf == [c \in {ps, prune, stop} |->
              CASE c = ps -> "ps" [] c = prune -> "prune" [] c = stop -> "stop"]

ASSUME InstancesConfigured ==
    LedgerConstants /\ Registry!RegistryAssumption /\ Login!LoginAssumption

\* Where a part has several initial states it rests in the one named here.
SessionsInit ==
    /\ moving \in {"ledger", "registry", "login"}
    /\ Init /\ (moving = "ledger" \/ child = [s \in Sessions |-> "zero"])
    /\ Registry!Init /\ (moving = "registry" \/ client = "detached")
    /\ Login!Init

LedgerMoves == moving = "ledger" /\ Next /\ UNCHANGED <<moving, registry, login>>
RegistryMoves == moving = "registry" /\ Registry!Next /\ UNCHANGED <<moving, vars, login>>
LoginMoves == moving = "login" /\ Login!Next /\ UNCHANGED <<moving, vars, registry>>

SessionsNext == LedgerMoves \/ RegistryMoves \/ LoginMoves

SessionsSpec == SessionsInit /\ [][SessionsNext]_<<moving, vars, registry, login>>
=============================================================================
