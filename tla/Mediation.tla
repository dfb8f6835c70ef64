------------------------------ MODULE Mediation -------------------------------
(***************************************************************************)
(* The broker that mediates commands, beside the token broker with which   *)
(* it has no state in common: the module gives it constants and variables  *)
(* of its own and names the properties it is explored and proved for.      *)
(***************************************************************************)
EXTENDS Integers

CONSTANTS
    Pids, Root, Super, Session, Commands, Setups, Gated, Edges, SelfEntry, Requests,
    MaxActive, Depth, Nobody

VARIABLES setup, proc, req, tracked, queued, active, kernel

Shims == INSTANCE ShimBroker WITH None <- Nobody

-----------------------------------------------------------------------------
(* A request counts for what a process that had one of the ids the walk     *)
(* stood on descends from, the asking process unless its id was reused: a   *)
(* stale entry or a changing ancestry adds no caller of its own             *)
(* (tool-sandbox/platform/linux.rs, resolve_caller_with).                   *)
CallerIsSpawner == Shims!CallerIsSpawner

(* Once every request is answered no slot, no place in the queue and no     *)
(* entry of a gone command is left, whichever step of the launch failed,    *)
(* but for the entry of a command with brokered output whose status was     *)
(* lost (tool-sandbox/platform/linux.rs).                                   *)
NothingLeftOver == Shims!NothingLeftOver
=============================================================================
