----------------------------- MODULE SharedFiles -----------------------------
(***************************************************************************)
(* What nono processes share through files besides the ledger: the record  *)
(* of a session and the platform sign-in.  They have no state in common:   *)
(* the module gives each its own constants and variables and names the     *)
(* properties they are explored and proved for.                            *)
(***************************************************************************)
EXTENDS Integers

CONSTANTS
    Commands, Kind, Codes, MaxAttach, MaxPauses,
    Procs, MaxSessions, MaxGen, MaxCrashes, NoSession

VARIABLES
    sup, stopped, pid, mem, session_file, update, client, cmd, attaches, pauses, ended,
    login_lock, record, key, token, proc, server, crashes, lost, reused, out, vanished

Registry == INSTANCE SessionRegistry WITH file <- session_file

Login == INSTANCE PlatformLogin WITH None <- NoSession, lock <- login_lock

-----------------------------------------------------------------------------
(* A command that starts after the supervisor died shows the session as     *)
(* exited and detached and signals no process, whatever the session file    *)
(* still says (session.rs, reconcile_session_record).                       *)
LateCommandsSeeTheExit == Registry!LateCommandsSeeTheExit

(* A record of the sign-in is never on disk without the key and a token of  *)
(* its own session (platform_oauth/session.rs, store_session and clear).    *)
RecordHasItsSecrets == Login!RecordHasItsSecrets

(* The platform sees a rotated token again only if the answer that carried  *)
(* its successor was lost (platform_oauth/session.rs, the refresh).         *)
ReuseOnlyAfterLoss == Login!ReuseOnlyAfterLoss
=============================================================================
