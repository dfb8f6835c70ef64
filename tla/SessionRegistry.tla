--------------------------- MODULE SessionRegistry ---------------------------
(***************************************************************************)
(* The record of one supervised session and everyone who rewrites it       *)
(* (session.rs, session_commands.rs).  The supervisor keeps a copy in      *)
(* memory and writes it whole at fixed points of its life; its PTY proxy   *)
(* loads, changes and writes the attachment; every command loads the       *)
(* record, probes the supervisor's process, and writes the reconciled      *)
(* record back when its status or exit code changed.  Nothing locks the    *)
(* file: each write is one rename, each load-probe-write sequence is not.  *)
(* Processes may be stopped, continued and killed, and a dead supervisor's *)
(* process id may be given to an unrelated process.                        *)
(***************************************************************************)
EXTENDS Integers

CONSTANTS
    Commands,   \* command invocations
    Kind,       \* Kind[c] \in {"ps", "prune", "stop"}
    Codes,      \* exit codes of the session's command
    MaxAttach,  \* bound on the changes of attachment
    MaxPauses   \* bound on the times the supervisor is stopped

RegistryAssumption ==
    /\ Kind \in [Commands -> {"ps", "prune", "stop"}]
    /\ MaxAttach \in Nat /\ MaxPauses \in Nat

VARIABLES
    sup,        \* progress of the supervisor; "dead" once its process is gone
    stopped,    \* the supervisor's process is stopped by a signal
    pid,        \* whose the recorded process id is: "own", "free", "other"
    mem,        \* the record SessionGuard holds
    file,       \* the session file: Absent, Empty or a record
    update,     \* the attachment update under way: NoRecord or the loaded record
    client,     \* the attachment the PTY proxy really has
    cmd,        \* cmd[c]: progress of a command and the record it holds
    attaches, pauses,
    ended       \* ghost: the exit code the session's command ended with, or None

vars == <<sup, stopped, pid, mem, file, update, client, cmd, attaches, pauses, ended>>

None == "none"
Lost == "-1"

Records ==
    [status : {"running", "paused", "exited"},
     code : Codes \cup {Lost, None},
     attach : {"attached", "detached"}]

(* No file, a file without a record yet, no record in hand *)
Absent == [status |-> "absent", code |-> None, attach |-> "none"]
Empty == [status |-> "empty", code |-> None, attach |-> "none"]
NoRecord == [status |-> "none", code |-> None, attach |-> "none"]

Steps == {"idle", "absent", "loaded", "alive", "changed", "have", "sure",
          "waiting", "overdue", "done"}

Init ==
    /\ sup = "new" /\ stopped = FALSE /\ pid = "own"
    /\ client \in {"attached", "detached"}
    /\ mem = [status |-> "running", code |-> None, attach |-> client]
    /\ file = Absent
    /\ update = NoRecord
    /\ cmd = [c \in Commands |-> [pc |-> "idle", rec |-> NoRecord, late |-> FALSE, signalled |-> "none"]]
    /\ attaches = 0 /\ pauses = 0
    /\ ended = None

-----------------------------------------------------------------------------
(* The supervisor.  One thread does all of it, so nothing else of the       *)
(* supervisor happens between the load and the write of an attachment       *)
(* update, and nothing at all while its process is stopped.                 *)

SupSteps == sup # "dead" /\ ~stopped /\ update = NoRecord

(* SessionGuard::new: the file exists, empty, before its record is written *)
CreateFile ==
    /\ SupSteps /\ sup = "new"
    /\ file' = Empty
    /\ sup' = "creating"
    /\ UNCHANGED <<stopped, pid, mem, update, client, cmd, attaches, pauses, ended>>

WriteRecord ==
    /\ SupSteps /\ sup = "creating"
    /\ file' = mem
    /\ sup' = "up"
    /\ UNCHANGED <<stopped, pid, mem, update, client, cmd, attaches, pauses, ended>>

(* The fork callback stores the child's pid and writes the whole record    *)
set_child_pid ==
    /\ SupSteps /\ sup = "up"
    /\ file' = mem
    /\ sup' = "forked"
    /\ UNCHANGED <<stopped, pid, mem, update, client, cmd, attaches, pauses, ended>>

set_exited ==
    /\ SupSteps /\ sup = "forked"
    /\ \E code \in Codes :
        /\ mem' = [mem EXCEPT !.status = "exited", !.code = code]
        /\ ended' = code
    /\ file' = mem'
    /\ sup' = "ending"
    /\ UNCHANGED <<stopped, pid, update, client, cmd, attaches, pauses>>

(* SessionGuard::drop on an early error return.  The second write of a      *)
(* normal exit is the same action after set_exited.                         *)
DropGuard ==
    /\ SupSteps /\ sup \in {"up", "forked", "ending"}
    /\ mem' = IF mem.status = "running"
              THEN [mem EXCEPT !.status = "exited", !.code = Lost]
              ELSE mem
    /\ file' = mem'
    /\ sup' = "dropped"
    /\ UNCHANGED <<stopped, pid, update, client, cmd, attaches, pauses, ended>>

Exit ==
    /\ SupSteps /\ sup = "dropped"
    /\ sup' = "dead" /\ pid' = "free"
    /\ UNCHANGED <<stopped, mem, file, update, client, cmd, attaches, pauses, ended>>

(* The PTY proxy takes or drops its client, then persists the attachment:   *)
(* update_session_attachment gives up when the record cannot be loaded.     *)
ChangeAttachment ==
    /\ SupSteps /\ sup = "forked" /\ attaches < MaxAttach
    /\ attaches' = attaches + 1
    /\ client' = IF client = "attached" THEN "detached" ELSE "attached"
    /\ update' = IF file \in Records THEN [file EXCEPT !.attach = client'] ELSE NoRecord
    /\ UNCHANGED <<sup, stopped, pid, mem, file, cmd, pauses, ended>>

WriteAttachment ==
    /\ sup # "dead" /\ ~stopped /\ update # NoRecord
    /\ file' = update
    /\ update' = NoRecord
    /\ UNCHANGED <<sup, stopped, pid, mem, client, cmd, attaches, pauses, ended>>

-----------------------------------------------------------------------------
(* What happens to the supervisor's process from outside                    *)

Stop ==
    /\ sup # "dead" /\ ~stopped /\ pauses < MaxPauses
    /\ stopped' = TRUE /\ pauses' = pauses + 1
    /\ UNCHANGED <<sup, pid, mem, file, update, client, cmd, attaches, ended>>

Continue ==
    /\ sup # "dead" /\ stopped
    /\ stopped' = FALSE
    /\ UNCHANGED <<sup, pid, mem, file, update, client, cmd, attaches, pauses, ended>>

Killed ==
    /\ sup' = "dead" /\ pid' = "free"
    /\ stopped' = FALSE /\ update' = NoRecord

Crash ==
    /\ sup # "dead"
    /\ Killed
    /\ UNCHANGED <<mem, file, client, cmd, attaches, pauses, ended>>

ReusePid ==
    /\ pid = "free"
    /\ pid' = "other"
    /\ UNCHANGED <<sup, stopped, mem, file, update, client, cmd, attaches, pauses, ended>>

-----------------------------------------------------------------------------
(* A command: load_reconciled_session_file and what it does with the record *)

(* A probe that only asks whether the pid answers a signal *)
MutantAliveByPid == pid # "free"

(* The pid answers a signal and its start time is the recorded one         *)
is_process_alive == pid = "own"

Cmd(c, pc, rec) == [cmd EXCEPT ![c].pc = pc, ![c].rec = rec]

Done(c) == Cmd(c, "done", NoRecord)

Rest == UNCHANGED <<sup, stopped, pid, mem, file, update, client, attaches, pauses, ended>>

(* A missing or unreadable file is skipped *)
Load(c) ==
    /\ cmd[c].pc = "idle" /\ sup # "new"
    /\ cmd' = [cmd EXCEPT ![c] =
        IF file \in Records
        THEN [pc |-> "loaded", rec |-> file, late |-> sup = "dead", signalled |-> "none"]
        ELSE [pc |-> "absent", rec |-> NoRecord, late |-> sup = "dead", signalled |-> "none"]]
    /\ Rest

(* What reconcile_session_record makes of a record once it has probed      *)
Reconciled(rec, seen) ==
    CASE seen = "dead" ->
            [status |-> "exited", attach |-> "detached",
             code |-> IF rec.code = None THEN Lost ELSE rec.code]
      [] seen = "stopped" -> [rec EXCEPT !.status = "paused", !.code = None]
      [] seen = "running" -> [rec EXCEPT !.status = "running", !.code = None]

Changed(old, new) == old.status # new.status \/ old.code # new.code

Found(c, seen) ==
    LET new == Reconciled(cmd[c].rec, seen)
    IN cmd' = Cmd(c, IF Changed(cmd[c].rec, new) THEN "changed" ELSE "have", new)

(* Two probes: the process may die or stop between them *)
ProbeAlive(c) ==
    /\ cmd[c].pc = "loaded"
    /\ IF is_process_alive THEN cmd' = Cmd(c, "alive", cmd[c].rec) ELSE Found(c, "dead")
    /\ Rest

ProbeStopped(c) ==
    /\ cmd[c].pc = "alive"
    /\ Found(c, IF stopped THEN "stopped" ELSE "running")
    /\ Rest

(* The rename replaces whatever is there, or nothing at all *)
WriteBack(c) ==
    /\ cmd[c].pc = "changed"
    /\ file' = cmd[c].rec
    /\ cmd' = Cmd(c, "have", cmd[c].rec)
    /\ UNCHANGED <<sup, stopped, pid, mem, update, client, attaches, pauses, ended>>

(* run_ps, and every command that found no record *)
Finish(c) ==
    /\ \/ cmd[c].pc = "absent"
       \/ cmd[c].pc = "have" /\ Kind[c] = "ps"
       \/ cmd[c].pc = "have" /\ Kind[c] = "prune" /\ cmd[c].rec.status = "running"
       \/ cmd[c].pc = "have" /\ Kind[c] = "stop" /\ cmd[c].rec.status = "exited"
    /\ cmd' = Done(c)
    /\ Rest

(* run_prune removes the record of a session that is not running *)
Prune(c) ==
    /\ cmd[c].pc = "have" /\ Kind[c] = "prune" /\ cmd[c].rec.status # "running"
    /\ file' = Absent
    /\ cmd' = Done(c)
    /\ UNCHANGED <<sup, stopped, pid, mem, update, client, attaches, pauses, ended>>

(* run_stop probes once more ... *)
CheckAlive(c) ==
    /\ cmd[c].pc = "have" /\ Kind[c] = "stop" /\ cmd[c].rec.status # "exited"
    /\ IF is_process_alive THEN cmd' = Cmd(c, "sure", cmd[c].rec) ELSE cmd' = Done(c)
    /\ Rest

Signals(c, next) ==
    cmd' = [cmd EXCEPT ![c].pc = next,
                       ![c].rec = NoRecord,
                       ![c].signalled = CASE pid = "own" -> "session"
                                          [] pid = "other" -> "other"
                                          [] pid = "free" -> cmd[c].signalled]

(* ... and signals the pid: SIGTERM, which the supervisor hands to its     *)
(* command and may outlive, or SIGKILL; no process, no signal and an error *)
Terminate(c) ==
    /\ cmd[c].pc = "sure"
    /\ Signals(c, IF pid = "free" THEN "done" ELSE "waiting")
    /\ Rest

(* The deadline has passed for a supervisor that was just seen alive ...   *)
DeadlinePasses(c) ==
    /\ cmd[c].pc = "waiting" /\ is_process_alive
    /\ cmd' = Cmd(c, "overdue", NoRecord)
    /\ Rest

(* ... or --force: whoever has the pid by now gets SIGKILL *)
KillNow(c) ==
    /\ cmd[c].pc \in {"sure", "overdue"}
    /\ Signals(c, "done")
    /\ IF pid = "own" THEN Killed ELSE UNCHANGED <<sup, stopped, pid, update>>
    /\ UNCHANGED <<mem, file, client, attaches, pauses, ended>>

SeesItGone(c) ==
    /\ cmd[c].pc = "waiting" /\ ~is_process_alive
    /\ cmd' = Done(c)
    /\ Rest

CommandStep(c) ==
    \/ ProbeAlive(c) \/ ProbeStopped(c) \/ WriteBack(c)
    \/ Finish(c) \/ Prune(c) \/ CheckAlive(c)
    \/ Terminate(c) \/ SeesItGone(c) \/ DeadlinePasses(c) \/ KillNow(c)

Next ==
    \/ CreateFile \/ WriteRecord \/ set_child_pid \/ set_exited \/ DropGuard \/ Exit
    \/ ChangeAttachment \/ WriteAttachment
    \/ Stop \/ Continue \/ Crash \/ ReusePid
    \/ \E c \in Commands : Load(c) \/ CommandStep(c)

(* A started command is run to its end; the session itself owes nothing:    *)
(* its command may run for ever and its supervisor stay stopped for ever.   *)
Spec ==
    /\ Init /\ [][Next]_vars
    /\ \A c \in Commands : WF_vars(CommandStep(c))

-----------------------------------------------------------------------------
(* The shape of the state *)
TypeOK ==
    /\ sup \in {"new", "creating", "up", "forked", "ending", "dropped", "dead"}
    /\ stopped \in BOOLEAN /\ pid \in {"own", "free", "other"}
    /\ mem \in Records
    /\ file \in Records \cup {Absent, Empty}
    /\ update \in Records \cup {NoRecord}
    /\ client \in {"attached", "detached"}
    /\ cmd \in [Commands -> [pc : Steps, rec : Records \cup {NoRecord}, late : BOOLEAN,
                             signalled : {"none", "session", "other"}]]
    /\ attaches \in 0..MaxAttach /\ pauses \in 0..MaxPauses
    /\ ended \in Codes \cup {None}

(* A command that starts after the supervisor died shows the session as     *)
(* exited and detached, with some exit code, and signals no process,        *)
(* whatever the file still says and whoever has the process id by then.     *)
LateCommandsSeeTheExit ==
    \A c \in Commands :
        cmd[c].late =>
            /\ cmd[c].signalled = "none"
            /\ cmd[c].pc \in {"changed", "have"} =>
                   /\ cmd[c].rec.status = "exited"
                   /\ cmd[c].rec.attach = "detached"
                   /\ cmd[c].rec.code # None

(* Cleanup never takes the record of a session whose supervisor lives and   *)
(* was never stopped, not even between the write of the exit code and the   *)
(* end of the process: once written, the record is there.                   *)
LiveRecordKept ==
    sup \in {"up", "forked", "ending", "dropped"} /\ pauses = 0 => file \in Records

(* The exit code set_exited recorded is what a later command shows, when    *)
(* every command that ran before the supervisor's death had already         *)
(* finished, or never loaded the record, by the time it was written.        *)
RecordedExitCodeShown ==
    (/\ ended # None
     /\ \A c \in Commands : cmd[c].late \/ cmd[c].pc = "idle")
        => \A c \in Commands :
             cmd[c].late /\ cmd[c].pc \in {"changed", "have"}
                 => cmd[c].rec.code = ended

(* nono stop, once it has sent SIGTERM, ends with the supervisor gone: a    *)
(* supervisor that outlives the signal is killed at the deadline.           *)
StopEnds ==
    \A c \in {d \in Commands : Kind[d] = "stop"} :
        cmd[c].pc = "waiting" ~> cmd[c].pc = "done" /\ sup = "dead"

(* docs/cli/features/session-lifecycle.mdx: exited means the supervisor has *)
(* recorded a final exit code.  A later command shows that code.            *)
ExitCodeKept ==
    \A c \in Commands :
        (/\ cmd[c].late /\ ended # None
         /\ cmd[c].pc \in {"changed", "have"})
            => cmd[c].rec.code = ended

Quiet == update = NoRecord /\ \A c \in Commands : cmd[c].pc \in {"idle", "absent", "have", "done"}

(* docs/cli/features/session-lifecycle.mdx: attached means a human client   *)
(* is currently connected.  With no update under way the record of a        *)
(* running session says which.                                              *)
AttachmentShown ==
    sup = "forked" /\ Quiet /\ file \in Records => file.attach = client
=============================================================================
