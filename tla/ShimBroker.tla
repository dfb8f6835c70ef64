----------------------------- MODULE ShimBroker -----------------------------
(***************************************************************************)
(* The command broker of tool-sandbox/platform/linux.rs.  A mediated        *)
(* command is a shim: it connects to the broker, a thread of the broker     *)
(* finds out which command (or the session) the shim descends from by       *)
(* walking /proc, applies that caller's policy, launches the real command   *)
(* as a child of the supervisor and waits for it.                           *)
(*                                                                         *)
(* Threads interleave with each other and with the processes, which fork,   *)
(* request commands and exit while a walk reads their ancestry.  Orphans    *)
(* fall to the supervisor, a child subreaper.  A process id is reused as    *)
(* soon as its process is gone, also while a request names its peer or the  *)
(* walk's current process by that id.                                       *)
(***************************************************************************)
EXTENDS Integers, FiniteSets

CONSTANTS
    Pids,         \* process ids below the session root
    Root,         \* the session root
    Super,        \* the supervisor; above it a walk only meets pid 1
    Session,      \* the caller label of the session
    Commands,     \* policy-controlled commands
    Setups,       \* what a session may have been started with, see Setup
    Gated,        \* commands with an intercept rule that asks for approval
    Edges,        \* <<caller, command>> pairs that have a sandbox
    SelfEntry,    \* commands with an explicit self-invocation entry
    Requests,     \* shim requests of one run
    MaxActive,    \* MAX_ACTIVE_TOOL_SANDBOX_CHILDREN
    Depth,        \* ANCESTRY_DEPTH_LIMIT
    None

(* How each command is launched, which have an invocation policy for their *)
(* arguments, whether a writable cgroup base was found, the size of the    *)
(* queue (MAX_QUEUED_SHIM_REQUESTS) and the process ids the kernel has.    *)
Setup == [kind : [Commands -> {"direct", "limited", "capture", "respond"}],
          invoked : SUBSET Commands, lineage : BOOLEAN, queue : Nat, pids : SUBSET Pids]

BrokerAssumption ==
    /\ Setups \subseteq Setup
    /\ Gated \subseteq Commands /\ SelfEntry \subseteq Commands
    /\ \A s \in Setups, k \in Gated : s.kind[k] \in {"direct", "limited"}
    /\ Edges \subseteq (Commands \cup {Session}) \X Commands
    /\ MaxActive \in Nat /\ Depth \in Nat
    /\ Root \notin Pids /\ Super \notin Pids /\ Root # Super
    /\ None \notin Requests \cup Pids \cup Commands

VARIABLES
    setup,     \* what this session was started with
    proc,      \* per process id: state, parent, the launch it descends from
    req,       \* per request: where its thread is and what it has found
    tracked,   \* active_children: process id -> the request that launched it
    queued,    \* queued_requests
    active,    \* active_count
    kernel     \* per request: whose its process ids are, see Unknown

vars == <<setup, proc, req, tracked, queued, active, kernel>>

Kind == setup.kind
Invoked == setup.invoked
Lineage == setup.lineage
MaxQueued == setup.queue

Callers == Commands \cup {Session}
Free == [st |-> "free", parent |-> None, launch |-> None,
         out |-> FALSE]
Fresh == [st |-> "idle", peer |-> None, from |-> None, cmd |-> None, cur |-> None,
          steps |-> 0, caller |-> None, short |-> FALSE, child |-> None,
          over |-> FALSE, audit |-> "none", answer |-> "none"]
(* owners: the launches that processes descend from which had the peer's or *)
(* the walk's current id since the connection; waits: the peer's id is still *)
(* the shim's; lost: the status of the child went elsewhere.                *)
Unknown == [owners |-> {}, waits |-> FALSE, lost |-> FALSE]

Waiting == {"accepted", "walk", "resolved", "invocation", "gate", "act", "slot", "giveback",
            "launch", "spawned", "running", "reaped", "join", "ran", "failed", "closing"}
Holding == {"giveback", "launch", "spawned", "running", "reaped", "join", "ran", "failed"}

TypeOK ==
    /\ setup \in Setups
    /\ proc \in [Pids -> [st : {"free", "live", "zombie"},
                          parent : Pids \cup {Root, Super, None},
                          launch : Requests \cup {None},
                          out : BOOLEAN]]
    /\ \A r \in Requests :
          /\ req[r].st \in Waiting \cup {"idle", "answered"}
          /\ req[r].caller \in Callers \cup {None}
          /\ req[r].audit \in {"none", "recorded", "failed"}
          /\ req[r].answer \in {"none", "ran", "error", "refused"}
    /\ tracked \in [Pids -> Requests \cup {None}]
    /\ queued \in Nat
    /\ active \in 0 .. Cardinality(Requests)
    /\ kernel \in [Requests -> [owners : SUBSET (Requests \cup {None}), waits : BOOLEAN,
                               lost : BOOLEAN]]

Init ==
    /\ setup \in Setups
    /\ proc = [p \in Pids |-> Free]
    /\ req = [r \in Requests |-> Fresh]
    /\ tracked = [p \in Pids |-> None]
    /\ queued = 0
    /\ active = 0
    /\ kernel = [r \in Requests |-> Unknown]

-----------------------------------------------------------------------------
(* Processes.                                                              *)

Unused == {p \in setup.pids : proc[p].st = "free"}
Busy(p) == \E r \in Requests : req[r].st \in Waiting /\ req[r].peer = p /\ kernel[r].waits
IsChild(p) == \E r \in Requests : /\ req[r].child = p
                                  /\ req[r].st \in {"spawned", "running"}

(* The processes as they are once p has gone: its children are orphans.    *)
Without(p, st) ==
    [q \in Pids |->
        CASE q = p -> IF st = "free" THEN Free ELSE [proc[p] EXCEPT !.st = st]
          [] q # p /\ proc[q].st # "free" /\ proc[q].parent = p ->
                [proc[q] EXCEPT !.parent = Super]
          [] OTHER -> proc[q]]

(* A process that descends from launch l has the id q: a request that names *)
(* q, its caller not yet found, now names that process.                     *)
Taken(q, l) ==
    [r \in Requests |->
        [kernel[r] EXCEPT
            !.waits = @ /\ req[r].peer # q,
            !.owners = IF req[r].st \in {"accepted", "walk"} /\ q \in {req[r].peer, req[r].cur}
                       THEN @ \cup {l} ELSE @]]

(* The session root starts a process.                                      *)
ForkSession(q) ==
    /\ q \in Unused
    /\ proc' = [proc EXCEPT ![q] = [Free EXCEPT !.st = "live", !.parent = Root]]
    /\ kernel' = Taken(q, None)
    /\ UNCHANGED <<setup, req, tracked, queued, active>>

(* A process forks; the child may drop the standard output it inherits, as *)
(* a daemon does.                                                          *)
Fork(p, q, out) ==
    /\ proc[p].st = "live" /\ ~Busy(p)
    /\ q \in Unused
    /\ out => proc[p].out
    /\ proc' = [proc EXCEPT ![q] = [proc[p] EXCEPT !.parent = p, !.out = out]]
    /\ kernel' = Taken(q, proc[p].launch)
    /\ UNCHANGED <<setup, req, tracked, queued, active>>

(* The broker's own children stay zombies until their thread waits.        *)
Exit(p) ==
    /\ proc[p].st = "live"
    /\ proc' = Without(p, IF IsChild(p) THEN "zombie" ELSE "free")
    /\ UNCHANGED <<setup, req, tracked, queued, active, kernel>>

-----------------------------------------------------------------------------
(* Accepting a connection.                                                 *)

HandleStream(p, r, k) ==
    /\ proc[p].st = "live" /\ ~Busy(p)
    /\ req[r].st = "idle"
    /\ IF queued >= MaxQueued
       THEN /\ req' = [req EXCEPT ![r].st = "answered", ![r].cmd = k,
                                  ![r].from = proc[p].launch, ![r].answer = "refused"]
            /\ UNCHANGED <<queued, kernel>>
       ELSE /\ req' = [req EXCEPT ![r].st = "accepted", ![r].peer = p, ![r].cmd = k,
                                  ![r].from = proc[p].launch, ![r].cur = p]
            /\ kernel' = [kernel EXCEPT ![r].owners = {proc[p].launch}, ![r].waits = TRUE]
            /\ queued' = queued + 1
    /\ UNCHANGED <<setup, proc, tracked, active>>

(* An error return that no record precedes.                                *)
Fail(r) == req' = [req EXCEPT ![r].st = "closing", ![r].answer = "error"]

(* record_command_policy_audit(..)? before a return: a failed record turns *)
(* the result into an error.                                               *)
Conclude(r, answer) ==
    \/ req' = [req EXCEPT ![r].st = "closing", ![r].answer = answer,
                          ![r].audit = "recorded"]
    \/ req' = [req EXCEPT ![r].st = "closing", ![r].answer = "error",
                          ![r].audit = "failed"]

Authenticate(r) ==
    /\ req[r].st = "accepted"
    /\ \/ req' = [req EXCEPT ![r].st = "walk"]
       \/ Fail(r)
    /\ UNCHANGED <<setup, proc, tracked, queued, active, kernel>>

-----------------------------------------------------------------------------
(* Whose request it is.                                                    *)

(* Bug: an entry is taken at its word, without the pidfd.                  *)
MutantLiveByPid(p) == p \in Pids /\ tracked[p] # None

(* A tracked process is live while its pidfd polls nothing: the entry is of *)
(* this incarnation of the id, and it has not exited.                       *)
live_active_child(p) ==
    /\ p \in Pids
    /\ tracked[p] # None
    /\ proc[p].st = "live"
    /\ req[tracked[p]].st \in {"spawned", "running"} /\ req[tracked[p]].child = p

resolve_severed_command(p) ==
    IF Lineage /\ proc[p].st # "free" /\ proc[p].launch # None
    THEN req[proc[p].launch].cmd
    ELSE None

(* What an iteration finds at cur; a self-invocation counts for the caller *)
(* the running command was launched under.                                 *)
CallerAt(r) ==
    LET l == req[tracked[req[r].cur]] IN
    IF l.cmd = req[r].cmd /\ l.cmd \notin SelfEntry THEN l.caller ELSE l.cmd

Resolved(r, caller, short) ==
    req' = [req EXCEPT ![r].st = "resolved", ![r].caller = caller, ![r].short = short,
                       ![r].cur = None, ![r].steps = 0]

(* The walk ended below the root: the lineage marker, or a denial.         *)
Severed(r) ==
    LET c == resolve_severed_command(req[r].peer) IN
    IF c # None THEN Resolved(r, c, TRUE) ELSE Conclude(r, "error")

(* One iteration of the ancestry walk.                                     *)
Walk(r) ==
    LET cur == req[r].cur
        iterates == req[r].steps < Depth
    IN
    /\ req[r].st = "walk"
    /\ \/ (~iterates \/ cur = Super) /\ Severed(r)
       \/ iterates /\ live_active_child(cur) /\ Resolved(r, CallerAt(r), FALSE)
       \/ iterates /\ cur = Root /\ Resolved(r, Session, FALSE)
       \/ /\ iterates /\ cur \in Pids /\ ~live_active_child(cur)
          /\ IF proc[cur].st = "free"
             THEN Conclude(r, "error")
             ELSE req' = [req EXCEPT ![r].cur = proc[cur].parent, ![r].steps = @ + 1]
    /\ UNCHANGED <<setup, proc, tracked, queued, active, kernel>>

-----------------------------------------------------------------------------
(* What may run.                                                           *)

select_effective_policy(caller, cmd) == <<caller, cmd>> \in Edges

SelectPolicy(r) ==
    /\ req[r].st = "resolved"
    /\ IF select_effective_policy(req[r].caller, req[r].cmd)
       THEN req' = [req EXCEPT ![r].st = "invocation"]
       ELSE Conclude(r, "error")
    /\ UNCHANGED <<setup, proc, tracked, queued, active, kernel>>

(* A lifecycle event is recorded and the request goes on; if the record     *)
(* fails the request does.                                                  *)
Proceed(r, st) ==
    \/ req' = [req EXCEPT ![r].st = st]
    \/ req' = [req EXCEPT ![r].st = "closing", ![r].answer = "error",
                          ![r].audit = "failed"]

(* run_with_timeout: a grant, a denial or the time-out, or the error of a  *)
(* backend, which returns at once.                                         *)
AskApproval(r, st) ==
    \/ Proceed(r, st)
    \/ Conclude(r, "error")
    \/ Fail(r)

(* The rules on the arguments allow, deny or ask.                          *)
InvocationPolicy(r) ==
    /\ req[r].st = "invocation"
    /\ IF req[r].cmd \in Invoked
       THEN AskApproval(r, "act")
       ELSE req' = [req EXCEPT ![r].st = "act"]
    /\ UNCHANGED <<setup, proc, tracked, queued, active, kernel>>

(* The intercept rule: it cannot be resolved, it answers by itself, or its  *)
(* approval or the launch is next.                                         *)
Act(r) ==
    /\ req[r].st = "act"
    /\ \/ Conclude(r, "error")
       \/ Kind[req[r].cmd] = "respond" /\ Conclude(r, "ran")
       \/ /\ Kind[req[r].cmd] # "respond"
          /\ req' = [req EXCEPT ![r].st = IF req[r].cmd \in Gated THEN "gate" ELSE "slot"]
    /\ UNCHANGED <<setup, proc, tracked, queued, active, kernel>>

(* The intercept rule's own approval.                                      *)
Approve(r) ==
    /\ req[r].st = "gate"
    /\ AskApproval(r, "slot")
    /\ UNCHANGED <<setup, proc, tracked, queued, active, kernel>>

TakeSlot(r) ==
    /\ req[r].st = "slot"
    /\ active' = active + 1
    /\ req' = [req EXCEPT ![r].st = IF active >= MaxActive THEN "giveback" ELSE "launch"]
    /\ UNCHANGED <<setup, proc, tracked, queued, kernel>>

GiveBack(r) ==
    /\ req[r].st = "giveback"
    /\ active' = active - 1
    /\ Conclude(r, "error")
    /\ UNCHANGED <<setup, proc, tracked, queued, kernel>>

-----------------------------------------------------------------------------
(* Launching, tracking and waiting.                                        *)

(* The child joins its command's cgroup before it runs anything.           *)
Spawn(r) ==
    /\ req[r].st = "launch"
    /\ \/ /\ req' = [req EXCEPT ![r].st = "failed"]
          /\ UNCHANGED <<proc, kernel>>
       \/ \E q \in Unused :
            /\ proc' = [proc EXCEPT ![q] =
                          [st |-> "live", parent |-> Super, launch |-> r,
                           out |-> Kind[req[r].cmd] # "direct"]]
            /\ req' = [req EXCEPT ![r].st = "spawned", ![r].child = q]
            /\ kernel' = Taken(q, r)
    /\ UNCHANGED <<setup, tracked, queued, active>>

(* track_spawned_child: a child that cannot be tracked is killed.          *)
Track(r) ==
    LET c == req[r].child IN
    /\ req[r].st = "spawned"
    /\ \/ /\ tracked' = [tracked EXCEPT ![c] = r]
          /\ req' = [req EXCEPT ![r].st = "running"]
          /\ UNCHANGED proc
       \/ /\ proc' = Without(c, "free")
          /\ req' = [req EXCEPT ![r].st = "failed", ![r].child = None]
          /\ UNCHANGED tracked
    /\ UNCHANGED <<setup, queued, active, kernel>>

Writers(r) == {p \in Pids : proc[p].st = "live" /\ proc[p].launch = r /\ proc[p].out}

(* A stream passes its limit: relay_limited_output sets the flag, a capture *)
(* stops reading.                                                          *)
Exceed(r) ==
    /\ \/ req[r].st = "running" /\ Kind[req[r].cmd] \in {"limited", "capture"}
       \/ req[r].st \in {"reaped", "join"} /\ Kind[req[r].cmd] = "limited"
    /\ ~req[r].over
    /\ Writers(r) # {}
    /\ req' = [req EXCEPT ![r].over = TRUE]
    /\ UNCHANGED <<setup, proc, tracked, queued, active, kernel>>

(* The wait loop sees the flag and kills the child.                        *)
KillChild(r) ==
    /\ req[r].st = "running" /\ req[r].over /\ Kind[req[r].cmd] = "limited"
    /\ proc[req[r].child].st = "live"
    /\ proc' = Without(req[r].child, "zombie")
    /\ UNCHANGED <<setup, req, tracked, queued, active, kernel>>

(* A capture reads its pipe to the end, or past the limit, before it waits. *)
(* The wait itself fails when the status was collected elsewhere; brokered  *)
(* output then returns before untrack_child, the others after it.          *)
Wait(r) ==
    LET c == req[r].child IN
    /\ req[r].st = "running"
    /\ proc[c].st = "zombie"
    /\ Kind[req[r].cmd] = "capture" => (Writers(r) = {} \/ req[r].over)
    /\ proc' = Without(c, "free")
    /\ \/ /\ req' = [req EXCEPT ![r].st = "reaped"]
          /\ UNCHANGED kernel
       \/ /\ IF Kind[req[r].cmd] = "limited"
             THEN req' = [req EXCEPT ![r].st = "failed", ![r].child = None]
             ELSE req' = [req EXCEPT ![r].st = "reaped"]
          /\ kernel' = [kernel EXCEPT ![r].lost = TRUE]
    /\ UNCHANGED <<setup, tracked, queued, active>>

(* The entry is removed by process id, after the id was given up.          *)
Untrack(r) ==
    /\ req[r].st = "reaped"
    /\ tracked' = [tracked EXCEPT ![req[r].child] = None]
    /\ req' = [req EXCEPT ![r].st = CASE kernel[r].lost -> "failed"
                                     [] ~kernel[r].lost /\ Kind[req[r].cmd] = "limited" -> "join"
                                     [] OTHER -> "ran",
                          ![r].child = None]
    /\ UNCHANGED <<setup, proc, queued, active, kernel>>

(* The relay threads end when nothing holds the pipes any more.            *)
Join(r) ==
    /\ req[r].st = "join"
    /\ Writers(r) = {}
    /\ req' = [req EXCEPT ![r].st = "ran"]
    /\ UNCHANGED <<setup, proc, tracked, queued, active, kernel>>

(* A relay thread cannot read or write, and its error is returned.         *)
RelayFails(r) ==
    /\ req[r].st = "join"
    /\ req' = [req EXCEPT ![r].st = "failed"]
    /\ UNCHANGED <<setup, proc, tracked, queued, active, kernel>>

(* Bug: a launch that failed keeps its slot.                               *)
MutantReleaseRanOnly(r) ==
    /\ req[r].st \in {"ran", "failed"}
    /\ active' = IF req[r].st = "ran" THEN active - 1 ELSE active
    /\ Conclude(r, IF req[r].st = "ran" /\ ~req[r].over THEN "ran" ELSE "error")
    /\ UNCHANGED <<setup, proc, tracked, queued, kernel>>

(* The slot goes back before the outcome is recorded.  Output of a capture *)
(* that the reissue made too long is an error without a record.            *)
Release(r) ==
    /\ req[r].st \in {"ran", "failed"}
    /\ active' = active - 1
    /\ \/ Conclude(r, IF req[r].st = "ran" /\ ~req[r].over THEN "ran" ELSE "error")
       \/ req[r].st = "ran" /\ Kind[req[r].cmd] = "capture" /\ Fail(r)
    /\ UNCHANGED <<setup, proc, tracked, queued, kernel>>

Answer(r) ==
    /\ req[r].st = "closing"
    /\ queued' = queued - 1
    /\ req' = [req EXCEPT ![r].st = "answered", ![r].peer = None, ![r].cur = None,
                          ![r].steps = 0]
    /\ kernel' = [kernel EXCEPT ![r].owners = {}, ![r].waits = FALSE]
    /\ UNCHANGED <<setup, proc, tracked, active>>

Thread(r) ==
    \/ Authenticate(r) \/ Walk(r) \/ SelectPolicy(r) \/ InvocationPolicy(r)
    \/ Act(r) \/ Approve(r)
    \/ TakeSlot(r) \/ GiveBack(r) \/ Spawn(r) \/ Track(r) \/ KillChild(r) \/ Wait(r)
    \/ Untrack(r) \/ Join(r) \/ Release(r) \/ Answer(r)

Processes ==
    \/ \E q \in Pids : ForkSession(q)
    \/ \E p, q \in Pids, out \in BOOLEAN : Fork(p, q, out)
    \/ \E p \in Pids : Exit(p)
    \/ \E p \in Pids, r \in Requests, k \in Commands : HandleStream(p, r, k)
    \/ \E r \in Requests : Exceed(r) \/ RelayFails(r)

Next == Processes \/ \E r \in Requests : Thread(r)

(* The broker's threads run on; what the processes do is theirs, except     *)
(* that a shim that has connected sends its request.                        *)
Spec == Init /\ [][Next]_vars /\ \A r \in Requests : WF_vars(Thread(r))

(* Programs end, unless they wait for a command of their own.              *)
EndingSpec ==
    Spec /\ \A p \in Pids : WF_vars(~Busy(p) /\ Exit(p))

-----------------------------------------------------------------------------
(* Properties.                                                             *)

(* What a request of a process that descends from launch l counts for: the  *)
(* command of that launch or, when the command invokes itself, the caller   *)
(* it was launched under; the session where there is no launch.             *)
CountsFor(r, l) ==
    IF l = None
    THEN req[r].caller = Session
    ELSE \/ req[r].caller = req[l].cmd
         \/ /\ req[r].cmd = req[l].cmd /\ req[l].cmd \notin SelfEntry
            /\ req[r].caller = req[l].caller

(* A request counts for what a process that had one of the ids the walk     *)
(* stood on descends from: without reuse of those ids meanwhile this is the *)
(* process that asked, and a stale entry or a changing ancestry never adds  *)
(* a caller of its own.  resolve_caller_with reads a changing process tree  *)
(* and a table keyed by reused ids.                                         *)
CallerIsSpawner ==
    \A r \in Requests :
        (req[r].caller # None /\ req[r].st # "answered") =>
            \E l \in kernel[r].owners : CountsFor(r, l)

(* A request counts for what its own shim descends from.  It does not: the  *)
(* broker holds the bare id of SO_PEERCRED while it reads the request, and  *)
(* the id may be another process's when the walk starts.                    *)
SenderIsCaller ==
    \A r \in Requests : req[r].caller # None => CountsFor(r, req[r].from)

(* Never more launched commands, running or not yet waited for, than        *)
(* MAX_ACTIVE_TOOL_SANDBOX_CHILDREN, although count and check are separate   *)
(* from the launch and threads count at the same time.                      *)
LaunchedWithinLimit ==
    Cardinality({r \in Requests : req[r].st \in {"spawned", "running"}}) <= MaxActive

(* Once every request is answered nothing is left over: no slot, no place   *)
(* in the queue and no entry of a command that is gone, whichever step of   *)
(* the launch failed, but for a command with brokered output whose status   *)
(* was lost: its wait returns before untrack_child.                         *)
NothingLeftOver ==
    (\A r \in Requests : req[r].st \in {"idle", "answered"})
        => /\ active = 0 /\ queued = 0
           /\ \A p \in Pids : tracked[p] # None =>
                kernel[tracked[p]].lost /\ Kind[req[tracked[p]].cmd] = "limited"

(* A shim that is told the result of its command has that result in the     *)
(* audit log: a failed record is an error to the shim.                      *)
ResultIsRecorded ==
    \A r \in Requests : req[r].answer = "ran" => req[r].audit = "recorded"

(* Every shim gets an answer when programs end: nested commands at the slot *)
(* limit are refused and never wait for each other.                         *)
EveryShimAnswered ==
    \A r \in Requests : (req[r].st = "accepted") ~> (req[r].st = "answered")

(* p is c, or c's descendant through live parents.                         *)
Descends(p, c) ==
    \A S \in SUBSET Pids :
        (c \in S /\ \A q \in Pids : proc[q].parent \in S => q \in S) => p \in S

(* What the comment in resolve_caller_with says: a walk that stops short of *)
(* the root has an ancestor that daemonized, so it does not still descend   *)
(* from the live process of the command that spawned it.                    *)
ShortWalkWasSevered ==
    [][\A r \in Requests :
        (req[r].st = "walk" /\ req'[r].short /\ req[r].steps < Depth) =>
            LET l == req[req[r].from] IN
            ~(/\ l.st \in {"spawned", "running"} /\ proc[l.child].st = "live"
              /\ Descends(req[r].peer, l.child))]_vars

(* What tool-sandbox.mdx says of a command without a self-invocation entry: *)
(* calling itself it keeps the sandbox it runs in.                          *)
SelfInvocationKeepsSandbox ==
    \A r \in Requests :
        (/\ req[r].caller # None /\ req[r].from # None
         /\ req[r].cmd = req[req[r].from].cmd /\ req[r].cmd \notin SelfEntry)
        => req[r].caller = req[req[r].from].caller

(* What tool-sandbox.mdx says: every decision of the broker is an audit     *)
(* event.                                                                   *)
DecisionsRecorded ==
    \A r \in Requests :
        (req[r].st = "answered" /\ req[r].caller # None) => req[r].audit # "none"

(* What tool-sandbox.mdx says of terminate and deny: past the limit the     *)
(* shim gets a denied result.                                               *)
LimitIsAnswered ==
    \A r \in Requests : req[r].over ~> (req[r].st = "answered")
=============================================================================
