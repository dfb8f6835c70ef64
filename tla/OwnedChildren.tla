---------------------------- MODULE OwnedChildren ----------------------------
(***************************************************************************)
(* Who collects which exit status (crates/nono-cli/src/owned_children.rs   *)
(* and reap_reparented_orphans in exec_strategy.rs).  The supervisor is a  *)
(* child subreaper: its loop reaps every terminated child it finds, except *)
(* the ones that another thread spawned through the registry and waits for *)
(* itself.                                                                 *)
(***************************************************************************)
EXTENDS Naturals, FiniteSets

CONSTANTS
    Owners,        \* threads that spawn one child each and wait for it
    Pids, Primary, \* process ids; the sandboxed child's is Primary
    PidReuse,      \* the kernel may give out an id that is still registered
    MaxOrphans     \* bound on the descendants reparented to the supervisor

NoPid == 0
Reaper == "reaper"
Nobody == "nobody"

ChildrenConstants ==
    /\ Pids \subseteq Nat \ {NoPid} /\ Primary \in Pids /\ PidReuse \in BOOLEAN /\ MaxOrphans \in Nat
    /\ Owners \cap {Reaper, Nobody} = {}

VARIABLES
    proc,       \* kernel: state of each process id
    owned,      \* the registry OWNED
    lock,       \* who holds its mutex
    owner,      \* each owner thread: where it is and its child's id
    reaper,     \* the supervisor loop: "loop", "draining", or the pid observed
    status,     \* the primary child's status has reached the supervisor
    orphans     \* bound: orphans so far

vars == <<proc, owned, lock, owner, reaper, status, orphans>>

Init ==
    /\ proc = [p \in Pids |-> IF p = Primary THEN "running" ELSE "none"]
    /\ owned = {}
    /\ lock = Nobody
    /\ owner = [o \in Owners |-> [pc |-> "idle", pid |-> NoPid]]
    /\ reaper = [pc |-> "loop", pid |-> NoPid]
    /\ status = FALSE
    /\ orphans = 0

Free(p) == proc[p] = "none" /\ p # Primary /\ (PidReuse \/ p \notin owned)

-----------------------------------------------------------------------------
(* Kernel *)

Orphan(p) ==
    /\ orphans < MaxOrphans
    /\ Free(p)
    /\ proc' = [proc EXCEPT ![p] = "running"]
    /\ orphans' = orphans + 1
    /\ UNCHANGED <<owned, lock, owner, reaper, status>>

Exit(p) ==
    /\ proc[p] = "running"
    /\ proc' = [proc EXCEPT ![p] = "zombie"]
    /\ UNCHANGED <<owned, lock, owner, reaper, status, orphans>>

-----------------------------------------------------------------------------
(* An owner thread *)

\* Mutant of Spawn: the lock is taken for the insertion only.
SpawnUnlocked(o, p) ==
    /\ owner[o].pc = "idle"
    /\ Free(p)
    /\ proc' = [proc EXCEPT ![p] = "running"]
    /\ owner' = [owner EXCEPT ![o] = [pc |-> "spawned", pid |-> p]]
    /\ UNCHANGED <<owned, lock, reaper, status, orphans>>

\* Under the lock: fork, then register.
Spawn(o, p) ==
    /\ owner[o].pc = "idle"
    /\ lock = Nobody
    /\ Free(p)
    /\ lock' = o
    /\ proc' = [proc EXCEPT ![p] = "running"]
    /\ owner' = [owner EXCEPT ![o] = [pc |-> "spawned", pid |-> p]]
    /\ UNCHANGED <<owned, reaper, status, orphans>>

RegisterPid(o) ==
    /\ owner[o].pc = "spawned"
    /\ owned' = owned \cup {owner[o].pid}
    /\ lock' = IF lock = o THEN Nobody ELSE lock
    /\ owner' = [owner EXCEPT ![o].pc = "waiting"]
    /\ UNCHANGED <<proc, reaper, status, orphans>>

\* Child::wait blocks until the child has exited; ECHILD if it is not ours.
Wait(o) ==
    /\ owner[o].pc = "waiting"
    /\ LET p == owner[o].pid
       IN \/ /\ proc[p] = "zombie"
             /\ proc' = [proc EXCEPT ![p] = "none"]
             /\ owner' = [owner EXCEPT ![o].pc = "waited"]
          \/ /\ proc[p] = "none"
             /\ owner' = [owner EXCEPT ![o].pc = "echild"]
             /\ UNCHANGED proc
    /\ UNCHANGED <<owned, lock, reaper, status, orphans>>

\* The owner gives up: the handle is dropped without a wait.
GiveUp(o) ==
    /\ owner[o].pc = "waiting"
    /\ owner' = [owner EXCEPT ![o].pc = "gave_up"]
    /\ UNCHANGED <<proc, owned, lock, reaper, status, orphans>>

\* Drop of Registration.
Unregister(o) ==
    /\ owner[o].pc \in {"waited", "gave_up", "echild"}
    /\ lock = Nobody
    /\ owned' = owned \ {owner[o].pid}
    /\ owner' = [owner EXCEPT ![o].pc = IF @ = "echild" THEN "failed" ELSE "done"]
    /\ UNCHANGED <<proc, lock, reaper, status, orphans>>

-----------------------------------------------------------------------------
(* reap_reparented_orphans, then waitpid of the primary child *)

BeginDrain ==
    /\ reaper.pc = "loop" /\ ~status
    /\ lock = Nobody
    /\ lock' = Reaper
    /\ reaper' = [pc |-> "draining", pid |-> NoPid]
    /\ UNCHANGED <<proc, owned, owner, status, orphans>>

\* waitid(P_ALL, WNOWAIT): some terminated child, or nothing to reap.  A
\* registered child ends the drain.
Observe(p) ==
    /\ reaper.pc = "draining"
    /\ proc[p] = "zombie"
    /\ IF p # Primary /\ p \in owned
       THEN /\ lock' = Nobody
            /\ reaper' = [pc |-> "wait_primary", pid |-> NoPid]
       ELSE /\ reaper' = [pc |-> "reaping", pid |-> p]
            /\ UNCHANGED lock
    /\ UNCHANGED <<proc, owned, owner, status, orphans>>

ObserveNothing ==
    /\ reaper.pc = "draining"
    /\ \A p \in Pids : proc[p] # "zombie"
    /\ lock' = Nobody
    /\ reaper' = [pc |-> "wait_primary", pid |-> NoPid]
    /\ UNCHANGED <<proc, owned, owner, status, orphans>>

\* waitpid(pid, WNOHANG) of the observed child; the primary's status is kept
\* and ends the drain, a child somebody else has reaped meanwhile ends it too.
Reap ==
    /\ reaper.pc = "reaping"
    /\ LET p == reaper.pid
           reaped == proc[p] = "zombie"
       IN /\ proc' = IF reaped THEN [proc EXCEPT ![p] = "none"] ELSE proc
          /\ status' = (status \/ (reaped /\ p = Primary))
          /\ IF reaped /\ p # Primary
             THEN /\ reaper' = [pc |-> "draining", pid |-> NoPid]
                  /\ UNCHANGED lock
             ELSE /\ lock' = Nobody
                  /\ reaper' = [pc |-> IF reaped THEN "ended" ELSE "wait_primary",
                                pid |-> NoPid]
    /\ UNCHANGED <<owned, owner, orphans>>

\* The loop's own waitpid(child, WNOHANG).
WaitPrimary ==
    /\ reaper.pc = "wait_primary"
    /\ IF proc[Primary] = "zombie"
       THEN /\ proc' = [proc EXCEPT ![Primary] = "none"]
            /\ status' = TRUE
            /\ reaper' = [pc |-> "ended", pid |-> NoPid]
       ELSE /\ reaper' = [pc |-> "loop", pid |-> NoPid]
            /\ UNCHANGED <<proc, status>>
    /\ UNCHANGED <<owned, lock, owner, orphans>>

-----------------------------------------------------------------------------
OwnerStep(o) == RegisterPid(o) \/ Wait(o) \/ Unregister(o)
ReaperStep == BeginDrain \/ ObserveNothing \/ Reap \/ WaitPrimary
                  \/ \E p \in Pids : Observe(p)

Next ==
    \/ \E p \in Pids : Orphan(p) \/ Exit(p)
    \/ \E o \in Owners : OwnerStep(o) \/ GiveUp(o) \/ (\E p \in Pids : Spawn(o, p))
    \/ ReaperStep

Spec == Init /\ [][Next]_vars
FairSpec ==
    /\ Spec
    /\ SF_vars(BeginDrain) /\ WF_vars(ReaperStep)
    /\ \A o \in Owners : WF_vars(RegisterPid(o)) /\ WF_vars(Wait(o)) /\ SF_vars(Unregister(o))

-----------------------------------------------------------------------------
(* Properties *)

\* The variables have their types, and the lock is held by a thread inside it.
TypeOK ==
    /\ proc \in [Pids -> {"none", "running", "zombie"}]
    /\ owned \subseteq Pids
    /\ lock \in Owners \cup {Reaper, Nobody}
    /\ owner \in [Owners -> [pc : {"idle", "spawned", "waiting", "waited", "gave_up",
                                   "echild", "done", "failed"},
                             pid : Pids \cup {NoPid}]]
    /\ reaper \in [pc : {"loop", "draining", "reaping", "wait_primary", "ended"},
                   pid : Pids \cup {NoPid}]
    /\ status \in BOOLEAN /\ orphans \in 0 .. MaxOrphans
    /\ (lock = Reaper) <=> (reaper.pc \in {"draining", "reaping"})

\* A thread that waits for the child it spawned gets the status: the reaper
\* never takes it, at whatever moment the child exits, as long as the kernel
\* gives out no id that is still registered (without PidReuse).
OwnersGetTheirStatus == \A o \in Owners : owner[o].pc \notin {"echild", "failed"}

\* The primary child's status is not dropped by the wildcard wait.
PrimaryStatusKept == proc[Primary] = "none" => status

\* While the supervisor loop runs, no terminated child stays a zombie, also
\* one whose owner gave up.
ZombiesCollected ==
    \A p \in Pids : proc[p] = "zombie" ~> (proc[p] # "zombie" \/ reaper.pc = "ended")
=============================================================================
