--------------------------- MODULE RelayPromptGate ---------------------------
(***************************************************************************)
(* Terminal prompts and the PTY relay (crates/nono-cli/src/                *)
(* relay_prompt_gate.rs, with its callers in terminal_approval.rs,         *)
(* exec_strategy.rs and pty_proxy.rs).                                     *)
(*                                                                         *)
(* While the relay runs the terminal is raw and its input goes to the      *)
(* child.  Worker threads that must ask the user wait at the gate until    *)
(* the supervisor thread has paused the relay; the supervisor holds the    *)
(* pause until all of them are done.  A region that holds the gate's mutex *)
(* is one step; a thread in a condition wait is "waiting" until notified.  *)
(***************************************************************************)
EXTENDS Naturals, FiniteSets

CONSTANTS
    Workers,          \* proxy worker threads, each with one prompt to run
    MaxOwnPrompts     \* prompts raised on the supervisor thread

GateConstants == IsFiniteSet(Workers) /\ MaxOwnPrompts \in Nat

VARIABLES
    owner,       \* GateState.owner is set
    pending,     \* GateState.pending
    paused,      \* GateState.paused
    worker,      \* where each worker is
    sup,         \* where the supervisor thread is
    terminal,    \* "cooked" or "raw": the mode of the user's terminal
    slot,        \* APPROVAL_PROMPT_LOCK: the threads holding it
    own          \* bound: prompts of the supervisor so far

gate == <<owner, pending, paused>>
vars == <<owner, pending, paused, worker, sup, terminal, slot, own>>

Supervisor == "supervisor"

Init ==
    /\ owner = FALSE /\ pending = 0 /\ paused = FALSE
    /\ worker = [w \in Workers |-> "idle"]
    /\ sup = "forked"
    /\ terminal = "cooked"
    /\ slot = {}
    /\ own = 0

\* changed.notify_all()
NotifyWorkers(f) == [w \in Workers |-> IF f[w] = "waiting" THEN "notified" ELSE f[w]]
NotifySupervisor == IF sup = "holding" THEN "hold_notified" ELSE sup

-----------------------------------------------------------------------------
(* run_paused, on a worker thread *)

\* Not gated: prompt at once.  Gated: count as pending, then wait for the pause.
RunPaused(w) ==
    /\ worker[w] = "idle"
    /\ IF owner
       THEN /\ pending' = pending + 1
            /\ worker' = [worker EXCEPT ![w] = IF paused THEN "asking" ELSE "waiting"]
       ELSE /\ worker' = [worker EXCEPT ![w] = "asking_ungated"]
            /\ UNCHANGED pending
    /\ UNCHANGED <<owner, paused, sup, terminal, slot, own>>

\* Notified, or the deadline has passed: the state is looked at once more
\* before the deadline counts.
WaitUntilPaused(w, deadline) ==
    /\ worker[w] = "notified" \/ (worker[w] = "waiting" /\ deadline)
    /\ worker' = [worker EXCEPT ![w] = IF paused \/ ~owner THEN "asking"
                                       ELSE IF deadline THEN "leaving" ELSE "waiting"]
    /\ UNCHANGED <<gate, sup, terminal, slot, own>>

\* The prompt itself: the slot, then the question; both end by the deadline.
AcquireSlot(w) ==
    /\ worker[w] \in {"asking", "asking_ungated"}
    /\ slot = {}
    /\ slot' = {w}
    /\ worker' = [worker EXCEPT ![w] = IF worker[w] = "asking" THEN "prompting"
                                                               ELSE "prompting_ungated"]
    /\ UNCHANGED <<gate, sup, terminal, own>>

\* Answered or timed out.  A gated prompt still has its count to drop.
PromptEnds(w) ==
    /\ worker[w] \in {"asking", "asking_ungated", "prompting", "prompting_ungated"}
    /\ slot' = slot \ {w}
    /\ worker' = [worker EXCEPT ![w] = IF worker[w] \in {"asking", "prompting"}
                                       THEN "leaving" ELSE "done"]
    /\ UNCHANGED <<gate, sup, terminal, own>>

\* Mutant of DropPending: the supervisor is not notified.
DropPendingQuietly(w) ==
    /\ worker[w] = "leaving"
    /\ pending' = pending - 1
    /\ worker' = [worker EXCEPT ![w] = "done"]
    /\ UNCHANGED <<owner, paused, sup, terminal, slot, own>>

\* Drop of PendingPrompt.
DropPending(w) ==
    /\ worker[w] = "leaving"
    /\ pending' = pending - 1
    /\ worker' = NotifyWorkers([worker EXCEPT ![w] = "done"])
    /\ sup' = NotifySupervisor
    /\ UNCHANGED <<owner, paused, terminal, slot, own>>

-----------------------------------------------------------------------------
(* The supervisor thread *)

\* PtyProxy::new puts the terminal into raw mode, after the fork.
AttachTerminal ==
    /\ sup = "forked"
    /\ terminal' = "raw"
    /\ sup' = "attached"
    /\ UNCHANGED <<gate, worker, slot, own>>

Register ==
    /\ sup = "attached"
    /\ owner' = TRUE /\ paused' = FALSE
    /\ sup' = "loop"
    /\ UNCHANGED <<pending, worker, terminal, slot, own>>

\* One turn of the loop with prompts pending.
Service ==
    /\ sup = "loop"
    /\ pending > 0 /\ ~paused
    /\ sup' = "pausing"
    /\ UNCHANGED <<gate, worker, terminal, slot, own>>

PauseRelay ==
    /\ sup = "pausing"
    /\ terminal' = "cooked"
    /\ sup' = "hold"
    /\ UNCHANGED <<gate, worker, slot, own>>

\* Mutant of HoldPause: a single wait instead of a loop.
HoldPauseOnce ==
    /\ sup \in {"hold", "hold_notified"}
    /\ worker' = IF sup = "hold" THEN NotifyWorkers(worker) ELSE worker
    /\ IF pending > 0 /\ sup = "hold"
       THEN paused' = TRUE /\ sup' = "holding"
       ELSE paused' = FALSE /\ sup' = "resume"
    /\ UNCHANGED <<owner, pending, terminal, slot, own>>

\* hold_pause_until_prompts_finish: entered, or notified.
HoldPause ==
    /\ sup \in {"hold", "hold_notified"}
    /\ worker' = IF sup = "hold" THEN NotifyWorkers(worker) ELSE worker
    /\ IF pending > 0
       THEN paused' = TRUE /\ sup' = "holding"
       ELSE paused' = FALSE /\ sup' = "resume"
    /\ UNCHANGED <<owner, pending, terminal, slot, own>>

ResumeRelay ==
    /\ sup = "resume"
    /\ terminal' = "raw"
    /\ sup' = "loop"
    /\ UNCHANGED <<gate, worker, slot, own>>

\* A prompt raised on the supervisor thread pauses the relay itself.
OwnPrompt ==
    /\ sup = "loop"
    /\ own < MaxOwnPrompts
    /\ own' = own + 1
    /\ terminal' = "cooked"
    /\ sup' = "asking"
    /\ UNCHANGED <<gate, worker, slot>>

OwnAcquireSlot ==
    /\ sup = "asking"
    /\ slot = {}
    /\ slot' = {Supervisor}
    /\ sup' = "prompting"
    /\ UNCHANGED <<gate, worker, terminal, own>>

OwnPromptEnds ==
    /\ sup \in {"asking", "prompting"}
    /\ slot' = slot \ {Supervisor}
    /\ sup' = "resume"
    /\ UNCHANGED <<gate, worker, terminal, own>>

\* The child is gone: the registration is dropped, and the terminal restored
\* after the output has been drained.
Unregister ==
    /\ sup = "loop"
    /\ owner' = FALSE /\ paused' = FALSE
    /\ worker' = NotifyWorkers(worker)
    /\ sup' = "draining"
    /\ UNCHANGED <<pending, terminal, slot, own>>

RestoreTerminal ==
    /\ sup = "draining"
    /\ terminal' = "cooked"
    /\ sup' = "done"
    /\ UNCHANGED <<gate, worker, slot, own>>

Finished ==
    /\ sup = "done" /\ \A w \in Workers : worker[w] \in {"idle", "done"}
    /\ UNCHANGED vars

-----------------------------------------------------------------------------
WorkerStep(w) ==
    \/ \E deadline \in BOOLEAN : WaitUntilPaused(w, deadline)
    \/ AcquireSlot(w) \/ PromptEnds(w) \/ DropPending(w)

\* What the supervisor does without waiting for anybody outside.
SupervisorStep ==
    \/ AttachTerminal \/ Register \/ Service \/ PauseRelay \/ HoldPause
    \/ ResumeRelay \/ OwnAcquireSlot \/ OwnPromptEnds \/ RestoreTerminal

Next ==
    \/ \E w \in Workers : RunPaused(w) \/ WorkerStep(w)
    \/ SupervisorStep \/ OwnPrompt \/ Unregister
    \/ Finished

Spec == Init /\ [][Next]_vars
FairSpec ==
    /\ Spec
    /\ WF_vars(SupervisorStep)
    /\ \A w \in Workers : WF_vars(WorkerStep(w))

-----------------------------------------------------------------------------
(* Properties *)

Counted == {"waiting", "notified", "asking", "prompting", "leaving"}
Prompting == {w \in Workers : worker[w] = "prompting"}

\* The variables have their types.
TypeOK ==
    /\ owner \in BOOLEAN /\ paused \in BOOLEAN
    /\ pending \in Nat
    /\ worker \in [Workers -> Counted \cup {"idle", "asking_ungated",
                                            "prompting_ungated", "done"}]
    /\ sup \in {"forked", "attached", "loop", "pausing", "hold", "holding",
                "hold_notified", "resume", "asking", "prompting", "draining", "done"}
    /\ terminal \in {"cooked", "raw"}
    /\ slot \in SUBSET (Workers \cup {Supervisor})
    /\ own \in 0 .. MaxOwnPrompts

\* While the relay is registered, a prompt that passed the gate runs on a
\* cooked terminal, whatever prompts come and go under the pause.
GatedPromptsOnlyWhilePaused ==
    owner => \A w \in Workers : worker[w] \in {"asking", "prompting"} =>
                 /\ paused /\ terminal = "cooked"
                 /\ sup \in {"holding", "hold_notified"}

\* The count the supervisor waits for is the number of prompts at the gate.
PendingIsCounted == pending = Cardinality({w \in Workers : worker[w] \in Counted})

\* The supervisor thread never gets stuck holding the pause: it returns to its
\* loop, where it serves notifications.
PauseEnds == sup \in {"pausing", "hold", "holding", "hold_notified"} ~> sup = "loop"

\* No prompt is stuck at the gate.
PromptsEnd == \A w \in Workers : worker[w] # "idle" ~> worker[w] = "done"
=============================================================================
