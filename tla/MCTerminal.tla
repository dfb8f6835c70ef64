------------------------------ MODULE MCTerminal ------------------------------
(***************************************************************************)
(* The threads around a supervised session side by side: those between it   *)
(* and the person at its terminal, and the registry that keeps the orphan   *)
(* reaper away from the supervisor's own children.  moving says which of    *)
(* them takes steps, the others keep an initial state.                      *)
(***************************************************************************)
EXTENDS OwnedChildren, SessionThreads

VARIABLES moving

children == vars
gate == <<gate_owner, pending, paused, worker, relay, termios, prompting, own_prompts>>
pty == <<sup, slot, written, relayed, scroll, exited, path, queue, serving, replay, conn, stalled>>
keys == <<at_terminal, matched, forwarded, requests, held, typed, since, streak, events>>
approvals ==
    <<mode, chain, asker, asked, session, deadline, own, hop, reply, result, tty_lock, screen, said>>

\* A sequence whose first key repeats.
DetachSequence == <<"^]", "^]", "d">>

\* The terminal and then the platform, or a webhook and then the terminal.
TwoChains == {<<"terminal", "platform">>, <<"unsigned", "terminal">>}

\* Half seconds: a second for the terminal and the webhook, a second and a half
\* for the platform.
Timeouts == [terminal |-> 2, unsigned |-> 2, platform |-> 3]

ASSUME InstancesConfigured ==
    /\ ChildrenConstants
    /\ Gate!GateConstants /\ Pty!AttachAssumption /\ Keyboard!KeysAssumption
    /\ Approvals!ChainConfigured

\* Where a part has several initial states it rests in the one named here.
TerminalInit ==
    /\ moving \in {"children", "gate", "pty", "keys", "approvals"}
    /\ Init
    /\ Gate!Init
    /\ Pty!Init /\ (moving = "pty" \/ slot = NoClient)
    /\ Keyboard!Init /\ (moving = "keys" \/ ~at_terminal)
    /\ Approvals!Init
    /\ \/ moving = "approvals"
       \/ /\ mode = "all" /\ chain = <<"terminal", "platform">>
          /\ deadline = [c \in Callers |-> NoDeadline]

ChildrenMove == moving = "children" /\ Next /\ UNCHANGED <<moving, gate, pty, keys, approvals>>
GateMoves == moving = "gate" /\ Gate!Next /\ UNCHANGED <<moving, children, pty, keys, approvals>>
PtyMoves == moving = "pty" /\ Pty!Next /\ UNCHANGED <<moving, children, gate, keys, approvals>>
KeysMove == moving = "keys" /\ Keyboard!Next /\ UNCHANGED <<moving, children, gate, pty, approvals>>
ApprovalsMove ==
    moving = "approvals" /\ Approvals!Next /\ UNCHANGED <<moving, children, gate, pty, keys>>

TerminalNext == ChildrenMove \/ GateMoves \/ PtyMoves \/ KeysMove \/ ApprovalsMove

\* The threads that meet at the gate are scheduled.
TerminalSpec ==
    /\ TerminalInit /\ [][TerminalNext]_<<moving, children, gate, pty, keys, approvals>>
    /\ WF_gate(moving = "gate" /\ Gate!SupervisorStep)
    /\ \A w \in Workers : WF_gate(moving = "gate" /\ Gate!WorkerStep(w))
===============================================================================
