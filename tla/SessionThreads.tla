---------------------------- MODULE SessionThreads ----------------------------
(***************************************************************************)
(* What stands between a supervised session and the person at its terminal: *)
(* the gate that pauses the relay for prompts, the attach socket, the       *)
(* detach keys and the chain of approval backends.  They have no state in   *)
(* common: the module gives each its own constants and variables and names  *)
(* the properties they are explored and proved for.                         *)
(***************************************************************************)
EXTENDS Integers

CONSTANTS
    Workers, MaxOwnPrompts,
    Attachers, Detachers, Terminal, Chunks, Scrollback, Room, NoClient,
    Keys, Suspend, Sequence, Forms, MaxKeys,
    Callers, Chains, Modes, Deadlines, NoDeadline, Timeout, MinHop, SessionScoped, NoCaller

VARIABLES
    gate_owner, pending, paused, worker, relay, termios, prompting, own_prompts,
    sup, slot, written, relayed, scroll, exited, path, queue, serving, replay, conn, stalled,
    at_terminal, matched, forwarded, requests, held, typed, since, streak, events,
    mode, chain, asker, asked, session, deadline, own, hop, reply, result, tty_lock, screen, said

Gate == INSTANCE RelayPromptGate
    WITH owner <- gate_owner, sup <- relay, terminal <- termios, slot <- prompting,
         own <- own_prompts

Pty == INSTANCE PtyAttach WITH None <- NoClient

Keyboard == INSTANCE DetachKeys WITH terminal <- at_terminal, out <- forwarded

Approvals == INSTANCE ApprovalChain
    WITH None <- NoCaller, pc <- asker, i <- asked, lock <- tty_lock

-----------------------------------------------------------------------------
(* A prompt that passed the gate while the relay is registered runs on a    *)
(* cooked terminal, whatever prompts come and go under the pause            *)
(* (relay_prompt_gate.rs).                                                  *)
GatedPromptsOnlyWhilePaused == Gate!GatedPromptsOnlyWhilePaused

(* The supervisor thread never gets stuck holding the pause: it returns to  *)
(* its loop, where it serves everything else (relay_prompt_gate.rs).        *)
PauseEnds == Gate!PauseEnds

(* What a client is given is one unbroken stretch of the session's output,  *)
(* across the seam between replay and live relay (pty_proxy.rs).            *)
UnbrokenOutput == Pty!UnbrokenOutput

(* Every key reaches the session once and in order, except those of         *)
(* completed detach sequences and those held back (pty_proxy.rs, the filter *)
(* of the detach keys).                                                     *)
KeysKept == Keyboard!KeysKept

(* A grant is backed by what the backends of the chain answered, with their *)
(* scope (approval_runtime.rs, request_all and request_any).                *)
GrantIsBacked == Approvals!GrantIsBacked

(* An answer counts as a grant only while the deadlines it runs under have  *)
(* time left (approval_runtime.rs, terminal_approval.rs).                   *)
LateGrantNeverCounts == Approvals!LateGrantNeverCounts
===============================================================================
