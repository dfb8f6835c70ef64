------------------------------ MODULE PtyAttach ------------------------------
(***************************************************************************)
(* The terminal of a session and the clients that come and go              *)
(* (pty_proxy.rs, with the loop of exec_strategy.rs that drives it).  One  *)
(* supervisor thread relays the child's output to the attached client,     *)
(* keeps the last of it for replay, serves the attach socket and tears the *)
(* proxy down when the child has exited.  Clients are separate processes:  *)
(* nono attach, which waits for an acknowledgement and then reads the      *)
(* replay and the live output, nono detach, and the terminal the session   *)
(* was started on.  Any of them may leave, or stop reading.                *)
(*                                                                         *)
(* Output is a sequence of chunks numbered from 1.  The socket between     *)
(* supervisor and client holds at most Room chunks.                        *)
(***************************************************************************)
EXTENDS Integers, Sequences, SequencesExt

CONSTANTS
    Attachers,      \* nono attach processes
    Detachers,      \* nono detach processes
    Terminal,       \* the terminal of an attached start
    Chunks,         \* how many chunks the child writes at most
    Scrollback,     \* how many chunks are kept for replay
    Room,           \* how many chunks a client's socket holds
    None            \* no client

AttachAssumption ==
    /\ Chunks \in Nat /\ Scrollback \in Nat \ {0} /\ Room \in Nat \ {0}
    /\ Attachers \cap Detachers = {} /\ None \notin Attachers \cup Detachers \cup {Terminal}

Clients == Attachers \cup Detachers \cup {Terminal}
Viewers == Attachers \cup {Terminal}

VARIABLES
    sup,        \* what the supervisor is at: see Sup
    slot,       \* PtyProxy::client
    written,    \* chunks the child has written
    relayed,    \* chunks read from the PTY master
    scroll,     \* first chunk still in the scrollback
    exited,     \* the child has exited
    path,       \* the attach socket is in the file system
    queue,      \* connections nobody has accepted yet
    serving,    \* the accepted connection being served
    replay,     \* chunks of the replay still to be written
    conn,       \* conn[c]: a client's side of its connection
    stalled     \* clients that are not reading (stopped, or their output is)

vars == <<sup, slot, written, relayed, scroll, exited, path, queue, serving, replay, conn, stalled>>

Sup == {"poll", "write", "request", "fd", "replay", "unlinked", "gone"}

NoConn == [pc |-> "idle", sock |-> "none", sent |-> FALSE, ack |-> "none",
           buf |-> <<>>, seen |-> <<>>, retried |-> FALSE]

Init ==
    /\ sup = "poll" /\ serving = None /\ replay = <<>>
    /\ written = 0 /\ relayed = 0 /\ scroll = 1
    /\ exited = FALSE /\ path = TRUE /\ queue = <<>>
    /\ slot \in {None, Terminal}        \* attach_initial_client
    /\ conn = [c \in Clients |->
                IF c = slot THEN [NoConn EXCEPT !.pc = "ready", !.sock = "open"] ELSE NoConn]
    /\ stalled = {}

-----------------------------------------------------------------------------
(* The supervisor *)

(* PtyProxy::detach: the socket is closed, what it holds can still be read *)
Closed(c) == [conn EXCEPT ![c].sock = IF @ = "open" THEN "shut" ELSE @]

Detached == IF slot = None THEN conn ELSE Closed(slot)

(* record_output, then write_all_fd to the client *)
RelayOutput ==
    /\ sup = "poll" /\ relayed < written
    /\ relayed' = relayed + 1
    /\ scroll' = IF relayed' - scroll + 1 > Scrollback THEN scroll + 1 ELSE scroll
    /\ sup' = IF slot = None THEN "poll" ELSE "write"
    /\ UNCHANGED <<slot, written, exited, path, queue, serving, replay, conn, stalled>>

(* The write waits for room as long as it takes; only a closed peer ends it *)
WriteOutput ==
    /\ sup = "write"
    /\ \/ /\ conn[slot].sock = "left"
          /\ slot' = None
          /\ UNCHANGED conn
       \/ /\ conn[slot].sock = "open" /\ Len(conn[slot].buf) < Room
          /\ conn' = [conn EXCEPT ![slot].buf = Append(@, relayed)]
          /\ UNCHANGED slot
    /\ sup' = "poll"
    /\ UNCHANGED <<written, relayed, scroll, exited, path, queue, serving, replay, stalled>>

(* proxy_client_to_master reads the end of the client's input *)
SeeClientLeave ==
    /\ sup = "poll" /\ slot # None
    /\ conn[slot].sock = "left"
    /\ slot' = None
    /\ UNCHANGED <<sup, written, relayed, scroll, exited, path, queue, serving, replay, conn, stalled>>

(* The user types the detach sequence, or SIGUSR1 asks for a detach *)
DetachRequested ==
    /\ sup = "poll" /\ slot # None
    /\ conn' = Detached
    /\ slot' = None
    /\ UNCHANGED <<sup, written, relayed, scroll, exited, path, queue, serving, replay, stalled>>

(* try_accept, as far as its first read *)
Accept ==
    /\ sup = "poll" /\ queue # <<>>
    /\ serving' = Head(queue) /\ queue' = Tail(queue)
    /\ sup' = "request"
    /\ conn' = [conn EXCEPT ![Head(queue)].sock = IF @ = "queued" THEN "open" ELSE @]
    /\ UNCHANGED <<slot, written, relayed, scroll, exited, path, replay, stalled>>

Answer(ack) ==
    /\ conn' = [Closed(serving) EXCEPT ![serving].ack = ack]
    /\ serving' = None /\ sup' = "poll"
    /\ UNCHANGED <<slot, replay>>

(* No request within the read timeout, or the peer left without one *)
NoRequest ==
    /\ sup = "request" /\ ~conn[serving].sent
    /\ Answer("DENIED")
    /\ UNCHANGED <<written, relayed, scroll, exited, path, queue, stalled>>

Busy ==
    /\ sup = "request" /\ conn[serving].sent /\ serving \in Attachers /\ slot # None
    /\ Answer("BUSY")
    /\ UNCHANGED <<written, relayed, scroll, exited, path, queue, stalled>>

(* ATTACH_REQUEST_DETACH: whoever holds the slot is dropped *)
ServeDetach ==
    /\ sup = "request" /\ conn[serving].sent /\ serving \in Detachers
    /\ slot' = None
    /\ conn' = LET after == Detached
               IN [after EXCEPT ![serving].ack = "OK",
                                ![serving].sock = IF @ = "open" THEN "shut" ELSE @]
    /\ serving' = None /\ sup' = "poll"
    /\ UNCHANGED <<written, relayed, scroll, exited, path, queue, replay, stalled>>

(* The acknowledgement goes out before the resize channel and the replay *)
Acknowledge ==
    /\ sup = "request" /\ conn[serving].sent /\ serving \in Attachers /\ slot = None
    /\ conn' = [conn EXCEPT ![serving].ack = "OK"]
    /\ sup' = "fd"
    /\ UNCHANGED <<slot, written, relayed, scroll, exited, path, queue, serving, replay, stalled>>

SendResizeFd ==
    /\ sup = "fd"
    /\ IF conn[serving].sock = "left"
       THEN sup' = "poll" /\ serving' = None /\ UNCHANGED replay
       ELSE /\ sup' = "replay"
            /\ replay' = [i \in 1..(relayed - scroll + 1) |-> scroll + i - 1]
            /\ UNCHANGED serving
    /\ UNCHANGED <<slot, written, relayed, scroll, exited, path, queue, conn, stalled>>

(* The socket is made nonblocking first, and a full one ends the replay *)
MutantWriteReplayNonblocking ==
    /\ sup = "replay" /\ replay # <<>>
    /\ IF conn[serving].sock = "open" /\ Len(conn[serving].buf) < Room
       THEN /\ conn' = [conn EXCEPT ![serving].buf = Append(@, Head(replay))]
            /\ replay' = Tail(replay)
       ELSE replay' = <<>> /\ UNCHANGED conn
    /\ UNCHANGED <<sup, slot, written, relayed, scroll, exited, path, queue, serving, stalled>>

(* The replay is written to a blocking socket; a failure only ends it *)
WriteReplay ==
    /\ sup = "replay" /\ replay # <<>>
    /\ \/ /\ conn[serving].sock = "left"
          /\ replay' = <<>>
          /\ UNCHANGED conn
       \/ /\ conn[serving].sock = "open" /\ Len(conn[serving].buf) < Room
          /\ conn' = [conn EXCEPT ![serving].buf = Append(@, Head(replay))]
          /\ replay' = Tail(replay)
    /\ UNCHANGED <<sup, slot, written, relayed, scroll, exited, path, queue, serving, stalled>>

TakeSlot ==
    /\ sup = "replay" /\ replay = <<>>
    /\ slot' = serving
    /\ serving' = None /\ sup' = "poll"
    /\ UNCHANGED <<written, relayed, scroll, exited, path, queue, replay, conn, stalled>>

(* The child has exited: drain its output, remove the socket, let go of the *)
(* terminal; the proxy is dropped once the session has been finalized.      *)
ShutdownListener ==
    /\ sup = "poll" /\ exited /\ relayed = written
    /\ path' = FALSE
    /\ IF slot = Terminal
       THEN slot' = None /\ conn' = Closed(Terminal)
       ELSE UNCHANGED <<slot, conn>>
    /\ sup' = "unlinked"
    /\ UNCHANGED <<written, relayed, scroll, exited, queue, serving, replay, stalled>>

DropProxy ==
    /\ sup = "unlinked"
    /\ sup' = "gone" /\ slot' = None /\ queue' = <<>>
    /\ conn' = [c \in Clients |->
                 [conn[c] EXCEPT !.sock = IF @ \in {"open", "queued"} THEN "shut" ELSE @]]
    /\ UNCHANGED <<written, relayed, scroll, exited, path, serving, replay, stalled>>

SupervisorStep ==
    \/ RelayOutput \/ WriteOutput \/ SeeClientLeave
    \/ Accept \/ NoRequest \/ Busy \/ ServeDetach
    \/ Acknowledge \/ SendResizeFd \/ WriteReplay \/ TakeSlot
    \/ ShutdownListener \/ DropProxy

-----------------------------------------------------------------------------
(* The child *)

Write ==
    /\ ~exited /\ written < Chunks
    /\ written' = written + 1
    /\ UNCHANGED <<sup, slot, relayed, scroll, exited, path, queue, serving, replay, conn, stalled>>

ChildExits ==
    /\ ~exited
    /\ exited' = TRUE
    /\ UNCHANGED <<sup, slot, written, relayed, scroll, path, queue, serving, replay, conn, stalled>>

-----------------------------------------------------------------------------
(* The clients *)

SupSame == UNCHANGED <<sup, slot, written, relayed, scroll, exited, path, serving, replay>>

Runs(c, pc) == conn[c].pc = pc /\ c \notin stalled

(* connect_to_session; nono attach tries a second time when it is gone *)
Connect(c) ==
    /\ Runs(c, "idle") /\ c # Terminal
    /\ IF path
       THEN /\ conn' = [conn EXCEPT ![c].pc = "connected", ![c].sock = "queued"]
            /\ queue' = Append(queue, c)
       ELSE /\ conn' = [conn EXCEPT ![c].pc = IF c \in Attachers /\ ~conn[c].retried
                                              THEN "idle" ELSE "gone",
                                    ![c].retried = TRUE]
            /\ UNCHANGED queue
    /\ UNCHANGED stalled /\ SupSame

SendRequest(c) ==
    /\ Runs(c, "connected")
    /\ conn' = IF conn[c].sock = "shut"
               THEN [conn EXCEPT ![c].pc = "gone"]
               ELSE [conn EXCEPT ![c].pc = "wait", ![c].sent = TRUE]
    /\ UNCHANGED <<queue, stalled>> /\ SupSame

Outcome(c) ==
    CASE conn[c].ack = "OK" -> IF c \in Attachers THEN "ready" ELSE "ended"
      [] conn[c].ack = "BUSY" -> "busy"
      [] conn[c].ack = "DENIED" -> "failed"
      [] conn[c].ack = "none" -> IF c \in Attachers THEN "gone" ELSE "failed"

(* wait_for_attach_ready and wait_for_detach_ready *)
ReadAck(c) ==
    /\ Runs(c, "wait")
    /\ conn[c].ack # "none" \/ conn[c].sock = "shut"
    /\ conn' = [conn EXCEPT ![c].pc = Outcome(c)]
    /\ UNCHANGED <<queue, stalled>> /\ SupSame

AckTimeout(c) ==
    /\ Runs(c, "wait") /\ conn[c].ack = "none" /\ conn[c].sock # "shut"
    /\ conn' = [conn EXCEPT ![c].pc = "failed", ![c].sock = "left"]
    /\ UNCHANGED <<queue, stalled>> /\ SupSame

(* run_attach_loop *)
ReadOutput(c) ==
    /\ Runs(c, "ready") /\ conn[c].buf # <<>>
    /\ conn' = [conn EXCEPT ![c].buf = Tail(@), ![c].seen = Append(@, Head(conn[c].buf))]
    /\ UNCHANGED <<queue, stalled>> /\ SupSame

SeeClosed(c) ==
    /\ Runs(c, "ready") /\ conn[c].buf = <<>> /\ conn[c].sock = "shut"
    /\ conn' = [conn EXCEPT ![c].pc = "ended", ![c].seen = <<>>]
    /\ UNCHANGED <<queue, stalled>> /\ SupSame

(* End of the client's input, or its death; nobody sees its output any more *)
Leave(c) ==
    /\ conn[c].pc = "ready" /\ conn[c].sock = "open"
    /\ conn' = [conn EXCEPT ![c].pc = "ended", ![c].sock = "left",
                           ![c].buf = <<>>, ![c].seen = <<>>]
    /\ stalled' = stalled \ {c}
    /\ UNCHANGED queue /\ SupSame

Stall(c) ==
    /\ conn[c].pc = "ready" /\ c \notin stalled
    /\ stalled' = stalled \cup {c}
    /\ UNCHANGED <<queue, conn>> /\ SupSame

Resume(c) ==
    /\ c \in stalled
    /\ stalled' = stalled \ {c}
    /\ UNCHANGED <<queue, conn>> /\ SupSame

ClientStep(c) == SendRequest(c) \/ ReadAck(c) \/ AckTimeout(c) \/ ReadOutput(c) \/ SeeClosed(c)

Next ==
    \/ SupervisorStep \/ DetachRequested \/ Write \/ ChildExits
    \/ \E c \in Clients : Connect(c) \/ ClientStep(c) \/ Leave(c) \/ Stall(c) \/ Resume(c)

(* The supervisor's thread runs, and so does every client that is not       *)
(* stalled for good.  Users are free: nobody has to connect, leave or type. *)
Fairness ==
    /\ WF_vars(SupervisorStep)
    /\ \A c \in Clients : SF_vars(ClientStep(c))

StallingSpec == Init /\ [][Next]_vars /\ Fairness

(* ... and, in addition, a client that is stalled resumes *)
Spec == StallingSpec /\ \A c \in Clients : WF_vars(Resume(c))

-----------------------------------------------------------------------------
(* The shape of the state *)
TypeOK ==
    /\ sup \in Sup /\ slot \in Viewers \cup {None} /\ serving \in Clients \cup {None}
    /\ written \in 0..Chunks /\ relayed \in 0..written /\ scroll \in 1..(Chunks + 1)
    /\ exited \in BOOLEAN /\ path \in BOOLEAN
    /\ queue \in Seq(Clients) /\ replay \in Seq(1..Chunks)
    /\ conn \in [Clients ->
                  [pc : {"idle", "connected", "wait", "ready", "busy", "failed", "gone", "ended"},
                   sock : {"none", "queued", "open", "shut", "left"},
                   sent : BOOLEAN, ack : {"none", "OK", "BUSY", "DENIED"},
                   buf : Seq(1..Chunks), seen : Seq(1..Chunks), retried : BOOLEAN]]
    /\ stalled \subseteq Clients

Received(c) == conn[c].seen \o conn[c].buf

(* What a client is given is one unbroken stretch of the session's output,  *)
(* each chunk once and in order, across the seam between replay and live    *)
(* relay; and the client in the slot, between writes, has been given        *)
(* everything the supervisor has read since the start of its stretch.       *)
UnbrokenOutput ==
    \A c \in Viewers :
        LET got == Received(c)
        IN /\ \A i \in 1..(Len(got) - 1) : got[i + 1] = got[i] + 1
           /\ c = slot /\ sup # "write" /\ conn[c].sock = "open" =>
                  IF got = <<>> THEN relayed = 0 ELSE Last(got) = relayed

(* A client that waits for its answer, or believes it is attached while     *)
(* its connection is open, is somebody the supervisor still knows of: it is *)
(* queued, being served, or holds the slot.  Nobody is left hanging on an   *)
(* open connection that no step of the supervisor will ever touch again.    *)
NobodyForgotten ==
    \A c \in Clients :
        /\ conn[c].sock = "queued" => c \in ToSet(queue)
        /\ conn[c].sock = "open" => c \in {serving, slot}

(* A client that leaves frees the slot, whatever the child is doing *)
AbandonedSlotFreed ==
    \A c \in Viewers : slot = c /\ conn[c].sock = "left" ~> slot # c

(* The child's exit ends the session and every connection to it: the        *)
(* output is drained, and no client is left waiting or attached.            *)
ExitEndsEveryone ==
    exited ~> /\ sup = "gone" /\ relayed = written
              /\ \A c \in Clients : conn[c].pc \notin {"connected", "wait", "ready"}

(* docs/cli/features/session-lifecycle.mdx: nono detach drops the current   *)
(* terminal attachment.  A detach request that was sent is carried out,     *)
(* even when its sender has given up waiting, unless the session ends.      *)
DetachServed ==
    \A c \in Detachers : conn[c].sent ~> conn[c].ack = "OK" \/ exited
=============================================================================
