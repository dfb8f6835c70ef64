----------------------------- MODULE AcceptLoop -----------------------------
(***************************************************************************)
(* The accept loops of nono-proxy/src/server.rs.  The primary listener and *)
(* the one add_listener attaches for the network-namespace bridge run as   *)
(* tasks of one multi-thread runtime and share active_connections, which a *)
(* loop loads, compares and increments in separate steps.                  *)
(***************************************************************************)
EXTENDS Integers, FiniteSets

CONSTANTS
    Loops,            \* listeners
    Primary,          \* the listener start binds
    Conns,            \* client connections
    max_connections   \* 0 = unlimited

ServerConfigured ==
    /\ IsFiniteSet(Loops) /\ Primary \in Loops
    /\ max_connections \in Nat

VARIABLES
    active,    \* active_connections
    pc,        \* of a loop: "absent", "select", "accepted", "counted", "stopped"
    holds,     \* the connections a loop has accepted and not spawned: none or one
    conn,      \* of a connection, see TypeOK
    at,        \* the listener a connection is addressed to
    shutdown   \* the watch channel's value

vars == <<active, pc, holds, conn, at, shutdown>>

\* start: one loop, and a counter at zero.
Init ==
    /\ active = 0
    /\ pc = [l \in Loops |-> IF l = Primary THEN "select" ELSE "absent"]
    /\ holds = [l \in Loops |-> {}]
    /\ conn = [c \in Conns |-> "outside"]
    /\ at \in [Conns -> Loops]
    /\ shutdown = FALSE

\* add_listener, before the handle is shut down.
AddListener(l) ==
    /\ pc[l] = "absent"
    /\ ~shutdown
    /\ pc' = [pc EXCEPT ![l] = "select"]
    /\ UNCHANGED <<active, holds, conn, at, shutdown>>

\* A client connects; the kernel queues it.
Arrive(c) ==
    /\ conn[c] = "outside"
    /\ pc[at[c]] \notin {"absent", "stopped"}
    /\ conn' = [conn EXCEPT ![c] = "queued"]
    /\ UNCHANGED <<active, pc, holds, at, shutdown>>

Accept(l, c) ==
    /\ pc[l] = "select"
    /\ at[c] = l
    /\ conn[c] = "queued"
    /\ pc' = [pc EXCEPT ![l] = "accepted"]
    /\ holds' = [holds EXCEPT ![l] = {c}]
    /\ conn' = [conn EXCEPT ![c] = "held"]
    /\ UNCHANGED <<active, at, shutdown>>

\* A mutant: the limit is off by one.
atLimitLate == max_connections > 0 /\ active > max_connections

atLimit == max_connections > 0 /\ active >= max_connections

\* The load of the counter: at the limit the connection is dropped.
CheckLimit(l) ==
    /\ pc[l] = "accepted"
    /\ \/ /\ atLimit
          /\ conn' = [c \in Conns |-> IF c \in holds[l] THEN "refused" ELSE conn[c]]
          /\ holds' = [holds EXCEPT ![l] = {}]
          /\ pc' = [pc EXCEPT ![l] = "select"]
       \/ /\ ~atLimit
          /\ pc' = [pc EXCEPT ![l] = "counted"]
          /\ UNCHANGED <<conn, holds>>
    /\ UNCHANGED <<active, at, shutdown>>

\* fetch_add and the spawn of the handler.
Spawn(l) ==
    /\ pc[l] = "counted"
    /\ active' = active + 1
    /\ conn' = [c \in Conns |-> IF c \in holds[l] THEN "running" ELSE conn[c]]
    /\ holds' = [holds EXCEPT ![l] = {}]
    /\ pc' = [pc EXCEPT ![l] = "select"]
    /\ UNCHANGED <<at, shutdown>>

\* handle_connection returns, with or without an error.
HandlerEnds(c) ==
    /\ conn[c] = "running"
    /\ conn' = [conn EXCEPT ![c] = "ended"]
    /\ UNCHANGED <<active, pc, holds, at, shutdown>>

\* fetch_sub.
Release(c) ==
    /\ conn[c] = "ended"
    /\ active' = active - 1
    /\ conn' = [conn EXCEPT ![c] = "closed"]
    /\ UNCHANGED <<pc, holds, at, shutdown>>

\* shutdown, or the handle dropped.
Shutdown ==
    /\ ~shutdown
    /\ shutdown' = TRUE
    /\ UNCHANGED <<active, pc, holds, conn, at>>

\* The watch channel changed: the loop returns and its listener closes, with the
\* connections still queued on it.  The handlers go on.
Stop(l) ==
    /\ pc[l] = "select"
    /\ shutdown
    /\ pc' = [pc EXCEPT ![l] = "stopped"]
    /\ conn' = [c \in Conns |-> IF at[c] = l /\ conn[c] = "queued" THEN "refused"
                                                                   ELSE conn[c]]
    /\ UNCHANGED <<active, holds, at, shutdown>>

Terminated ==
    /\ shutdown
    /\ \A l \in Loops : pc[l] \in {"absent", "stopped"}
    /\ \A c \in Conns : conn[c] \in {"outside", "refused", "closed"}
    /\ UNCHANGED vars

Next ==
    \/ \E l \in Loops : AddListener(l) \/ CheckLimit(l) \/ Spawn(l) \/ Stop(l)
    \/ \E l \in Loops, c \in Conns : Accept(l, c)
    \/ \E c \in Conns : Arrive(c) \/ HandlerEnds(c) \/ Release(c)
    \/ Shutdown
    \/ Terminated

\* The runtime runs the loops and the handlers; select polls both its branches.
\* When a handler ends is up to its client and its upstream.
Fairness ==
    /\ \A l \in Loops :
          /\ WF_vars(CheckLimit(l)) /\ WF_vars(Spawn(l)) /\ SF_vars(Stop(l))
          /\ \A c \in Conns : SF_vars(Accept(l, c))
    /\ \A c \in Conns : WF_vars(Release(c))

Spec == Init /\ [][Next]_vars /\ Fairness

-----------------------------------------------------------------------------
\* The connections that take a slot.
Counted == {c \in Conns : conn[c] \in {"running", "ended"}}

TypeOK ==
    /\ active \in 0 .. Cardinality(Conns)
    /\ pc \in [Loops -> {"absent", "select", "accepted", "counted", "stopped"}]
    /\ holds \in [Loops -> SUBSET Conns]
    /\ conn \in [Conns -> {"outside", "queued", "held", "refused", "running", "ended", "closed"}]
    /\ at \in [Conns -> Loops]
    /\ shutdown \in BOOLEAN

\* No slot is lost or counted twice, whatever the order in which handlers end and
\* loops accept: a lost slot would lower the limit for the rest of the session.
SlotsAccounted == active = Cardinality(Counted)

\* Between the load and the increment of one loop the other may take the last
\* slot: the limit is exceeded by no more than one connection per further loop.
OvershootBounded ==
    max_connections > 0 =>
        Cardinality(Counted) <= max_connections + Cardinality(Loops) - 1

\* A connection that reached the proxy is served or dropped, never left waiting
\* for a slot, and after a shutdown no loop accepts any more.
QueuedIsDecided == \A c \in Conns : conn[c] = "queued" ~> conn[c] \in {"refused", "running"}

\* After the shutdown every loop ends, the attached ones too.
LoopsStop == shutdown ~> \A l \in Loops : pc[l] \in {"absent", "stopped"}

\* config.rs:140, "Maximum concurrent connections", and server.rs:323-325, attached
\* connections "are handled exactly like connections on the primary listener,
\* including session-token authentication and the connection limit".
LimitRespected == max_connections > 0 => Cardinality(Counted) <= max_connections
=============================================================================
