--------------------------- MODULE MCHostApproval ---------------------------
(***************************************************************************)
(* Two shapes of a session.  Either three tunnels are opened to one host   *)
(* that is on no list, so that two of them can follow the third; or two    *)
(* connections go to any target by any path, while a third one is refused. *)
(***************************************************************************)
EXTENDS HostApproval

CONSTANTS New, Refused

ThreeTunnels == \A c \in Conns : key[c] = New /\ mode[c] = "connect"
AnyTwo == key[3] = Refused /\ mode[3] = "chained"

MCInit == Init /\ (ThreeTunnels \/ AnyTwo)

MCSpec == MCInit /\ [][Next]_vars /\ Fairness
=============================================================================
