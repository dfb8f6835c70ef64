----------------------------- MODULE PinnedPool -----------------------------
(***************************************************************************)
(* The upstream pool of the reverse proxy (nono-proxy/src/pool.rs) and the *)
(* host check that feeds it.  A handler checks its host, pins the checked  *)
(* addresses in a map shared by all requests and keyed by host name, and   *)
(* sends; the client library connects later, with what the map holds then, *)
(* or reuses an idle connection.                                           *)
(***************************************************************************)
EXTENDS Integers, FiniteSets

CONSTANTS
    Requests,
    Target,      \* request -> [host, scheme, port, tls]: its route's upstream
    Addrs,       \* the addresses a name may resolve to
    Denied,      \* those the filter refuses (link-local, metadata)
    Loopback

AddressClasses == Denied \subseteq Addrs /\ Loopback \subseteq Addrs

VARIABLES
    pc,        \* of a request
    checked,   \* the endpoints its own check_host returned
    pins,      \* host -> the endpoints pinned last; absent before the first pin
    idle,      \* connections kept for reuse
    conn       \* the connection a request uses, and whether it was opened for it

vars == <<pc, checked, pins, idle, conn>>

Hosts == {Target[r].host : r \in Requests}
Endpoint == [addr : Addrs, port : {Target[r].port : r \in Requests}]
NoConn == [none |-> TRUE]

DefaultPort(scheme) == IF scheme = "https" THEN 443 ELSE 80

\* format_host_header: the authority of the request's URI; 0 stands for no port.
Authority(t) == [host |-> t.host, port |-> IF t.port = DefaultPort(t.scheme) THEN 0 ELSE t.port]

Init ==
    /\ pc = [r \in Requests |-> "new"]
    /\ checked = [r \in Requests |-> {}]
    /\ pins = [h \in {} |-> {}]
    /\ idle = {}
    /\ conn = [r \in Requests |-> NoConn]

\* A mutant: one acceptable address is enough.
AllowedByFirst(answer) == answer = {} \/ answer \ Denied # {}

\* check_host: every resolved address is looked at; a failed lookup gives none.
Allowed(answer) == answer \intersect Denied = {}

\* validate_http_upstream_target and is_local_only_target.
LocalOnly(answer) == answer # {} /\ answer \subseteq Loopback

Check(r) ==
    /\ pc[r] = "new"
    /\ \E answer \in SUBSET Addrs :
          IF Allowed(answer) /\ (Target[r].scheme = "http" => LocalOnly(answer))
            THEN /\ checked' = [checked EXCEPT
                                  ![r] = {[addr |-> a, port |-> Target[r].port] : a \in answer}]
                 /\ pc' = [pc EXCEPT ![r] = "checked"]
            ELSE /\ pc' = [pc EXCEPT ![r] = "refused"]
                 /\ UNCHANGED checked
    /\ UNCHANGED <<pins, idle, conn>>

\* pin_host, after the body has been read: the last writer wins.
Pin(r) ==
    /\ pc[r] = "checked"
    /\ pins' = [h \in DOMAIN pins \union {Target[r].host} |->
                  IF h = Target[r].host THEN checked[r] ELSE pins[h]]
    /\ pc' = [pc EXCEPT ![r] = "pinned"]
    /\ UNCHANGED <<checked, idle, conn>>

\* client_for: one client, with a pool of its own, per TLS configuration.
client_for(r) == Target[r].tls

\* The pool key of the client library: client, scheme and authority.
Key(r) == [client |-> client_for(r), scheme |-> Target[r].scheme, authority |-> Authority(Target[r])]

\* The connector takes the resolved port unless the URI names one.
Dial(r, e) == [e EXCEPT !.port = IF Authority(Target[r]).port = 0 THEN @ ELSE Target[r].port]

\* A connection is opened to a pinned endpoint.
Connect(r) ==
    /\ pc[r] = "pinned"
    /\ \E e \in pins[Target[r].host] :
          conn' = [conn EXCEPT ![r] =
                     [key |-> Key(r), to |-> Dial(r, e), tls |-> Target[r].tls, fresh |-> TRUE]]
    /\ pc' = [pc EXCEPT ![r] = "sent"]
    /\ UNCHANGED <<checked, pins, idle>>

\* No endpoint is pinned, or none of them accepts: 502.
CannotConnect(r) ==
    /\ pc[r] = "pinned"
    /\ pc' = [pc EXCEPT ![r] = "failed"]
    /\ UNCHANGED <<checked, pins, idle, conn>>

Reuse(r) ==
    /\ pc[r] = "pinned"
    /\ \E c \in idle :
          /\ c.key = Key(r)
          /\ conn' = [conn EXCEPT ![r] = c]
          /\ idle' = idle \ {c}
    /\ pc' = [pc EXCEPT ![r] = "sent"]
    /\ UNCHANGED <<checked, pins>>

\* The exchange ends; the connection is kept or closed.
Finish(r) ==
    /\ pc[r] = "sent"
    /\ pc' = [pc EXCEPT ![r] = "done"]
    /\ idle' \in {idle, idle \union {[conn[r] EXCEPT !.fresh = FALSE]}}
    /\ UNCHANGED <<checked, pins, conn>>

\* pool_idle_timeout, or the upstream closes.
IdleExpires ==
    /\ \E c \in idle : idle' = idle \ {c}
    /\ UNCHANGED <<pc, checked, pins, conn>>

Done ==
    /\ \A r \in Requests : pc[r] \in {"done", "failed", "refused"}
    /\ UNCHANGED vars

Next ==
    \/ \E r \in Requests :
          Check(r) \/ Pin(r) \/ Connect(r) \/ CannotConnect(r) \/ Reuse(r) \/ Finish(r)
    \/ IdleExpires
    \/ Done

\* The handler's tasks run and the kernel gives up on a connect that gets no
\* answer; the upstream may take its time.
Fairness ==
    \A r \in Requests :
        WF_vars(Check(r)) /\ WF_vars(Pin(r))
          /\ WF_vars(Connect(r) \/ CannotConnect(r) \/ Reuse(r))

Spec == Init /\ [][Next]_vars /\ Fairness

-----------------------------------------------------------------------------
Connection == [key : {Key(r) : r \in Requests}, to : Endpoint,
               tls : {Target[r].tls : r \in Requests}, fresh : BOOLEAN]

TypeOK ==
    /\ pc \in [Requests -> {"new", "refused", "checked", "pinned", "sent", "done", "failed"}]
    /\ checked \in [Requests -> SUBSET Endpoint]
    /\ DOMAIN pins \subseteq Hosts
    /\ \A h \in DOMAIN pins : pins[h] \subseteq Endpoint
    /\ idle \subseteq {c \in Connection : ~c.fresh}
    /\ \A r \in Requests : conn[r] \in Connection \union {NoConn}

\* No request ever runs on a connection to an address the filter denies, whoever
\* pinned it and however long ago the connection was opened.
NeverToDenied == \A r \in Requests : conn[r] # NoConn => conn[r].to.addr \notin Denied

\* pool.rs:9-11, routes with different TLS configurations "never share
\* connections": a connection verified against one route's roots carries no
\* request of another's.
TlsIsolated == \A r \in Requests : conn[r] # NoConn => conn[r].tls = Target[r].tls

\* A request that passed its check is sent or fails, also when another request
\* has pinned its host to nothing.
SentOrFailed ==
    \A r \in Requests : pc[r] = "checked" ~> pc[r] \in {"sent", "done", "failed"}

\* pool.rs:14-17, "returns pre-validated addresses from `check_host()`": a
\* connection opened for a request goes to an endpoint its own check returned.
ConnectsToOwnCheck ==
    \A r \in Requests : conn[r] # NoConn => (conn[r].fresh => conn[r].to \in checked[r])
=============================================================================
