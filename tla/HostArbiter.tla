---------------------------- MODULE HostArbiter -----------------------------
(***************************************************************************)
(* What the proxy promises about an unlisted host, without elections,      *)
(* prompts, threads or lookups: for one connection at a time the user is   *)
(* asked, answers for it alone or for the session while the question       *)
(* stands, and a connection reaches its target only on such an answer or   *)
(* on the allowlist.                                                       *)
(***************************************************************************)
CONSTANTS Conns, Keys, Allowlisted, HardDenied

VARIABLES
    target,   \* the target of each connection
    policy,   \* the session's answer per target: "unset", "allow" or "deny"
    asked,    \* connections whose question stands: nobody gave up on it yet
    granted,  \* connections that were let through once
    reached   \* connections that reached their target

vars == <<target, policy, asked, granted, reached>>

Open(k) == k \notin Allowlisted \cup HardDenied /\ policy[k] = "unset"

Init ==
    /\ target \in [Conns -> Keys]
    /\ policy = [k \in Keys |-> "unset"]
    /\ asked = {}
    /\ granted = {}
    /\ reached = {}

\* One question at a time about a target the session has no answer for.
Ask(c) ==
    /\ Open(target[c])
    /\ \A d \in asked : target[d] # target[c]
    /\ asked' = asked \cup {c}
    /\ UNCHANGED <<target, policy, granted, reached>>

\* The question is dropped: denied this once, too late, or nobody waits for it.
GiveUp(c) ==
    /\ c \in asked
    /\ asked' = asked \ {c}
    /\ UNCHANGED <<target, policy, granted, reached>>

\* The answer for the session is given once per target.
AnswerForSession(c) ==
    /\ c \in asked
    /\ Open(target[c])
    /\ \E a \in {"allow", "deny"} : policy' = [policy EXCEPT ![target[c]] = a]
    /\ asked' = asked \ {c}
    /\ UNCHANGED <<target, granted, reached>>

\* A single-use answer, for one connection, while the session has none.
AnswerOnce(c) ==
    /\ c \in asked \ granted
    /\ Open(target[c])
    /\ granted' = granted \cup {c}
    /\ asked' = asked \ {c}
    /\ UNCHANGED <<target, policy, reached>>

Reach(c) ==
    /\ c \notin reached
    /\ \/ target[c] \in Allowlisted
       \/ policy[target[c]] = "allow"
       \/ c \in granted
    /\ reached' = reached \cup {c}
    /\ UNCHANGED <<target, policy, asked, granted>>

Next ==
    \E c \in Conns :
        Ask(c) \/ GiveUp(c) \/ AnswerForSession(c) \/ AnswerOnce(c) \/ Reach(c)

Spec == Init /\ [][Next]_vars
=============================================================================
