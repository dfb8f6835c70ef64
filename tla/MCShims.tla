------------------------------- MODULE MCShims --------------------------------
(***************************************************************************)
(* Mediated commands: their broker, in a session started in one of three    *)
(* ways, and the phantom tokens they are given.  The two have no state in   *)
(* common, so they are explored side by side: moving says which takes       *)
(* steps, the other keeps an initial state.                                 *)
(***************************************************************************)
EXTENDS TokenBroker, Mediation, FiniteSets, TLC

CONSTANTS ka, kb, session, npm

VARIABLES moving

shims == <<setup, proc, req, tracked, queued, active, kernel>>

\* The environment of the session holds the first value of one credential.
InEnvironment == {[name |-> npm, gen |-> 1]}

\* Two commands that the session may call; ka may call kb.
CallEdges == {<<session, ka>>, <<session, kb>>, <<ka, kb>>}

\* The output of kb is captured, with severed processes found by their cgroup;
\* or kb is answered without being launched, with one place in the queue and no
\* cgroups; or kb runs under an output limit.  The first and the last have two
\* process ids, which are the sooner reused.
Pairs == {S \in SUBSET Pids : Cardinality(S) = 2}
Start(kind, lineage, queue, ids) ==
    [kind |-> ka :> "direct" @@ kb :> kind, invoked |-> IF kind = "capture" THEN {ka} ELSE {},
     lineage |-> lineage, queue |-> queue, pids |-> ids]
ThreeSetups ==
    {Start("respond", FALSE, 1, Pids)}
        \cup {Start("capture", TRUE, 2, S) : S \in Pairs}
        \cup {Start("limited", TRUE, 2, S) : S \in Pairs}

ASSUME InstancesConfigured == BrokerConfigured /\ Shims!BrokerAssumption

\* Where a part has several initial states it rests in the one named here.
ShimsInit ==
    /\ moving \in {"shims", "tokens"}
    /\ Init
    /\ Shims!Init /\ (moving = "shims" \/ setup.queue = 1)

ShimsMove == moving = "shims" /\ Shims!Next /\ UNCHANGED <<moving, vars>>
TokensMove == moving = "tokens" /\ Next /\ UNCHANGED <<moving, shims>>

ShimsNext == ShimsMove \/ TokensMove

ShimsSpec == ShimsInit /\ [][ShimsNext]_<<moving, vars, shims>>

\* Process ids are interchangeable, and so are the requests.
Symmetry == Permutations(Pids) \cup Permutations(Requests)
=============================================================================
