------------------------- MODULE InterceptHandshake -------------------------
(***************************************************************************)
(* An intercepted CONNECT up to the end of its inner TLS handshake         *)
(* (nono-proxy/src/server.rs and tls_intercept/): the HTTP/2 capability of *)
(* the upstream from UpstreamH2Cache, whose one write lock is held across  *)
(* a probe, and the leaf certificate from CertCache, minted under its      *)
(* mutex and kept for the session.                                         *)
(***************************************************************************)
EXTENDS Integers, FiniteSets

CONSTANTS
    Conns,          \* intercepted connections
    Hosts,          \* their CONNECT targets, and the names in their ClientHello
    NoName,         \* a ClientHello without a server name
    Supports,       \* the hosts that negotiate h2
    Silent,         \* the hosts that accept a connection and say nothing
    H2Hosts,        \* the targets h2 is enabled for: none without --enable-h2,
                    \* less those of routes that force HTTP/1.1
    CaNotAfter,     \* EphemeralCa::not_after
    LeafValidity,   \* leaf_validity; at least CaNotAfter when it is not set
    Horizon         \* bound on the clock

HandshakeConfigured ==
    /\ NoName \notin Hosts
    /\ Supports \subseteq Hosts
    /\ Silent \subseteq Hosts
    /\ H2Hosts \subseteq Hosts
    /\ CaNotAfter \in Nat \ {0}
    /\ LeafValidity \in Nat \ {0}
    /\ Horizon \in Nat

VARIABLES
    clock,
    h2,         \* UpstreamH2Cache::inner: "unknown", "yes" or "no" per host
    prober,     \* the connection that holds the write lock, as a set
    leaf,       \* CertCache::cache: the not_after of a host's leaf, 0 for none
    pc,
    target,
    offered,    \* the connections whose acceptor offers h2
    presented,  \* "none", "valid" or "expired": the leaf shown in the handshake
    probes      \* history: probes begun per host

vars == <<clock, h2, prober, leaf, pc, target, offered, presented, probes>>

Init ==
    /\ clock = 0
    /\ h2 = [h \in Hosts |-> "unknown"]
    /\ prober = {}
    /\ leaf = [h \in Hosts |-> 0]
    /\ pc = [c \in Conns |-> "new"]
    /\ target \in [Conns -> Hosts]
    /\ offered = {}
    /\ presented = [c \in Conns |-> "none"]
    /\ probes = [h \in Hosts |-> 0]

Tick ==
    /\ clock < Horizon
    /\ clock' = clock + 1
    /\ UNCHANGED <<h2, prober, leaf, pc, target, offered, presented, probes>>

\* The capability is known: the acceptor offers what the upstream speaks.
Offer(c, yes) ==
    /\ offered' = IF yes THEN offered \cup {c} ELSE offered
    /\ pc' = [pc EXCEPT ![c] = "handshake"]

\* The CONNECT is authorised; without h2 the cache is not consulted.
SkipProbe(c) ==
    /\ pc[c] = "new"
    /\ target[c] \notin H2Hosts
    /\ Offer(c, FALSE)
    /\ UNCHANGED <<clock, h2, prober, leaf, target, presented, probes>>

\* get_or_probe, the read lock.
LookUp(c) ==
    /\ pc[c] = "new"
    /\ target[c] \in H2Hosts
    /\ prober = {}
    /\ \/ h2[target[c]] # "unknown" /\ Offer(c, h2[target[c]] = "yes")
       \/ /\ h2[target[c]] = "unknown"
          /\ pc' = [pc EXCEPT ![c] = "write"]
          /\ UNCHANGED offered
    /\ UNCHANGED <<clock, h2, prober, leaf, target, presented, probes>>

BeginProbe(c) ==
    /\ prober' = {c}
    /\ probes' = [probes EXCEPT ![target[c]] = @ + 1]
    /\ pc' = [pc EXCEPT ![c] = "probe"]

\* A mutant: no second look.
LockForProbeSingleCheck(c) ==
    /\ pc[c] = "write"
    /\ prober = {}
    /\ BeginProbe(c)
    /\ UNCHANGED <<clock, h2, leaf, target, offered, presented>>

\* The write lock and the second look.
LockForProbe(c) ==
    /\ pc[c] = "write"
    /\ prober = {}
    /\ \/ /\ h2[target[c]] # "unknown"
          /\ Offer(c, h2[target[c]] = "yes")
          /\ UNCHANGED <<prober, probes>>
       \/ /\ h2[target[c]] = "unknown"
          /\ BeginProbe(c)
          /\ UNCHANGED offered
    /\ UNCHANGED <<clock, h2, leaf, target, presented>>

\* The probe's answer, or FALSE on any error; either is kept for the session.
\* Connecting has a timeout, the TLS handshake has none: with a silent host the
\* probe does not end.
ProbeEnds(c) ==
    /\ pc[c] = "probe"
    /\ target[c] \notin Silent
    /\ \E yes \in {FALSE, target[c] \in Supports} :
          /\ h2' = [h2 EXCEPT ![target[c]] = IF yes THEN "yes" ELSE "no"]
          /\ Offer(c, yes)
    /\ prober' = {}
    /\ UNCHANGED <<clock, leaf, target, presented, probes>>

notAfter == IF clock + LeafValidity < CaNotAfter THEN clock + LeafValidity
                                                 ELSE CaNotAfter

\* CertCache::resolve with the name of the ClientHello: the cached leaf, or one
\* minted now; without a name or with an expired CA the handshake fails.
Resolve(c, name) ==
    /\ pc[c] = "handshake"
    /\ \/ /\ name # NoName => leaf[name] = 0 /\ CaNotAfter <= clock
          /\ pc' = [pc EXCEPT ![c] = "failed"]
          /\ UNCHANGED <<leaf, presented>>
       \/ /\ name \in Hosts
          /\ leaf[name] # 0 \/ clock < CaNotAfter
          /\ leaf' = [leaf EXCEPT ![name] = IF @ # 0 THEN @ ELSE notAfter]
          /\ presented' = [presented EXCEPT ![c] =
                              IF clock < leaf'[name] THEN "valid" ELSE "expired"]
          /\ \E end \in {"accepted", "failed"} : pc' = [pc EXCEPT ![c] = end]
    /\ UNCHANGED <<clock, h2, prober, target, offered, probes>>

Done == {"accepted", "failed"}

Terminated ==
    /\ clock = Horizon
    /\ \A c \in Conns : pc[c] \in Done
    /\ UNCHANGED vars

Next ==
    \/ Tick
    \/ \E c \in Conns :
          \/ SkipProbe(c) \/ LookUp(c) \/ LockForProbe(c) \/ ProbeEnds(c)
          \/ \E name \in Hosts \cup {NoName} : Resolve(c, name)
    \/ Terminated

\* The runtime runs what is ready, the lock is first come, first served, and a
\* host that is not silent answers its probe.
Fairness ==
    /\ WF_vars(Tick)
    /\ \A c \in Conns :
          /\ WF_vars(SkipProbe(c)) /\ WF_vars(LookUp(c))
          /\ WF_vars(LockForProbe(c)) /\ WF_vars(ProbeEnds(c))
          /\ WF_vars(\E name \in Hosts \cup {NoName} : Resolve(c, name))

Spec == Init /\ [][Next]_vars /\ Fairness

-----------------------------------------------------------------------------
TypeOK ==
    /\ clock \in 0 .. Horizon
    /\ h2 \in [Hosts -> {"unknown", "yes", "no"}]
    /\ prober \in SUBSET Conns
    /\ leaf \in [Hosts -> 0 .. CaNotAfter]
    /\ pc \in [Conns -> {"new", "write", "probe", "handshake"} \cup Done]
    /\ target \in [Conns -> Hosts]
    /\ offered \in SUBSET Conns
    /\ presented \in [Conns -> {"none", "valid", "expired"}]
    /\ probes \in [Hosts -> Nat]

\* h2 is offered to the agent only when the upstream speaks it: by then the
\* inner handshake is committed and there is no way back (h2_probe.rs:3-12).
OfferedH2IsSupported == \A c \in offered : target[c] \in Supports

\* Connections that ask for the same host together probe it once.
OneProbePerHost == \A h \in Hosts : probes[h] <= 1

\* Every intercepted connection gets through the probe and the handshake, when
\* the upstreams answer.
HandshakesEnd == \A c \in Conns : pc[c] = "new" ~> pc[c] \in Done

\* ca.rs:69-71, cert_cache.rs:167-179: an expired CA mints nothing, and a leaf is
\* minted not to outlive it, so that what a handshake shows is within its
\* validity; the cache keeps a leaf for the session, with no eviction
\* (cert_cache.rs:8-14).
PresentedLeafValid == \A c \in Conns : presented[c] # "expired"

\* h2_probe.rs:9, "open a short-lived TLS probe to the upstream before the inbound
\* handshake": a probe ends, and connections to other hosts do not wait on it.
ProbesAreShortLived ==
    \A c \in Conns : pc[c] = "new" /\ target[c] \notin Silent ~> pc[c] \in Done
=============================================================================
