----------------------------- MODULE TokenBroker -----------------------------
(***************************************************************************)
(* The token broker of tool-sandbox/token_broker.rs with its users in       *)
(* tool-sandbox/platform/linux.rs: the phantoms that stand for credentials  *)
(* in the agent's process, who may redeem them, and what becomes of them    *)
(* when a credential is captured again or captured output is scanned.       *)
(*                                                                         *)
(* Each broker operation runs under the broker's lock.  A capture reads the *)
(* credential's source first and stores the value later, so captures of     *)
(* one name overlap.  Sources rotate.                                       *)
(***************************************************************************)
EXTENDS Integers, FiniteSets

CONSTANTS
    Names,        \* ambient credentials
    Templated,    \* the names whose phantoms are rendered from a template
    Consumers,    \* "cmd.<name>" and "proxy.<route>" consumers
    Captures,     \* threads that handle a capture_credential rule
    Anonymous,    \* values issued at setup for the session's environment
    MaxPhantoms,  \* bound on the phantoms issued
    MaxGen,       \* bound on the rotations of a source
    None

Values == [name : Names, gen : 1 .. MaxGen]

BrokerConfigured ==
    /\ Templated \subseteq Names
    /\ Anonymous \subseteq Values
    /\ MaxPhantoms \in Nat /\ MaxGen \in Nat \ {0}
    /\ None \notin Names

Phantoms == 1 .. MaxPhantoms
Grants == SUBSET Consumers   \* GrantSet: All is every consumer

VARIABLES
    issued,     \* how many phantoms were issued so far
    map,        \* phantom -> value, grants and template of the entries held
    names,      \* phantom_names
    source,     \* the value each credential's source holds now
    captured,   \* what a capture has read and not stored yet
    stored,     \* history: the newest generation stored for a name
    current,    \* history: the value last stored for a name
    granted     \* history: the consumers ever granted a value

sources == <<source, captured>>
history == <<stored, current, granted>>
vars == <<issued, map, names, sources, history>>

Entry == [value : Values, grants : Grants, template : BOOLEAN]

TypeOK ==
    /\ issued \in 0 .. MaxPhantoms
    /\ DOMAIN map \subseteq 1 .. issued
    /\ \A p \in DOMAIN map : map[p] \in Entry
    /\ \A p \in DOMAIN names : names[p] \in Names
    /\ source \in [Names -> 1 .. MaxGen]
    /\ captured \in [Captures -> Values \cup {None}]
    /\ stored \in [Names -> 0 .. MaxGen]
    /\ current \in [Names -> Values \cup {None}]
    /\ granted \in [Values -> Grants]

Init ==
    /\ issued = 0
    /\ map = [p \in {} |-> None]
    /\ names = [p \in {} |-> None]
    /\ source = [n \in Names |-> 1]
    /\ captured = [t \in Captures |-> None]
    /\ stored = [n \in Names |-> 0]
    /\ current = [n \in Names |-> None]
    /\ granted = [v \in Values |-> {}]

(***************************************************************************)
(* Redemption                                                               *)
(***************************************************************************)
\* resolve_env_entry and resolve_nonce: the entry's grants admit the consumer.
resolve_nonce(m, p, consumer) == p \in DOMAIN m /\ consumer \in m[p].grants

\* resolve_phantom_for_credentials: is_nonce accepts a bare nonce only, then
\* the phantom's name must be one the route redeems.
resolve_phantom_for_credentials(m, ns, p, allowed) ==
    /\ p \in DOMAIN m
    /\ ~m[p].template
    /\ p \in DOMAIN ns
    /\ ns[p] \in allowed

(***************************************************************************)
(* The broker's operations                                                  *)
(***************************************************************************)
\* A function with the key p set to e.
With(f, p, e) == [q \in DOMAIN f \cup {p} |-> IF q = p THEN e ELSE f[q]]
Without(f, S) == [q \in DOMAIN f \ S |-> f[q]]

\* issue_templated: a fresh phantom, kept under its visible form.  name is
\* None for one without a credential name.
Issue(m, ns, e, name) ==
    /\ issued < MaxPhantoms
    /\ issued' = issued + 1
    /\ map' = With(m, issued + 1, e)
    /\ names' = IF name = None THEN ns ELSE With(ns, issued + 1, name)

\* issue: a session secret replaced in the agent's environment.
issue(v) ==
    /\ v \in Anonymous
    /\ \A p \in DOMAIN map : p \in DOMAIN names \/ map[p].value # v
    /\ Issue(map, names, [value |-> v, grants |-> Consumers, template |-> FALSE], None)
    /\ granted' = [granted EXCEPT ![v] = Consumers]
    /\ UNCHANGED <<sources, stored, current>>

\* The phantoms of a name that SingleActiveValue evicts.
Stale(n) == {p \in DOMAIN names : names[p] = n}

\* store_named with SingleActiveValue.
StoreNamed(n, v, g) ==
    /\ Issue(Without(map, Stale(n)), Without(names, Stale(n)),
             [value |-> v, grants |-> g, template |-> n \in Templated], n)
    /\ current' = [current EXCEPT ![n] = v]
    /\ stored' = [stored EXCEPT ![n] = IF v.gen > @ THEN v.gen ELSE @]
    /\ granted' = [granted EXCEPT ![v] = @ \cup g]

\* scan_and_reissue meets phantom p in captured output: a fresh phantom with
\* its value, grants, template and name.  An unknown phantom passes through.
ReissuePhantom(p) ==
    /\ p \in DOMAIN map
    /\ Issue(map, names, map[p], IF p \in DOMAIN names THEN names[p] ELSE None)
    /\ UNCHANGED <<sources, history>>

\* credential_name_for_value: the name of any named phantom of that value.
NamesFor(v) ==
    LET found == {names[p] : p \in {q \in DOMAIN names : map[q].value = v}}
    IN  IF found = {} THEN {None} ELSE found

MutantReissueValueAnonymous(v, p, name) ==
    /\ p \in DOMAIN map
    /\ map[p].value = v
    /\ Issue(map, names, map[p], None)
    /\ UNCHANGED <<sources, history>>

\* scan_and_reissue meets the value itself: grants and template of whichever
\* entry of that value the map yields, name of whichever is named.
ReissueValue(v, p, name) ==
    /\ p \in DOMAIN map
    /\ map[p].value = v
    /\ name \in NamesFor(v)
    /\ Issue(map, names, map[p], name)
    /\ UNCHANGED <<sources, history>>

(***************************************************************************)
(* Captures and sources                                                     *)
(***************************************************************************)
\* load_ambient_credential_source or the captured command's output.
ReadSource(t, n) ==
    /\ captured[t] = None
    /\ captured' = [captured EXCEPT ![t] = [name |-> n, gen |-> source[n]]]
    /\ UNCHANGED <<issued, map, names, source, history>>

StoreCapture(t, g) ==
    /\ captured[t] # None
    /\ StoreNamed(captured[t].name, captured[t], g)
    /\ captured' = [captured EXCEPT ![t] = None]
    /\ UNCHANGED source

\* The credential is rotated at its source.
Rotate(n) ==
    /\ source[n] < MaxGen
    /\ source' = [source EXCEPT ![n] = @ + 1]
    /\ UNCHANGED <<issued, map, names, captured, history>>

Next ==
    \/ \E v \in Anonymous : issue(v)
    \/ \E p \in Phantoms : ReissuePhantom(p)
    \/ \E v \in Values, p \in Phantoms, name \in Names \cup {None} :
          ReissueValue(v, p, name)
    \/ \E t \in Captures, n \in Names : ReadSource(t, n)
    \/ \E t \in Captures, g \in Grants \ {{}} : StoreCapture(t, g)
    \/ \E n \in Names : Rotate(n)

Spec == Init /\ [][Next]_vars

(***************************************************************************)
(* Properties                                                               *)
(***************************************************************************)

\* Once a name is stored again, no phantom reaches what it held before,
\* whatever was reissued from captured output in between: a phantom's value
\* is current for its name or was issued at setup (SingleActiveValue's
\* eviction, which only finds named phantoms).
RotatedValueUnreachable ==
    \A p \in DOMAIN map :
        \/ map[p].value \in Anonymous
        \/ \E n \in Names : current[n] = map[p].value

\* What a route redeems by name is that name's current value: reissues keep
\* name and value together and the two maps stay in step.
NamesAgree ==
    /\ DOMAIN names \subseteq DOMAIN map
    /\ \A p \in DOMAIN names : map[p].value = current[names[p]]

\* Reissuing never lets a consumer redeem a value that no capture or setup
\* granted it.
ReissueNeverWidens ==
    \A p \in DOMAIN map : map[p].grants \subseteq granted[map[p].value]

\* A phantom that captured output carries is replaced by one that redeems
\* everywhere the first does, by consumer and by credential name (the
\* comments in scan_and_reissue).
ReissueRedeemsAlike ==
    [][\A p \in Phantoms :
          (ReissuePhantom(p) /\ issued' # issued) =>
             /\ \A c \in Consumers :
                   resolve_nonce(map, p, c) => resolve_nonce(map', issued', c)
             /\ \A allowed \in SUBSET Names :
                   resolve_phantom_for_credentials(map, names, p, allowed)
                   => resolve_phantom_for_credentials(map', names', issued', allowed)]_vars

\* A route that lists a credential redeems every phantom held under that
\* name: "rewrite the phantom in `value` iff its credential name is in
\* `allowed_credentials`".
RouteRedeemsNamed ==
    \A p \in DOMAIN names :
        resolve_phantom_for_credentials(map, names, p, {names[p]})

\* A value read before a rotation never replaces one read after it: "so a
\* stale phantom can no longer resolve to a rotated or expired value".
NewestCaptureHeld ==
    \A p \in DOMAIN names : map[p].value.gen >= stored[names[p]]
=============================================================================
