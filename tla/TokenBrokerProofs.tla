------------------------- MODULE TokenBrokerProofs --------------------------
(***************************************************************************)
(* Proofs about the two brokers of a session.  TokenBroker first, for any  *)
(* credentials, templates, consumers and number of captures, rotations and *)
(* phantoms.  Then the broker of mediated commands through its instance in *)
(* Mediation, for any commands, call edges, limits, processes and ways to  *)
(* start the session.                                                      *)
(***************************************************************************)
EXTENDS TokenBroker, Mediation, FiniteSetTheorems, TLAPS


\* What the broker's two maps m and ns say, given the value each name holds
\* and who was granted which value: a named phantom has the value of its name,
\* and one without a name stands for a value issued at setup.
Consistent(m, ns, cur, gr, n) ==
    /\ DOMAIN m \subseteq 1 .. n /\ DOMAIN ns \subseteq DOMAIN m
    /\ \A p \in DOMAIN m : m[p] \in Entry
    /\ \A p \in DOMAIN ns : ns[p] \in Names /\ m[p].value = cur[ns[p]]
    /\ \A p \in DOMAIN m : p \notin DOMAIN ns => m[p].value \in Anonymous
    /\ \A p \in DOMAIN m : m[p].grants \subseteq gr[m[p].value]

BrokerInv ==
    /\ BrokerConfigured /\ TypeOK
    /\ Consistent(map, names, current, granted, issued)

-----------------------------------------------------------------------------
(* The maps *)

\* Removing keys from a map.
LEMMA WithoutFacts ==
  ASSUME NEW f, NEW S
  PROVE  /\ DOMAIN Without(f, S) = DOMAIN f \ S
         /\ \A q \in DOMAIN f \ S : Without(f, S)[q] = f[q]
  BY DEF Without

\* A phantom that is issued is fresh, and the others stay as they were.
LEMMA IssueFacts ==
  ASSUME NEW m, NEW ns, NEW e, NEW name, issued \in Nat, DOMAIN m \subseteq 1 .. issued,
         DOMAIN ns \subseteq DOMAIN m, Issue(m, ns, e, name)
  PROVE  /\ issued' = issued + 1 /\ issued' \notin DOMAIN m
         /\ DOMAIN map' = DOMAIN m \cup {issued'} /\ map'[issued'] = e
         /\ \A q \in DOMAIN m : map'[q] = m[q]
         /\ name = None => names' = ns
         /\ name # None => /\ DOMAIN names' = DOMAIN ns \cup {issued'}
                           /\ names'[issued'] = name
                           /\ \A q \in DOMAIN ns : names'[q] = ns[q]
  <1>1. issued' = issued + 1 /\ issued + 1 \notin DOMAIN m
    BY DEF Issue
  <1>2. map' = With(m, issued', e) /\ names' = IF name = None THEN ns ELSE With(ns, issued', name)
    BY <1>1 DEF Issue
  <1>3. /\ DOMAIN map' = DOMAIN m \cup {issued'} /\ map'[issued'] = e
        /\ \A q \in DOMAIN m : map'[q] = m[q]
    <2>1. /\ DOMAIN With(m, issued', e) = DOMAIN m \cup {issued'} /\ With(m, issued', e)[issued'] = e
          /\ \A q \in DOMAIN m : q # issued' => With(m, issued', e)[q] = m[q]
      BY DEF With
    <2> QED BY <1>1, <1>2, <2>1
  <1>4. ASSUME name # None
        PROVE  /\ DOMAIN names' = DOMAIN ns \cup {issued'} /\ names'[issued'] = name
               /\ \A q \in DOMAIN ns : names'[q] = ns[q]
    <2>1. /\ DOMAIN With(ns, issued', name) = DOMAIN ns \cup {issued'}
          /\ With(ns, issued', name)[issued'] = name
          /\ \A q \in DOMAIN ns : q # issued' => With(ns, issued', name)[q] = ns[q]
      BY DEF With
    <2> QED BY <1>1, <1>2, <1>4, <2>1
  <1> QED BY <1>1, <1>2, <1>3, <1>4

\* Issuing keeps the maps consistent, if the new entry is.
LEMMA IssueConsistent ==
  ASSUME NEW m, NEW ns, NEW e \in Entry, NEW name \in Names \cup {None}, NEW cur, NEW gr,
         issued \in Nat, None \notin Names, Consistent(m, ns, cur, gr, issued),
         Issue(m, ns, e, name), name = None => e.value \in Anonymous,
         name # None => e.value = cur[name], e.grants \subseteq gr[e.value]
  PROVE  Consistent(map', names', cur, gr, issued')
  <1>1. DOMAIN m \subseteq 1 .. issued /\ DOMAIN ns \subseteq DOMAIN m
    BY DEF Consistent
  <1>2. /\ issued' = issued + 1 /\ issued' \notin DOMAIN m
        /\ DOMAIN map' = DOMAIN m \cup {issued'} /\ map'[issued'] = e
        /\ \A q \in DOMAIN m : map'[q] = m[q]
    BY <1>1, IssueFacts
  <1>3. /\ name = None => names' = ns
        /\ name # None => /\ DOMAIN names' = DOMAIN ns \cup {issued'}
                          /\ names'[issued'] = name
                          /\ \A q \in DOMAIN ns : names'[q] = ns[q]
    BY <1>1, IssueFacts
  <1>4. DOMAIN map' \subseteq 1 .. issued' /\ DOMAIN names' \subseteq DOMAIN map'
    BY <1>1, <1>2, <1>3
  <1>5. \A p \in DOMAIN map' : map'[p] \in Entry /\ map'[p].grants \subseteq gr[map'[p].value]
    BY <1>2 DEF Consistent
  <1>6. \A p \in DOMAIN names' : names'[p] \in Names /\ map'[p].value = cur[names'[p]]
    BY <1>1, <1>2, <1>3 DEF Consistent
  <1>7. \A p \in DOMAIN map' : p \notin DOMAIN names' => map'[p].value \in Anonymous
    BY <1>1, <1>2, <1>3 DEF Consistent
  <1> QED BY <1>4, <1>5, <1>6, <1>7 DEF Consistent

\* Evicting the phantoms of a name leaves the rest consistent, whatever value
\* that name has from now on.
LEMMA EvictionConsistent ==
  ASSUME NEW n \in Names, NEW cur, NEW gr, BrokerInv,
         \A x \in Names : x # n => cur[x] = current[x],
         \A v \in Values : granted[v] \subseteq gr[v]
  PROVE  Consistent(Without(map, Stale(n)), Without(names, Stale(n)), cur, gr, issued)
  <1> DEFINE m == Without(map, Stale(n))
             ns == Without(names, Stale(n))
  <1>1. /\ DOMAIN m = DOMAIN map \ Stale(n) /\ \A q \in DOMAIN m : m[q] = map[q]
        /\ DOMAIN ns = DOMAIN names \ Stale(n) /\ \A q \in DOMAIN ns : ns[q] = names[q]
    <2>1. DOMAIN m = DOMAIN map \ Stale(n) /\ \A q \in DOMAIN map \ Stale(n) : m[q] = map[q]
      BY WithoutFacts
    <2>2. /\ DOMAIN ns = DOMAIN names \ Stale(n)
          /\ \A q \in DOMAIN names \ Stale(n) : ns[q] = names[q]
      BY WithoutFacts
    <2> HIDE DEF m, ns
    <2> QED BY <2>1, <2>2
  <1>2. /\ DOMAIN map \subseteq 1 .. issued /\ DOMAIN names \subseteq DOMAIN map
        /\ \A p \in DOMAIN map : map[p] \in Entry /\ map[p].grants \subseteq granted[map[p].value]
        /\ \A p \in DOMAIN names : names[p] \in Names /\ map[p].value = current[names[p]]
        /\ \A p \in DOMAIN map : p \notin DOMAIN names => map[p].value \in Anonymous
    BY DEF BrokerInv, Consistent
  <1>3. \A p \in DOMAIN ns : names[p] # n
    BY <1>1 DEF Stale
  <1>4. \A p \in DOMAIN m : p \notin DOMAIN ns => p \notin DOMAIN names
    BY <1>1 DEF Stale
  <1>5. \A e \in Entry : e.value \in Values
    BY DEF Entry
  <1> HIDE DEF m, ns
  <1>6. \A p \in DOMAIN m : m[p].grants \subseteq gr[m[p].value]
    BY <1>1, <1>2, <1>5
  <1>7. \A p \in DOMAIN ns : ns[p] \in Names /\ m[p].value = cur[ns[p]]
    BY <1>1, <1>2, <1>3
  <1>8. Consistent(m, ns, cur, gr, issued)
    BY <1>1, <1>2, <1>4, <1>6, <1>7 DEF Consistent
  <1> QED BY <1>8 DEF m, ns
-----------------------------------------------------------------------------
(* Types *)

\* The operations of the broker keep what is outside the maps typed.
HistoryOK ==
    /\ source \in [Names -> 1 .. MaxGen]
    /\ captured \in [Captures -> Values \cup {None}]
    /\ stored \in [Names -> 0 .. MaxGen]
    /\ current \in [Names -> Values \cup {None}]
    /\ granted \in [Values -> Grants]

\* The invariant is typing of the rest and consistency of the maps.
LEMMA InvParts ==
  ASSUME BrokerConfigured, issued' \in 0 .. MaxPhantoms, HistoryOK',
         Consistent(map', names', current', granted', issued')
  PROVE  BrokerInv'
  <1>1. TypeOK'
    BY DEF TypeOK, HistoryOK, Consistent
  <1>2. Consistent(map, names, current, granted, issued)'
    BY DEF Consistent
  <1> QED BY <1>1, <1>2 DEF BrokerInv, BrokerConfigured

\* Issuing stays within the bound.
LEMMA IssuedBounded ==
  ASSUME BrokerInv, NEW m, NEW ns, NEW e, NEW name, Issue(m, ns, e, name)
  PROVE  issued \in Nat /\ issued' \in 0 .. MaxPhantoms
  BY DEF BrokerInv, BrokerConfigured, TypeOK, Issue

-----------------------------------------------------------------------------
(* The operations *)

\* A value of the session's environment becomes a phantom without a name.
LEMMA IssueKept == ASSUME BrokerInv, NEW v \in Anonymous, issue(v) PROVE BrokerInv'
  <1> DEFINE e == [value |-> v, grants |-> Consumers, template |-> FALSE]
  <1>0. v \in Values
    BY DEF BrokerInv, BrokerConfigured
  <1>1. e \in Entry
    BY <1>0 DEF Entry, Grants
  <1>2. Issue(map, names, e, None) /\ granted' = [granted EXCEPT ![v] = Consumers]
        /\ UNCHANGED <<sources, stored, current>>
    BY DEF issue
  <1>3. HistoryOK'
    BY <1>0, <1>2 DEF BrokerInv, TypeOK, HistoryOK, sources, Grants
  <1>4. issued \in Nat /\ issued' \in 0 .. MaxPhantoms
    BY <1>2, IssuedBounded
  <1>5. Consistent(map, names, current', granted', issued)
    <2>1. \A w \in Values : granted[w] \subseteq granted'[w]
      BY <1>0, <1>2 DEF BrokerInv, TypeOK, Grants
    <2>2. \A p \in DOMAIN map : map[p].value \in Values
      BY DEF BrokerInv, TypeOK, Entry
    <2> QED BY <1>2, <2>1, <2>2 DEF BrokerInv, Consistent
  <1>6. e.grants \subseteq granted'[e.value] /\ e.value \in Anonymous
    BY <1>0, <1>2 DEF BrokerInv, TypeOK
  <1>7. None \notin Names /\ BrokerConfigured
    BY DEF BrokerInv, BrokerConfigured
  <1> HIDE DEF e
  <1>8. Consistent(map', names', current', granted', issued')
    BY <1>1, <1>2, <1>4, <1>5, <1>6, <1>7, IssueConsistent
  <1> QED BY <1>3, <1>4, <1>7, <1>8, InvParts

\* A phantom of an entry that is held, under the name that goes with its value.
LEMMA ReissueKept ==
  ASSUME BrokerInv, NEW p \in DOMAIN map, NEW name \in Names \cup {None},
         Issue(map, names, map[p], name), UNCHANGED <<sources, history>>,
         name = None => map[p].value \in Anonymous,
         name # None => map[p].value = current[name]
  PROVE  BrokerInv'
  <1>1. HistoryOK'
    BY DEF BrokerInv, TypeOK, HistoryOK, sources, history
  <1>2. issued \in Nat /\ issued' \in 0 .. MaxPhantoms
    BY IssuedBounded
  <1>3. None \notin Names /\ BrokerConfigured /\ map[p] \in Entry
    BY DEF BrokerInv, BrokerConfigured, TypeOK
  <1>4. Consistent(map, names, current, granted, issued) /\ map[p].grants \subseteq granted[map[p].value]
    BY DEF BrokerInv, Consistent
  <1>5. Consistent(map', names', current, granted, issued')
    BY <1>2, <1>3, <1>4, IssueConsistent
  <1>6. current' = current /\ granted' = granted
    BY DEF history
  <1>7. Consistent(map', names', current', granted', issued')
    BY <1>5, <1>6
  <1> QED BY <1>1, <1>2, <1>3, <1>7, InvParts

\* A phantom met in captured output.
LEMMA ReissuePhantomKept == ASSUME BrokerInv, NEW p, ReissuePhantom(p) PROVE BrokerInv'
  <1> DEFINE name == IF p \in DOMAIN names THEN names[p] ELSE None
  <1>1. /\ p \in DOMAIN map /\ Issue(map, names, map[p], name)
        /\ UNCHANGED <<sources, history>>
    BY DEF ReissuePhantom
  <1>2. name \in Names \cup {None} /\ (name = None => map[p].value \in Anonymous)
        /\ (name # None => map[p].value = current[name])
    BY <1>1 DEF BrokerInv, BrokerConfigured, Consistent
  <1> HIDE DEF name
  <1> QED BY <1>1, <1>2, ReissueKept

\* A value met in captured output: it takes the name of a phantom of that
\* value, and goes without one only if no such phantom has a name.
LEMMA ReissueValueKept ==
  ASSUME BrokerInv, NEW v \in Values, NEW p, NEW name \in Names \cup {None},
         ReissueValue(v, p, name)
  PROVE  BrokerInv'
  <1>1. /\ p \in DOMAIN map /\ map[p].value = v /\ Issue(map, names, map[p], name)
        /\ UNCHANGED <<sources, history>> /\ name \in NamesFor(v)
    BY DEF ReissueValue
  <1>2. /\ None \notin Names
        /\ \A q \in DOMAIN names : names[q] \in Names /\ map[q].value = current[names[q]]
        /\ \A q \in DOMAIN map : q \notin DOMAIN names => map[q].value \in Anonymous
    BY DEF BrokerInv, BrokerConfigured, Consistent
  <1>3. ASSUME name # None PROVE v = current[name]
    <2>1. PICK q \in DOMAIN names : map[q].value = v /\ names[q] = name
      BY <1>1, <1>3 DEF NamesFor
    <2> QED BY <1>2, <2>1
  <1>4. ASSUME name = None PROVE v \in Anonymous
    <2>1. p \notin DOMAIN names
      <3>1. SUFFICES ASSUME p \in DOMAIN names PROVE FALSE
        OBVIOUS
      <3>2. PICK q \in DOMAIN names : names[q] = name
        BY <1>1, <3>1 DEF NamesFor
      <3> QED BY <1>2, <1>4, <3>2
    <2> QED BY <1>1, <1>2, <2>1
  <1> QED BY <1>1, <1>3, <1>4, ReissueKept

\* Storing a capture evicts every phantom of its name, reissued ones included.
LEMMA StoreKept ==
  ASSUME BrokerInv, NEW t \in Captures, NEW g \in Grants, StoreCapture(t, g)
  PROVE  BrokerInv'
  <1> DEFINE v == captured[t]
             n == v.name
             e == [value |-> v, grants |-> g, template |-> n \in Templated]
             m == Without(map, Stale(n))
             ns == Without(names, Stale(n))
  <1>1. v \in Values /\ n \in Names
    BY DEF BrokerInv, TypeOK, StoreCapture, Values
  <1>2. /\ Issue(m, ns, e, n)
        /\ current' = [current EXCEPT ![n] = v]
        /\ stored' = [stored EXCEPT ![n] = IF v.gen > @ THEN v.gen ELSE @]
        /\ granted' = [granted EXCEPT ![v] = @ \cup g]
        /\ captured' = [captured EXCEPT ![t] = None] /\ UNCHANGED source
    BY DEF StoreCapture, StoreNamed
  <1>3. e \in Entry
    BY <1>1 DEF Entry
  <1>4. v.gen \in 1 .. MaxGen
    BY <1>1 DEF Values
  <1> HIDE DEF v, n, e, m, ns
  <1>5. HistoryOK'
    <2>1. stored' \in [Names -> 0 .. MaxGen]
      BY <1>1, <1>2, <1>4 DEF BrokerInv, TypeOK
    <2>2. current' \in [Names -> Values \cup {None}] /\ granted' \in [Values -> Grants]
      BY <1>1, <1>2 DEF BrokerInv, TypeOK, Grants
    <2>3. captured' \in [Captures -> Values \cup {None}] /\ source' \in [Names -> 1 .. MaxGen]
      BY <1>2 DEF BrokerInv, TypeOK
    <2> QED BY <2>1, <2>2, <2>3 DEF HistoryOK
  <1>6. issued \in Nat /\ issued' \in 0 .. MaxPhantoms
    BY <1>2, IssuedBounded
  <1>7. Consistent(m, ns, current', granted', issued)
    <2>1. \A x \in Names : x # n => current'[x] = current[x]
      BY <1>1, <1>2 DEF BrokerInv, TypeOK
    <2>2. \A w \in Values : granted[w] \subseteq granted'[w]
      BY <1>1, <1>2 DEF BrokerInv, TypeOK
    <2> QED BY <1>1, <2>1, <2>2, EvictionConsistent DEF m, ns
  <1>8. e.value = current'[n] /\ e.grants \subseteq granted'[e.value]
    BY <1>1, <1>2 DEF BrokerInv, TypeOK, e
  <1>9. None \notin Names /\ BrokerConfigured
    BY DEF BrokerInv, BrokerConfigured
  <1>10. Consistent(map', names', current', granted', issued')
    BY <1>1, <1>2, <1>3, <1>6, <1>7, <1>8, <1>9, IssueConsistent
  <1> QED BY <1>5, <1>6, <1>9, <1>10, InvParts

\* Reading and rotating a source leave the broker alone.
LEMMA SourcesKept ==
  ASSUME BrokerInv, (\E t \in Captures, n \in Names : ReadSource(t, n)) \/ \E n \in Names : Rotate(n)
  PROVE  BrokerInv'
  <1>1. UNCHANGED <<issued, map, names, history>>
    BY DEF ReadSource, Rotate
  <1>2. source' \in [Names -> 1 .. MaxGen]
    BY DEF ReadSource, Rotate, BrokerInv, BrokerConfigured, TypeOK
  <1>3. captured' \in [Captures -> Values \cup {None}]
    BY DEF ReadSource, Rotate, BrokerInv, TypeOK, Values
  <1>4. HistoryOK'
    BY <1>1, <1>2, <1>3 DEF HistoryOK, BrokerInv, TypeOK, history
  <1>5. Consistent(map', names', current', granted', issued')
    BY <1>1 DEF BrokerInv, history
  <1>6. BrokerConfigured /\ issued' \in 0 .. MaxPhantoms
    BY <1>1 DEF BrokerInv, TypeOK
  <1> QED BY <1>4, <1>5, <1>6, InvParts

-----------------------------------------------------------------------------
(* The theorems *)

\* An empty broker is consistent.
LEMMA InitHolds == ASSUME BrokerConfigured, Init PROVE BrokerInv
  <1>1. DOMAIN map = {} /\ DOMAIN names = {}
    BY DEF Init
  <1>2. Consistent(map, names, current, granted, issued)
    BY <1>1 DEF Consistent
  <1>3. source \in [Names -> 1 .. MaxGen] /\ stored \in [Names -> 0 .. MaxGen]
    BY DEF Init, BrokerConfigured
  <1>4. issued \in 0 .. MaxPhantoms
    BY DEF Init, BrokerConfigured
  <1>5. /\ captured \in [Captures -> Values \cup {None}]
        /\ current \in [Names -> Values \cup {None}] /\ granted \in [Values -> Grants]
    BY DEF Init, Grants
  <1> QED BY <1>1, <1>2, <1>3, <1>4, <1>5 DEF BrokerInv, TypeOK

\* Every operation keeps the invariant.
LEMMA StepKeepsInv == ASSUME BrokerInv, [Next]_vars PROVE BrokerInv'
  <1>1. CASE \E v \in Anonymous : issue(v)
    BY <1>1, IssueKept
  <1>2. CASE \E p \in Phantoms : ReissuePhantom(p)
    BY <1>2, ReissuePhantomKept
  <1>3. CASE \E v \in Values, p \in Phantoms, name \in Names \cup {None} : ReissueValue(v, p, name)
    BY <1>3, ReissueValueKept
  <1>4. CASE \E t \in Captures, g \in Grants \ {{}} : StoreCapture(t, g)
    BY <1>4, StoreKept
  <1>5. CASE (\E t \in Captures, n \in Names : ReadSource(t, n)) \/ \E n \in Names : Rotate(n)
    BY <1>5, SourcesKept
  <1>6. CASE UNCHANGED vars
    BY <1>6 DEF vars, sources, history, BrokerInv, BrokerConfigured, TypeOK, Consistent
  <1> QED BY <1>1, <1>2, <1>3, <1>4, <1>5, <1>6 DEF Next

\* The two maps of the broker agree with each other and with what was stored
\* and granted, whatever is captured, rotated and reissued in whatever order.
THEOREM BrokerInvariant == BrokerConfigured /\ Spec => []BrokerInv
  <1>1. BrokerInv /\ [Next]_vars => BrokerInv'
    BY StepKeepsInv
  <1>2. BrokerConfigured /\ Init => BrokerInv
    BY InitHolds
  <1> QED BY <1>1, <1>2, PTL DEF Spec

\* Once a name is stored again, no phantom stands for what it held before,
\* unless that value was issued at setup.
THEOREM RotatedValuesUnreachable == BrokerConfigured /\ Spec => []RotatedValueUnreachable
  <1>1. BrokerInv => RotatedValueUnreachable
    BY DEF BrokerInv, Consistent, RotatedValueUnreachable
  <1> QED BY <1>1, BrokerInvariant, PTL

\* What a route redeems by name is the current value of that name.
THEOREM NamesAlwaysAgree == BrokerConfigured /\ Spec => []NamesAgree
  <1>1. BrokerInv => NamesAgree
    BY DEF BrokerInv, Consistent, NamesAgree
  <1> QED BY <1>1, BrokerInvariant, PTL

\* No chain of reissues lets a consumer redeem a value that neither a capture
\* nor the setup granted it.
THEOREM ReissuesNeverWiden == BrokerConfigured /\ Spec => []ReissueNeverWidens
  <1>1. BrokerInv => ReissueNeverWidens
    BY DEF BrokerInv, Consistent, ReissueNeverWidens
  <1> QED BY <1>1, BrokerInvariant, PTL

\* A phantom in captured output is replaced by one that redeems everywhere the
\* first does.
THEOREM ReissuesRedeemAlike == BrokerConfigured /\ Spec => ReissueRedeemsAlike
  <1> DEFINE Alike ==
        \A p \in Phantoms :
          (ReissuePhantom(p) /\ issued' # issued) =>
             /\ \A c \in Consumers :
                   resolve_nonce(map, p, c) => resolve_nonce(map', issued', c)
             /\ \A allowed \in SUBSET Names :
                   resolve_phantom_for_credentials(map, names, p, allowed)
                   => resolve_phantom_for_credentials(map', names', issued', allowed)
  <1>1. ASSUME BrokerInv PROVE Alike
    <2> SUFFICES ASSUME NEW p \in Phantoms, ReissuePhantom(p)
                 PROVE  /\ \A c \in Consumers :
                              resolve_nonce(map, p, c) => resolve_nonce(map', issued', c)
                        /\ \A allowed \in SUBSET Names :
                              resolve_phantom_for_credentials(map, names, p, allowed)
                              => resolve_phantom_for_credentials(map', names', issued', allowed)
      OBVIOUS
    <2> DEFINE name == IF p \in DOMAIN names THEN names[p] ELSE None
    <2>1. Issue(map, names, map[p], name)
      BY DEF ReissuePhantom
    <2>2. issued \in Nat /\ DOMAIN map \subseteq 1 .. issued /\ DOMAIN names \subseteq DOMAIN map
      BY <1>1 DEF BrokerInv, TypeOK, Consistent
    <2>3. p \in DOMAIN names => name # None /\ name = names[p]
      BY <1>1 DEF BrokerInv, BrokerConfigured, Consistent
    <2> HIDE DEF name
    <2>4. /\ DOMAIN map' = DOMAIN map \cup {issued'} /\ map'[issued'] = map[p]
          /\ name # None => DOMAIN names' = DOMAIN names \cup {issued'} /\ names'[issued'] = name
      BY <2>1, <2>2, IssueFacts
    <2> QED BY <2>3, <2>4 DEF resolve_nonce, resolve_phantom_for_credentials
  <1>2. BrokerInv /\ [Next]_vars => [Alike]_vars
    BY <1>1
  <1> QED BY <1>2, BrokerInvariant, PTL DEF Spec, ReissueRedeemsAlike

-----------------------------------------------------------------------------
\* The broker of mediated commands (ShimBroker).

\* Cardinalities as the instance counts them.
LEMMA ShimsFinite == ASSUME NEW S PROVE Shims!IsFiniteSet(S) <=> IsFiniteSet(S)
  BY Zenon DEF Shims!IsFiniteSet, IsFiniteSet

LEMMA ShimsCounts == ASSUME NEW S PROVE Shims!Cardinality(S) = Cardinality(S)
  BY Zenon DEF Shims!Cardinality, Cardinality

LEMMA ShimsCardinalityType ==
  ASSUME NEW S, Shims!IsFiniteSet(S) PROVE Shims!Cardinality(S) \in Nat
  BY ShimsFinite, ShimsCounts, FS_CardinalityType

LEMMA ShimsEmptySet ==
  /\ Shims!IsFiniteSet({})
  /\ Shims!Cardinality({}) = 0
  /\ \A S : Shims!IsFiniteSet(S) => (Shims!Cardinality(S) = 0 <=> S = {})
  BY ShimsFinite, ShimsCounts, FS_EmptySet

LEMMA ShimsAddElement ==
  ASSUME NEW S, NEW x, Shims!IsFiniteSet(S)
  PROVE  /\ Shims!IsFiniteSet(S \cup {x})
         /\ Shims!Cardinality(S \cup {x}) =
               IF x \in S THEN Shims!Cardinality(S) ELSE Shims!Cardinality(S) + 1
  <1>1. IsFiniteSet(S)
    BY ShimsFinite
  <1>2. /\ IsFiniteSet(S \cup {x})
        /\ Cardinality(S \cup {x}) = IF x \in S THEN Cardinality(S) ELSE Cardinality(S) + 1
    BY <1>1, FS_AddElement
  <1> QED  BY <1>2, ShimsFinite, ShimsCounts, Zenon

LEMMA ShimsSubset ==
  ASSUME NEW S, Shims!IsFiniteSet(S), NEW T \in SUBSET S
  PROVE  Shims!IsFiniteSet(T) /\ Shims!Cardinality(T) <= Shims!Cardinality(S)
  <1>1. IsFiniteSet(S)
    BY ShimsFinite
  <1>2. IsFiniteSet(T) /\ Cardinality(T) <= Cardinality(S)
    BY <1>1, FS_Subset
  <1> QED  BY <1>2, ShimsFinite, ShimsCounts, Zenon

LEMMA ShimsRemoveElement ==
  ASSUME NEW S, NEW x, Shims!IsFiniteSet(S)
  PROVE  /\ Shims!IsFiniteSet(S \ {x})
         /\ Shims!Cardinality(S \ {x}) =
               IF x \in S THEN Shims!Cardinality(S) - 1 ELSE Shims!Cardinality(S)
  <1>1. IsFiniteSet(S)
    BY ShimsFinite
  <1>2. /\ IsFiniteSet(S \ {x})
        /\ Cardinality(S \ {x}) = IF x \in S THEN Cardinality(S) - 1 ELSE Cardinality(S)
    BY <1>1, FS_RemoveElement
  <1> QED  BY <1>2, ShimsFinite, ShimsCounts, Zenon

Requested == [st : Shims!Waiting \cup {"idle", "answered"}, peer : Pids \cup {Nobody},
              from : Requests \cup {Nobody}, cmd : Commands \cup {Nobody},
              cur : Pids \cup {Root, Super, Nobody}, steps : Nat,
              caller : Shims!Callers \cup {Nobody}, short : BOOLEAN, child : Pids \cup {Nobody},
              over : BOOLEAN, audit : {"none", "recorded", "failed"},
              answer : {"none", "ran", "error", "refused"}]
Process == [st : {"free", "live", "zombie"}, parent : Pids \cup {Root, Super, Nobody},
            launch : Requests \cup {Nobody}, out : BOOLEAN]

Known == [owners : SUBSET (Requests \cup {Nobody}), waits : BOOLEAN, lost : BOOLEAN]

ShimTyped ==
    /\ Shims!BrokerAssumption /\ setup \in Setups
    /\ proc \in [Pids -> Process] /\ req \in [Requests -> Requested]
    /\ tracked \in [Pids -> Requests \cup {Nobody}]
    /\ kernel \in [Requests -> Known]

\* The caller of a request is settled: it will not change any more.
Settled(r) == req[r].st \notin {"idle", "accepted", "walk"}

WithPlace == {r \in Requests : req[r].st \in Shims!Waiting}
WithSlot == {r \in Requests : req[r].st \in Shims!Holding}
PlacesCounted ==
    /\ Shims!IsFiniteSet(WithPlace) /\ queued = Shims!Cardinality(WithPlace)
    /\ Shims!IsFiniteSet(WithSlot) /\ active = Shims!Cardinality(WithSlot)

\* The status of the command was lost and its thread did not remove its entry.
Leaked(r) == Settled(r) /\ kernel[r].lost /\ Shims!Kind[req[r].cmd] = "limited"

EntriesOwned ==
    \A p \in Pids : tracked[p] # Nobody =>
        \/ req[tracked[p]].st \in {"running", "reaped"} /\ req[tracked[p]].child = p
        \/ Leaked(tracked[p])

ChildrenHeld ==
    \A r \in Requests : req[r].st \in {"spawned", "running", "reaped"} =>
        /\ req[r].child \in Pids
        /\ req[r].st # "reaped" =>
              proc[req[r].child].st # "free" /\ proc[req[r].child].launch = r

Families ==
    \A q \in Pids : proc[q].st # "free" =>
        /\ proc[q].parent = Root => proc[q].launch = Nobody
        /\ proc[q].parent \in Pids =>
              /\ proc[proc[q].parent].st # "free"
              /\ proc[proc[q].parent].launch = proc[q].launch

LaunchesSettled ==
    /\ \A q \in Pids : proc[q].launch # Nobody => Settled(proc[q].launch)
    /\ \A r \in Requests : \A l \in kernel[r].owners : l # Nobody => Settled(l)

\* What is left of p, if anything, descends from one of the launches S.
Of(p, S) == p \in Pids /\ proc[p].st # "free" => proc[p].launch \in S
WalksUp ==
    \A r \in Requests : req[r].st \in {"accepted", "walk"} =>
        /\ req[r].peer \in Pids /\ Of(req[r].peer, kernel[r].owners)
        /\ Of(req[r].cur, kernel[r].owners)
        /\ req[r].cur = Root => Nobody \in kernel[r].owners

CallersSettled ==
    /\ \A r \in Requests : ~Settled(r) => req[r].caller = Nobody
    /\ Shims!CallerIsSpawner

ShimInv ==
    /\ ShimTyped /\ PlacesCounted /\ EntriesOwned /\ ChildrenHeld
    /\ Families /\ LaunchesSettled /\ WalksUp /\ CallersSettled


-----------------------------------------------------------------------------
(* What a step of a thread does to its request *)

\* Only request r changes.
Touches(r) ==
    req' \in [Requests -> Requested] /\ \A q \in Requests \ {r} : req'[q] = req[q]

\* The request keeps what is said of it outside its thread.
Keeps(r) == req'[r].cmd = req[r].cmd /\ req'[r].caller = req[r].caller

\* The process ids of other requests are whose they were, and those of r too,
\* until it is answered.
Remembers(r) ==
    /\ kernel' \in [Requests -> Known] /\ \A q \in Requests \ {r} : kernel'[q] = kernel[q]
    /\ kernel'[r].lost = kernel[r].lost
    /\ \/ kernel'[r].owners = kernel[r].owners
       \/ req'[r].st = "answered" /\ kernel'[r].owners = {}

LEMMA PutRequest ==
  ASSUME req \in [Requests -> Requested], NEW r \in Requests, NEW n \in Requested,
         req' = [req EXCEPT ![r] = n]
  PROVE  Touches(r) /\ req'[r] = n
  BY DEF Touches

LEMMA FailFacts ==
  ASSUME req \in [Requests -> Requested], NEW r \in Requests, Shims!Fail(r)
  PROVE  Touches(r) /\ Keeps(r) /\ req'[r].st = "closing"
  <1>1. PICK n : n = [req[r] EXCEPT !.st = "closing", !.answer = "error"]
    OBVIOUS
  <1>0. req[r] \in Requested
    OBVIOUS
  <1>2. /\ n \in Requested /\ n.st = "closing"
        /\ n.cmd = req[r].cmd /\ n.caller = req[r].caller
    BY <1>0, <1>1 DEF Requested, Shims!Waiting
  <1>3. req' = [req EXCEPT ![r] = n]
    BY <1>1 DEF Shims!Fail
  <1> QED  BY <1>2, <1>3, PutRequest DEF Keeps

LEMMA ConcludeFacts ==
  ASSUME req \in [Requests -> Requested], NEW r \in Requests, NEW a \in {"ran", "error"},
         Shims!Conclude(r, a)
  PROVE  Touches(r) /\ Keeps(r) /\ req'[r].st = "closing"
  BY DEF Touches, Keeps, Shims!Conclude, Requested, Shims!Waiting

LEMMA ProceedFacts ==
  ASSUME req \in [Requests -> Requested], NEW r \in Requests, NEW st \in Shims!Waiting,
         Shims!Proceed(r, st)
  PROVE  Touches(r) /\ Keeps(r) /\ req'[r].st \in {"closing", st}
  BY DEF Touches, Keeps, Shims!Proceed, Requested, Shims!Waiting

LEMMA ResolvedFacts ==
  ASSUME req \in [Requests -> Requested], NEW r \in Requests,
         NEW c \in Shims!Callers \cup {Nobody},
         NEW s \in BOOLEAN, Shims!Resolved(r, c, s)
  PROVE  /\ Touches(r) /\ req'[r].st = "resolved" /\ req'[r].caller = c
         /\ req'[r].cmd = req[r].cmd
  <1>1. PICK m : m = [req[r] EXCEPT !.st = "resolved", !.caller = c, !.cur = Nobody,
                                    !.steps = 0]
    OBVIOUS
  <1>2. PICK n : n = [m EXCEPT !.short = s]
    OBVIOUS
  <1>3. req[r] \in Requested
    OBVIOUS
  <1>4. /\ m \in Requested /\ m.st = "resolved"
        /\ m.cmd = req[r].cmd /\ m.caller = c
    BY <1>1, <1>3 DEF Requested, Shims!Waiting
  <1>5. /\ n.st = m.st
        /\ n.cmd = m.cmd /\ n.caller = m.caller
    BY <1>2, <1>4 DEF Requested
  <1>6. n \in Requested
    <2>1. CASE s = TRUE
      BY <1>2, <1>4, <2>1 DEF Requested
    <2>2. CASE s = FALSE
      BY <1>2, <1>4, <2>2 DEF Requested
    <2> QED  BY <2>1, <2>2
  <1>7. req' = [req EXCEPT ![r] = n]
    BY <1>1, <1>2, <1>3 DEF Shims!Resolved, Requested
  <1> QED  BY <1>4, <1>5, <1>6, <1>7, PutRequest

-----------------------------------------------------------------------------
(* Places and slots *)

LEMMA PlaceKept ==
  ASSUME NEW r \in Requests, Touches(r),
         req[r].st \in Shims!Waiting <=> req'[r].st \in Shims!Waiting
  PROVE  WithPlace' = WithPlace
  BY DEF Touches, WithPlace

LEMMA SlotKept ==
  ASSUME NEW r \in Requests, Touches(r),
         req[r].st \in Shims!Holding <=> req'[r].st \in Shims!Holding
  PROVE  WithSlot' = WithSlot
  BY DEF Touches, WithSlot

LEMMA PlaceTaken ==
  ASSUME PlacesCounted, NEW r \in Requests, Touches(r), req[r].st \notin Shims!Waiting,
         req'[r].st \in Shims!Waiting, queued' = queued + 1
  PROVE  Shims!IsFiniteSet(WithPlace') /\ queued' = Shims!Cardinality(WithPlace')
  <1>1. WithPlace' = WithPlace \cup {r} /\ r \notin WithPlace
    BY DEF Touches, WithPlace
  <1> QED  BY <1>1, ShimsAddElement DEF PlacesCounted

LEMMA PlaceGiven ==
  ASSUME PlacesCounted, NEW r \in Requests, Touches(r), req[r].st \in Shims!Waiting,
         req'[r].st \notin Shims!Waiting, queued' = queued - 1
  PROVE  Shims!IsFiniteSet(WithPlace') /\ queued' = Shims!Cardinality(WithPlace')
  <1>1. WithPlace' = WithPlace \ {r} /\ r \in WithPlace
    BY DEF Touches, WithPlace
  <1> QED  BY <1>1, ShimsRemoveElement DEF PlacesCounted

LEMMA SlotTaken ==
  ASSUME PlacesCounted, NEW r \in Requests, Touches(r), req[r].st \notin Shims!Holding,
         req'[r].st \in Shims!Holding, active' = active + 1
  PROVE  Shims!IsFiniteSet(WithSlot') /\ active' = Shims!Cardinality(WithSlot')
  <1>1. WithSlot' = WithSlot \cup {r} /\ r \notin WithSlot
    BY DEF Touches, WithSlot
  <1> QED  BY <1>1, ShimsAddElement DEF PlacesCounted

LEMMA SlotGiven ==
  ASSUME PlacesCounted, NEW r \in Requests, Touches(r), req[r].st \in Shims!Holding,
         req'[r].st \notin Shims!Holding, active' = active - 1
  PROVE  Shims!IsFiniteSet(WithSlot') /\ active' = Shims!Cardinality(WithSlot')
  <1>1. WithSlot' = WithSlot \ {r} /\ r \in WithSlot
    BY DEF Touches, WithSlot
  <1> QED  BY <1>1, ShimsRemoveElement DEF PlacesCounted

-----------------------------------------------------------------------------
(* Requests against the process tree *)

\* All of the invariant but the counts.
TreeInv ==
    /\ ShimTyped /\ EntriesOwned /\ ChildrenHeld
    /\ Families /\ LaunchesSettled /\ WalksUp /\ CallersSettled

LEMMA ShimParts == ShimInv <=> TreeInv /\ PlacesCounted
  BY DEF ShimInv, TreeInv

WithChild == {"spawned", "running", "reaped"}

\* No caller is found or forgotten.
LEMMA CallersKept ==
  ASSUME TreeInv,
         \A q \in Requests : req'[q].caller = req[q].caller /\ req'[q].cmd = req[q].cmd,
         \A q \in Requests : ~Settled(q)' => ~Settled(q),
         \A q \in Requests : req'[q].st # "answered" =>
            req[q].st # "answered" /\ kernel[q].owners \subseteq kernel'[q].owners
  PROVE  CallersSettled'
  <1>1. \A q \in Requests : kernel[q].owners \subseteq Requests \cup {Nobody}
    BY DEF TreeInv, ShimTyped, Known
  <1>2. \A q \in Requests, l \in Requests \cup {Nobody} :
            Shims!CountsFor(q, l) => Shims!CountsFor(q, l)'
    BY DEF Shims!CountsFor
  <1>3. Shims!CallerIsSpawner'
    <2> SUFFICES ASSUME NEW q \in Requests, req'[q].caller # Nobody, req'[q].st # "answered"
                 PROVE  \E l \in kernel'[q].owners : Shims!CountsFor(q, l)'
      BY DEF Shims!CallerIsSpawner
    <2>1. PICK l \in kernel[q].owners : Shims!CountsFor(q, l)
      BY DEF TreeInv, CallersSettled, Shims!CallerIsSpawner
    <2> QED  BY <1>1, <1>2, <2>1
  <1>4. \A q \in Requests : ~Settled(q)' => req'[q].caller = Nobody
    BY DEF TreeInv, CallersSettled
  <1> QED  BY <1>3, <1>4 DEF CallersSettled, Settled

\* No launch that something descends from is reopened.
LEMMA LaunchesKept ==
  ASSUME ShimTyped', \A q \in Requests : Settled(q) => Settled(q)',
         \A p \in Pids : proc'[p].launch # Nobody => Settled(proc'[p].launch),
         \A q \in Requests : \A l \in kernel'[q].owners : l # Nobody => Settled(l)
  PROVE  LaunchesSettled'
  <1>1. /\ \A p \in Pids : proc'[p].launch \in Requests \cup {Nobody}
        /\ \A q \in Requests : kernel'[q].owners \subseteq Requests \cup {Nobody}
    BY DEF ShimTyped, Process, Known
  <1>2. \A p \in Pids : proc'[p].launch # Nobody =>
            req'[proc'[p].launch].st \notin {"idle", "accepted", "walk"}
    BY <1>1 DEF Settled
  <1>3. \A q \in Requests : \A l \in kernel'[q].owners : l # Nobody =>
            req'[l].st \notin {"idle", "accepted", "walk"}
    BY <1>1 DEF Settled
  <1> QED  BY <1>2, <1>3 DEF LaunchesSettled, Settled

LEMMA LeakedKept ==
  ASSUME NEW q \in Requests, Leaked(q), Settled(q)', req'[q].cmd = req[q].cmd,
         kernel'[q].lost = kernel[q].lost, UNCHANGED setup
  PROVE  Leaked(q)'
  BY DEF Leaked, Shims!Kind, Settled

\* A step of a thread that launches, tracks and reaps nothing and has its
\* caller, or needs none.
LEMMA ThreadGoesOn ==
  ASSUME TreeInv, NEW r \in Requests, Touches(r), Keeps(r), Remembers(r), Settled(r)',
         UNCHANGED <<setup, proc, tracked>>, req[r].st # "answered",
         req[r].st \notin WithChild, req'[r].st \notin WithChild
  PROVE  TreeInv'
  <1>1. ShimTyped'
    BY DEF TreeInv, ShimTyped, Touches, Remembers
  <1>5. \A q \in Requests : Settled(q) => Settled(q)'
    BY DEF Touches, Settled
  <1>2. EntriesOwned'
    <2> SUFFICES ASSUME NEW p \in Pids, tracked'[p] # Nobody
                 PROVE  \/ /\ req'[tracked'[p]].st \in {"running", "reaped"}
                           /\ req'[tracked'[p]].child = p
                        \/ Leaked(tracked[p])'
      BY DEF EntriesOwned, Leaked, Settled
    <2>1. PICK t \in Requests : t = tracked[p] /\ tracked'[p] = t
      BY DEF TreeInv, ShimTyped
    <2>2. CASE Leaked(t)
      <3>1. Settled(t)' /\ req'[t].cmd = req[t].cmd /\ kernel'[t].lost = kernel[t].lost
        BY <1>5, <2>2 DEF Leaked, Touches, Keeps, Remembers
      <3> QED  BY <2>1, <2>2, <3>1, LeakedKept DEF Leaked, Settled
    <2>3. CASE req[t].st \in {"running", "reaped"} /\ req[t].child = p
      BY <2>1, <2>3 DEF Touches, WithChild
    <2> QED  BY <2>1, <2>2, <2>3 DEF TreeInv, EntriesOwned
  <1>3. ChildrenHeld'
    BY DEF TreeInv, ChildrenHeld, Touches, WithChild
  <1>4. Families'
    BY DEF TreeInv, Families
  <1>6. LaunchesSettled'
    <2>1. \A q \in Requests : kernel'[q].owners \subseteq kernel[q].owners
      BY DEF Remembers
    <2>2. \A p \in Pids : proc'[p].launch # Nobody => Settled(proc'[p].launch)
      BY DEF TreeInv, LaunchesSettled
    <2>3. \A q \in Requests : \A l \in kernel'[q].owners : l # Nobody => Settled(l)
      BY <2>1 DEF TreeInv, LaunchesSettled
    <2> QED  BY <1>1, <1>5, <2>2, <2>3, LaunchesKept
  <1>7. WalksUp'
    BY DEF TreeInv, WalksUp, Of, Touches, Settled, Remembers
  <1>8. CallersSettled'
    <2>1. \A q \in Requests : req'[q].caller = req[q].caller /\ req'[q].cmd = req[q].cmd
      BY DEF Touches, Keeps
    <2>2. \A q \in Requests : req'[q].st # "answered" =>
            req[q].st # "answered" /\ kernel[q].owners \subseteq kernel'[q].owners
      BY DEF Touches, Remembers
    <2> QED  BY <1>5, <2>1, <2>2, CallersKept
  <1> QED  BY <1>1, <1>2, <1>3, <1>4, <1>6, <1>7, <1>8 DEF TreeInv

LEMMA KernelStays ==
  ASSUME TreeInv, NEW r \in Requests, UNCHANGED kernel PROVE Remembers(r)
  BY DEF TreeInv, ShimTyped, Remembers

LEMMA ShimInvParts ==
  ASSUME ShimInv, NEW r \in Requests
  PROVE  /\ TreeInv /\ PlacesCounted /\ req \in [Requests -> Requested]
         /\ req[r] \in Requested
  BY DEF ShimInv, TreeInv, ShimTyped

\* The same step when it neither takes nor gives back a place or a slot.
LEMMA ThreadStays ==
  ASSUME ShimInv, NEW r \in Requests, Touches(r), Keeps(r), Settled(r)',
         UNCHANGED <<setup, proc, tracked, queued, active, kernel>>,
         req[r].st \in Shims!Waiting \ WithChild, req'[r].st \in Shims!Waiting \ WithChild,
         req[r].st \in Shims!Holding <=> req'[r].st \in Shims!Holding
  PROVE  ShimInv'
  <1>1. TreeInv'
    BY ShimInvParts, ThreadGoesOn, KernelStays DEF Shims!Waiting
  <1>2. WithPlace' = WithPlace /\ WithSlot' = WithSlot
    BY PlaceKept, SlotKept
  <1>3. PlacesCounted'
    BY <1>2, ShimInvParts DEF PlacesCounted
  <1> QED  BY <1>1, <1>3, ShimParts DEF ShimInv, TreeInv

LEMMA SetSt ==
  ASSUME req \in [Requests -> Requested], NEW r \in Requests, NEW st \in Shims!Waiting,
         req' = [req EXCEPT ![r].st = st]
  PROVE  Touches(r) /\ Keeps(r) /\ req'[r].st = st /\ req'[r].child = req[r].child
  <1>1. req[r] \in Requested
    OBVIOUS
  <1>2. PICK n : n = [req[r] EXCEPT !.st = st]
    OBVIOUS
  <1>3. /\ n \in Requested /\ n.st = st
        /\ n.cmd = req[r].cmd /\ n.caller = req[r].caller /\ n.child = req[r].child
    BY <1>1, <1>2 DEF Requested
  <1>4. req' = [req EXCEPT ![r] = n]
    BY <1>2
  <1> QED  BY <1>3, <1>4, PutRequest DEF Keeps

LEMMA AskFacts ==
  ASSUME req \in [Requests -> Requested], NEW r \in Requests, NEW st \in Shims!Waiting,
         Shims!AskApproval(r, st)
  PROVE  Touches(r) /\ Keeps(r) /\ req'[r].st \in {"closing", st}
  BY ProceedFacts, ConcludeFacts, FailFacts DEF Shims!AskApproval

LEMMA DecisionKeeps ==
  ASSUME ShimInv, NEW r \in Requests,
         Shims!SelectPolicy(r) \/ Shims!InvocationPolicy(r) \/ Shims!Approve(r) \/ Shims!Act(r)
  PROVE  ShimInv'
  <1>0. req \in [Requests -> Requested]
    BY ShimInvParts
  <1>1. /\ Touches(r) /\ Keeps(r)
        /\ req'[r].st \in {"closing", "invocation", "gate", "act", "slot"}
    <2>1. CASE Shims!SelectPolicy(r)
      BY <1>0, <2>1, SetSt, ConcludeFacts DEF Shims!SelectPolicy, Shims!Waiting
    <2>2. CASE Shims!InvocationPolicy(r)
      BY <1>0, <2>2, SetSt, AskFacts DEF Shims!InvocationPolicy, Shims!Waiting
    <2>3. CASE Shims!Approve(r)
      BY <1>0, <2>3, SetSt, AskFacts DEF Shims!Approve, Shims!Waiting
    <2>4. CASE Shims!Act(r)
      BY <1>0, <2>4, SetSt, ConcludeFacts DEF Shims!Act, Shims!Waiting
    <2> QED  BY <2>1, <2>2, <2>3, <2>4
  <1>2. /\ req[r].st \in {"resolved", "invocation", "gate", "act"}
        /\ UNCHANGED <<setup, proc, tracked, queued, active, kernel>>
    BY DEF Shims!SelectPolicy, Shims!InvocationPolicy, Shims!Approve, Shims!Act
  <1>3. /\ req[r].st \in Shims!Waiting \ WithChild /\ req'[r].st \in Shims!Waiting \ WithChild
        /\ req[r].st \notin Shims!Holding /\ req'[r].st \notin Shims!Holding /\ Settled(r)'
    BY <1>1, <1>2 DEF Shims!Waiting, Shims!Holding, WithChild, Settled
  <1> QED  BY <1>1, <1>2, <1>3, ThreadStays

LEMMA TakeSlotKeeps == ASSUME ShimInv, NEW r \in Requests, Shims!TakeSlot(r) PROVE ShimInv'
  <1>0. req \in [Requests -> Requested] /\ TreeInv /\ PlacesCounted
    BY ShimInvParts
  <1>1. /\ Touches(r) /\ Keeps(r) /\ req'[r].st \in {"giveback", "launch"}
    BY <1>0, SetSt DEF Shims!TakeSlot, Shims!Waiting
  <1>2. /\ /\ req[r].st = "slot"
        /\ UNCHANGED <<setup, proc, tracked, queued, kernel>>
        /\ active' = active + 1
    BY DEF Shims!TakeSlot
  <1>3. /\ /\ req[r].st \in Shims!Waiting
        /\ req'[r].st \in Shims!Waiting
        /\ req[r].st \notin Shims!Holding
        /\ req'[r].st \in Shims!Holding /\ Settled(r)'
        /\ req[r].st \notin WithChild /\ req'[r].st \notin WithChild
    BY <1>1, <1>2 DEF Shims!Waiting, Shims!Holding, WithChild, Settled
  <1>4. TreeInv'
    BY <1>0, <1>1, <1>2, <1>3, ThreadGoesOn, KernelStays
  <1>5. PlacesCounted'
    BY <1>0, <1>1, <1>2, <1>3, PlaceKept, SlotTaken DEF PlacesCounted
  <1> QED  BY <1>4, <1>5 DEF ShimInv, TreeInv

\* The slot goes back before the answer.
LEMMA ReleaseKeeps ==
  ASSUME ShimInv, NEW r \in Requests, Shims!GiveBack(r) \/ Shims!Release(r) PROVE ShimInv'
  <1>0. req \in [Requests -> Requested] /\ TreeInv /\ PlacesCounted
    BY ShimInvParts
  <1>1. Touches(r) /\ Keeps(r) /\ req'[r].st = "closing"
    BY <1>0, ConcludeFacts, FailFacts DEF Shims!GiveBack, Shims!Release
  <1>2. /\ req[r].st \in {"giveback", "ran", "failed"} /\ active' = active - 1
        /\ UNCHANGED <<setup, proc, tracked, queued, kernel>>
    BY DEF Shims!GiveBack, Shims!Release
  <1>3. /\ /\ req[r].st \in Shims!Waiting
        /\ req'[r].st \in Shims!Waiting
        /\ req[r].st \in Shims!Holding
        /\ req'[r].st \notin Shims!Holding /\ Settled(r)'
        /\ req[r].st \notin WithChild /\ req'[r].st \notin WithChild
    BY <1>1, <1>2 DEF Shims!Waiting, Shims!Holding, WithChild, Settled
  <1>4. TreeInv'
    BY <1>0, <1>1, <1>2, <1>3, ThreadGoesOn, KernelStays
  <1>5. PlacesCounted'
    BY <1>0, <1>1, <1>2, <1>3, PlaceKept, SlotGiven DEF PlacesCounted
  <1> QED  BY <1>4, <1>5 DEF ShimInv, TreeInv

LEMMA JoinKeeps ==
  ASSUME ShimInv, NEW r \in Requests, Shims!Join(r) \/ Shims!RelayFails(r) PROVE ShimInv'
  <1>1. Touches(r) /\ Keeps(r) /\ req'[r].st \in {"ran", "failed"}
    BY ShimInvParts, SetSt DEF Shims!Join, Shims!RelayFails, Shims!Waiting
  <1>2. req[r].st = "join" /\ UNCHANGED <<setup, proc, tracked, queued, active, kernel>>
    BY DEF Shims!Join, Shims!RelayFails
  <1> QED  BY <1>1, <1>2, ThreadStays DEF Shims!Waiting, Shims!Holding, WithChild, Settled

LEMMA AnswerKeeps == ASSUME ShimInv, NEW r \in Requests, Shims!Answer(r) PROVE ShimInv'
  <1>0. req \in [Requests -> Requested] /\ TreeInv /\ PlacesCounted /\ req[r] \in Requested
    BY ShimInvParts
  <1>1. PICK n : n = [req[r] EXCEPT !.st = "answered", !.peer = Nobody, !.cur = Nobody,
                                    !.steps = 0]
    OBVIOUS
  <1>2. /\ n \in Requested /\ n.st = "answered"
        /\ n.cmd = req[r].cmd /\ n.caller = req[r].caller
    BY <1>0, <1>1 DEF Requested
  <1>3. req' = [req EXCEPT ![r] = n]
    BY <1>1 DEF Shims!Answer
  <1>4. Touches(r) /\ Keeps(r) /\ req'[r].st = "answered"
    BY <1>0, <1>2, <1>3, PutRequest DEF Keeps
  <1>5. /\ req[r].st = "closing" /\ queued' = queued - 1
        /\ UNCHANGED <<setup, proc, tracked, active>>
    BY DEF Shims!Answer
  <1>6. /\ /\ req[r].st \in Shims!Waiting
        /\ req'[r].st \notin Shims!Waiting
        /\ req[r].st \notin Shims!Holding
        /\ req'[r].st \notin Shims!Holding /\ Settled(r)'
        /\ req[r].st \notin WithChild /\ req'[r].st \notin WithChild
    BY <1>4, <1>5 DEF Shims!Waiting, Shims!Holding, WithChild, Settled
  <1>9. Remembers(r)
    <2>1. kernel \in [Requests -> Known] /\ kernel[r] \in Known
      BY <1>0 DEF TreeInv, ShimTyped
    <2>2. PICK k : k = [kernel[r] EXCEPT !.owners = {}, !.waits = FALSE]
      OBVIOUS
    <2>3. k \in Known /\ k.owners = {} /\ k.lost = kernel[r].lost
      BY <2>1, <2>2 DEF Known
    <2>4. kernel' = [kernel EXCEPT ![r] = k]
      BY <2>2 DEF Shims!Answer
    <2> QED  BY <1>4, <2>1, <2>3, <2>4 DEF Remembers
  <1>7. TreeInv'
    BY <1>0, <1>4, <1>5, <1>6, <1>9, ThreadGoesOn
  <1>8. PlacesCounted'
    BY <1>0, <1>4, <1>5, <1>6, SlotKept, PlaceGiven DEF PlacesCounted
  <1> QED  BY <1>7, <1>8 DEF ShimInv, TreeInv

-----------------------------------------------------------------------------
(* Who asks *)

\* Nothing refers to a request whose caller is still open.
LEMMA NobodyRefers ==
  ASSUME TreeInv, NEW r \in Requests, ~Settled(r)
  PROVE  /\ \A q \in Requests : r \notin kernel[q].owners
         /\ \A p \in Pids : proc[p].launch # r /\ tracked[p] # r
         /\ r # Nobody
  <1>1. r # Nobody
    BY DEF TreeInv, ShimTyped, Shims!BrokerAssumption
  <1>2. /\ \A q \in Requests : r \notin kernel[q].owners
        /\ \A p \in Pids : proc[p].launch # r
    BY <1>1 DEF TreeInv, LaunchesSettled
  <1>3. \A p \in Pids : tracked[p] # r
    BY <1>1 DEF TreeInv, EntriesOwned, Leaked, Settled
  <1> QED  BY <1>1, <1>2, <1>3

\* A step of a request whose caller was open and that now has peer and cmd.
LEMMA OpenGoesOn ==
  ASSUME TreeInv, NEW r \in Requests, Touches(r), ~Settled(r),
         UNCHANGED <<setup, proc, tracked>>, req'[r].st \notin WithChild,
         kernel' \in [Requests -> Known], \A q \in Requests \ {r} : kernel'[q] = kernel[q],
         \A l \in kernel'[r].owners : l # Nobody => Settled(l),
         req'[r].st \in {"accepted", "walk"} =>
            /\ req'[r].peer \in Pids /\ Of(req'[r].peer, kernel'[r].owners)
            /\ Of(req'[r].cur, kernel'[r].owners)
            /\ req'[r].cur = Root => Nobody \in kernel'[r].owners,
         ~Settled(r)' => req'[r].caller = Nobody,
         req'[r].caller # Nobody /\ req'[r].st # "answered" =>
            \E l \in kernel'[r].owners :
                IF l = Nobody
                THEN req'[r].caller = Session
                ELSE \/ req'[r].caller = req[l].cmd
                     \/ /\ req'[r].cmd = req[l].cmd /\ req[l].cmd \notin SelfEntry
                        /\ req'[r].caller = req[l].caller
  PROVE  TreeInv'
  <1>0. /\ \A q \in Requests : r \notin kernel[q].owners
        /\ \A p \in Pids : proc[p].launch # r /\ tracked[p] # r
        /\ r # Nobody
    BY NobodyRefers
  <1>1. ShimTyped'
    BY DEF TreeInv, ShimTyped, Touches
  <1>2. EntriesOwned'
    <2> SUFFICES ASSUME NEW p \in Pids, tracked'[p] # Nobody
                 PROVE  \/ /\ req'[tracked'[p]].st \in {"running", "reaped"}
                           /\ req'[tracked'[p]].child = p
                        \/ Leaked(tracked[p])'
      BY DEF EntriesOwned, Leaked, Settled
    <2>1. PICK t \in Requests \ {r} : t = tracked[p] /\ tracked'[p] = t
      BY <1>0 DEF TreeInv, ShimTyped
    <2>2. req'[t] = req[t] /\ kernel'[t] = kernel[t]
      BY DEF Touches
    <2>3. Leaked(t) => Leaked(t)'
      BY <2>2 DEF Leaked, Settled, Shims!Kind
    <2> QED  BY <2>1, <2>2, <2>3 DEF TreeInv, EntriesOwned, Leaked, Settled
  <1>3. ChildrenHeld'
    BY DEF TreeInv, ChildrenHeld, Touches, WithChild
  <1>4. Families'
    BY DEF TreeInv, Families
  <1>5. \A q \in Requests : Settled(q) => Settled(q)' /\ req'[q] = req[q]
    BY DEF Touches, Settled
  <1>7. \A q \in Requests : \A l \in kernel'[q].owners : l # Nobody => Settled(l)
    BY DEF TreeInv, LaunchesSettled
  <1>8. LaunchesSettled'
    <2>1. \A p \in Pids : proc'[p].launch # Nobody => Settled(proc'[p].launch)
      BY DEF TreeInv, LaunchesSettled
    <2> QED  BY <1>1, <1>5, <1>7, <2>1, LaunchesKept
  <1>9. WalksUp'
    <2>1. \A q \in Requests \ {r} : req'[q].st \in {"accepted", "walk"} =>
              /\ req'[q].peer \in Pids /\ Of(req'[q].peer, kernel'[q].owners)
              /\ Of(req'[q].cur, kernel'[q].owners)
              /\ req'[q].cur = Root => Nobody \in kernel'[q].owners
      BY DEF TreeInv, WalksUp, Touches
    <2> QED  BY <2>1 DEF WalksUp, Of
  <1>10. CallersSettled'
    <2>1. \A q \in Requests : ~Settled(q)' => req'[q].caller = Nobody
      BY DEF TreeInv, CallersSettled, Settled, Touches
    <2>2. \A q \in Requests : \A l \in kernel'[q].owners :
              l # Nobody => l \in Requests /\ req'[l] = req[l]
      BY <1>1, <1>5, <1>7 DEF ShimTyped, Known
    <2>3. Shims!CallerIsSpawner'
      <3> SUFFICES ASSUME NEW q \in Requests, req'[q].caller # Nobody, req'[q].st # "answered"
                   PROVE  \E l \in kernel'[q].owners : Shims!CountsFor(q, l)'
        BY DEF Shims!CallerIsSpawner
      <3>1. CASE q = r
        BY <2>2, <3>1 DEF Shims!CountsFor
      <3>2. CASE q # r
        <4>1. req'[q] = req[q] /\ kernel'[q] = kernel[q]
          BY <3>2 DEF Touches
        <4>2. PICK l \in kernel[q].owners : Shims!CountsFor(q, l)
          BY <4>1 DEF TreeInv, CallersSettled, Shims!CallerIsSpawner
        <4> QED  BY <2>2, <4>1, <4>2 DEF Shims!CountsFor
      <3> QED  BY <3>1, <3>2
    <2> QED  BY <2>1, <2>3 DEF CallersSettled, Settled
  <1> QED  BY <1>1, <1>2, <1>3, <1>4, <1>8, <1>9, <1>10 DEF TreeInv

LEMMA HandleStreamKeeps ==
  ASSUME ShimInv, NEW p \in Pids, NEW r \in Requests, NEW k \in Commands,
         Shims!HandleStream(p, r, k)
  PROVE  ShimInv'
  <1>0. req \in [Requests -> Requested] /\ TreeInv /\ PlacesCounted /\ req[r] \in Requested
    BY ShimInvParts
  <1>1. /\ ~Settled(r) /\ req[r].caller = Nobody /\ req[r].st = "idle"
        /\ UNCHANGED <<setup, proc, tracked, active>>
    BY <1>0 DEF Shims!HandleStream, Settled, TreeInv, CallersSettled
  <1>2. proc[p].launch \in Requests \cup {Nobody} /\ (proc[p].launch # Nobody => Settled(proc[p].launch))
    BY <1>0 DEF TreeInv, ShimTyped, Process, LaunchesSettled
  <1>3. CASE queued >= Shims!MaxQueued
    <2>1. PICK n : n = [req[r] EXCEPT !.st = "answered", !.cmd = k,
                                      !.from = proc[p].launch, !.answer = "refused"]
      OBVIOUS
    <2>2. /\ /\ n \in Requested
          /\ n.st = "answered"
          /\ n.caller = Nobody
      BY <1>0, <1>1, <1>2, <2>1 DEF Requested
    <2>3. req' = [req EXCEPT ![r] = n] /\ queued' = queued /\ kernel' = kernel
      BY <1>3, <2>1 DEF Shims!HandleStream
    <2>7. /\ kernel \in [Requests -> Known]
          /\ \A l \in kernel[r].owners : l # Nobody => Settled(l)
      BY <1>0 DEF TreeInv, ShimTyped, LaunchesSettled
    <2>4. Touches(r) /\ req'[r] = n
      BY <1>0, <2>2, <2>3, PutRequest
    <2>5. TreeInv'
      <3>1. req'[r].st \notin WithChild \cup {"accepted", "walk"} /\ req'[r].caller = Nobody
        BY <2>2, <2>4 DEF WithChild
      <3> QED  BY <1>0, <1>1, <2>3, <2>4, <2>7, <3>1, OpenGoesOn DEF Settled
    <2>6. PlacesCounted'
      BY <1>0, <1>1, <2>2, <2>3, <2>4, PlaceKept, SlotKept
         DEF PlacesCounted, Shims!Waiting, Shims!Holding
    <2> QED  BY <2>5, <2>6 DEF ShimInv, TreeInv
  <1>4. CASE ~(queued >= Shims!MaxQueued)
    <2>1. PICK n : n = [req[r] EXCEPT !.st = "accepted", !.peer = p, !.cmd = k,
                                      !.from = proc[p].launch, !.cur = p]
      OBVIOUS
    <2>2. /\ /\ n \in Requested
          /\ n.st = "accepted"
          /\ n.caller = Nobody
          /\ n.peer = p /\ n.cur = p
      <3>1. PICK m : m = [req[r] EXCEPT !.st = "accepted", !.peer = p, !.cmd = k]
        OBVIOUS
      <3>2. m \in Requested /\ m.st = "accepted" /\ m.peer = p /\ m.caller = Nobody
        <4>1. "accepted" \in Shims!Waiting
          BY DEF Shims!Waiting
        <4>2. req[r] \in Requested /\ req[r].caller = Nobody
          BY <1>0, <1>1
        <4> QED  BY <4>1, <4>2, <3>1 DEF Requested
      <3>3. n = [m EXCEPT !.from = proc[p].launch, !.cur = p]
        BY <1>0, <2>1, <3>1 DEF Requested
      <3> QED  BY <1>2, <3>2, <3>3 DEF Requested
    <2>3. req' = [req EXCEPT ![r] = n] /\ queued' = queued + 1
      BY <1>4, <2>1 DEF Shims!HandleStream
    <2>9. /\ kernel' \in [Requests -> Known] /\ kernel'[r].owners = {proc[p].launch}
          /\ \A q \in Requests \ {r} : kernel'[q] = kernel[q]
      <3>1. kernel \in [Requests -> Known] /\ kernel[r] \in Known
        BY <1>0 DEF TreeInv, ShimTyped
      <3>2. PICK w : w = [kernel[r] EXCEPT !.owners = {proc[p].launch}, !.waits = TRUE]
        OBVIOUS
      <3>3. w \in Known /\ w.owners = {proc[p].launch}
        BY <1>2, <3>1, <3>2 DEF Known
      <3>4. kernel' = [kernel EXCEPT ![r] = w]
        BY <1>4, <3>2 DEF Shims!HandleStream
      <3> QED  BY <3>1, <3>3, <3>4
    <2>4. Touches(r) /\ req'[r] = n
      BY <1>0, <2>2, <2>3, PutRequest
    <2>5. p # Root
      BY <1>0 DEF TreeInv, ShimTyped, Shims!BrokerAssumption
    <2>6. Of(p, {proc[p].launch})
      BY DEF Of
    <2>7. TreeInv'
      <3>1. req'[r].st \notin WithChild
        BY <2>2, <2>4 DEF WithChild
      <3> QED  BY <1>0, <1>1, <1>2, <2>2, <2>4, <2>5, <2>6, <2>9, <3>1, OpenGoesOn DEF Settled
    <2>8. PlacesCounted'
      BY <1>0, <1>1, <2>2, <2>3, <2>4, PlaceTaken, SlotKept
         DEF PlacesCounted, Shims!Waiting, Shims!Holding
    <2> QED  BY <2>7, <2>8 DEF ShimInv, TreeInv
  <1> QED  BY <1>3, <1>4

LEMMA AuthenticateKeeps ==
  ASSUME ShimInv, NEW r \in Requests, Shims!Authenticate(r)
  PROVE  ShimInv'
  <1>0. req \in [Requests -> Requested] /\ TreeInv /\ PlacesCounted /\ req[r] \in Requested
    BY ShimInvParts
  <1>1. /\ req[r].st = "accepted" /\ UNCHANGED <<setup, proc, tracked, queued, active, kernel>>
    BY DEF Shims!Authenticate
  <1>2. CASE Shims!Fail(r)
    <2>1. Touches(r) /\ Keeps(r) /\ req'[r].st = "closing"
      BY <1>0, <1>2, FailFacts
    <2> QED  BY <1>1, <2>1, ThreadStays DEF Shims!Waiting, Shims!Holding, WithChild, Settled
  <1>3. CASE req' = [req EXCEPT ![r].st = "walk"]
    <2>1. PICK n : n = [req[r] EXCEPT !.st = "walk"]
      OBVIOUS
    <2>2. /\ /\ n \in Requested
          /\ n.st = "walk"
          /\ n.caller = req[r].caller
          /\ n.peer = req[r].peer /\ n.cur = req[r].cur
      BY <1>0, <2>1 DEF Requested, Shims!Waiting
    <2>3. Touches(r) /\ req'[r] = n
      BY <1>0, <1>3, <2>1, <2>2, PutRequest
    <2>4. /\ ~Settled(r) /\ req[r].caller = Nobody /\ req[r].peer \in Pids
          /\ Of(req[r].peer, kernel[r].owners) /\ Of(req[r].cur, kernel[r].owners)
          /\ req[r].cur = Root => Nobody \in kernel[r].owners
          /\ \A l \in kernel[r].owners : l # Nobody => Settled(l)
          /\ kernel \in [Requests -> Known]
      BY <1>0, <1>1 DEF Settled, TreeInv, CallersSettled, WalksUp, LaunchesSettled, ShimTyped
    <2>5. TreeInv'
      BY <1>0, <1>1, <2>2, <2>3, <2>4, OpenGoesOn DEF WithChild
    <2>6. PlacesCounted'
      BY <1>0, <1>1, <2>2, <2>3, PlaceKept, SlotKept
         DEF PlacesCounted, Shims!Waiting, Shims!Holding
    <2> QED  BY <2>5, <2>6 DEF ShimInv, TreeInv
  <1> QED  BY <1>2, <1>3 DEF Shims!Authenticate

\* The caller is found at a live command, at the root or by the cgroup.
LEMMA WalkKeeps == ASSUME ShimInv, NEW r \in Requests, Shims!Walk(r) PROVE ShimInv'
  <1>0. req \in [Requests -> Requested] /\ TreeInv /\ PlacesCounted /\ req[r] \in Requested
    BY ShimInvParts
  <1>1. /\ req[r].st = "walk" /\ UNCHANGED <<setup, proc, tracked, queued, active, kernel>>
    BY DEF Shims!Walk
  <1>2. /\ ~Settled(r) /\ req[r].caller = Nobody /\ req[r].peer \in Pids
        /\ Of(req[r].peer, kernel[r].owners) /\ Of(req[r].cur, kernel[r].owners)
        /\ req[r].cur = Root => Nobody \in kernel[r].owners
        /\ \A l \in kernel[r].owners : l # Nobody => Settled(l)
        /\ kernel[r].owners \subseteq Requests \cup {Nobody} /\ kernel \in [Requests -> Known]
    BY <1>0, <1>1
       DEF Settled, TreeInv, ShimTyped, CallersSettled, WalksUp, LaunchesSettled, Known
  <1>3. ASSUME Shims!Conclude(r, "error") PROVE ShimInv'
    <2>1. Touches(r) /\ Keeps(r) /\ req'[r].st = "closing"
      BY <1>0, <1>3, ConcludeFacts
    <2> QED  BY <1>1, <2>1, ThreadStays DEF Shims!Waiting, Shims!Holding, WithChild, Settled
  <1>4. ASSUME NEW c \in Shims!Callers \cup {Nobody}, NEW s \in BOOLEAN, Shims!Resolved(r, c, s),
               NEW l \in kernel[r].owners,
               c # Nobody =>
                 IF l = Nobody
                 THEN c = Session
                 ELSE \/ c = req[l].cmd
                      \/ /\ req[r].cmd = req[l].cmd /\ req[l].cmd \notin SelfEntry
                         /\ c = req[l].caller
        PROVE  ShimInv'
    <2>1. /\ Touches(r) /\ req'[r].st = "resolved" /\ req'[r].caller = c
          /\ req'[r].cmd = req[r].cmd
      BY <1>0, <1>4, ResolvedFacts
    <2>2. TreeInv'
      <3>1. req'[r].st \notin WithChild \cup {"accepted", "walk"} /\ Settled(r)'
        BY <2>1 DEF WithChild, Settled
      <3>2. req'[r].caller # Nobody /\ req'[r].st # "answered" =>
            \E k \in kernel'[r].owners :
                IF k = Nobody
                THEN req'[r].caller = Session
                ELSE \/ req'[r].caller = req[k].cmd
                     \/ /\ req'[r].cmd = req[k].cmd /\ req[k].cmd \notin SelfEntry
                        /\ req'[r].caller = req[k].caller
        BY <1>1, <1>4, <2>1
      <3> QED  BY <1>0, <1>1, <1>2, <2>1, <3>1, <3>2, OpenGoesOn
    <2>3. PlacesCounted'
      BY <1>0, <1>1, <2>1, PlaceKept, SlotKept DEF PlacesCounted, Shims!Waiting, Shims!Holding
    <2> QED  BY <2>2, <2>3 DEF ShimInv, TreeInv
  <1>5. CASE Shims!Severed(r)
    <2> DEFINE c == Shims!resolve_severed_command(req[r].peer)
    <2>1. CASE c = Nobody
      BY <1>3, <1>5, <2>1 DEF Shims!Severed
    <2>2. CASE c # Nobody
      <3>1. proc[req[r].peer].st # "free" /\ proc[req[r].peer].launch # Nobody
            /\ c = req[proc[req[r].peer].launch].cmd
        BY <2>2 DEF Shims!resolve_severed_command
      <3>2. PICK l \in kernel[r].owners : l = proc[req[r].peer].launch
        BY <1>2, <3>1 DEF Of
      <3>3. l \in Requests /\ l # Nobody /\ c = req[l].cmd
        BY <1>2, <3>1, <3>2
      <3>4. c \in Shims!Callers \cup {Nobody}
        BY <1>0, <3>3 DEF Requested, Shims!Callers
      <3>5. Shims!Resolved(r, c, TRUE)
        BY <1>5, <2>2 DEF Shims!Severed
      <3> HIDE DEF c
      <3> QED  BY <1>4, <3>2, <3>3, <3>4, <3>5
    <2> QED  BY <2>1, <2>2
  <1>6. CASE Shims!live_active_child(req[r].cur) /\ Shims!Resolved(r, Shims!CallerAt(r), FALSE)
    <2> DEFINE t == tracked[req[r].cur]
    <2>1. /\ req[r].cur \in Pids /\ t # Nobody /\ proc[req[r].cur].st # "free"
          /\ req[t].st \in {"spawned", "running"} /\ req[t].child = req[r].cur
      BY <1>6 DEF Shims!live_active_child
    <2>2. t \in Requests
      BY <1>0, <2>1 DEF TreeInv, ShimTyped
    <2>3. proc[req[r].cur].launch = t
      BY <1>0, <2>1, <2>2 DEF TreeInv, ChildrenHeld
    <2>4. t \in kernel[r].owners
      BY <1>2, <2>1, <2>3 DEF Of
    <2>5. /\ Shims!CallerAt(r) = IF req[t].cmd = req[r].cmd /\ req[t].cmd \notin SelfEntry
                           THEN req[t].caller ELSE req[t].cmd
      BY DEF Shims!CallerAt
    <2>6. /\ req[t].caller \in Shims!Callers \cup {Nobody}
          /\ req[t].cmd \in Shims!Callers \cup {Nobody}
      BY <1>0, <2>2 DEF Requested, Shims!Callers
    <2> HIDE DEF t
    <2>7. PICK c : c = Shims!CallerAt(r)
      OBVIOUS
    <2> QED  BY <1>4, <1>6, <2>1, <2>4, <2>5, <2>6, <2>7
  <1>7. CASE req[r].cur = Root /\ Shims!Resolved(r, Session, FALSE)
    <2>1. Session \in Shims!Callers \cup {Nobody} /\ Nobody \in kernel[r].owners
      BY <1>2, <1>7 DEF Shims!Callers
    <2> QED  BY <1>4, <1>7, <2>1
  <1>8. CASE /\ req[r].cur \in Pids /\ proc[req[r].cur].st # "free"
             /\ req' = [req EXCEPT ![r].cur = proc[req[r].cur].parent, ![r].steps = @ + 1]
    <2> DEFINE up == proc[req[r].cur].parent
    <2>1. up \in Pids \cup {Root, Super, Nobody}
      BY <1>0, <1>8 DEF TreeInv, ShimTyped, Process
    <2>9. PICK s : s = req[r].steps + 1
      OBVIOUS
    <2>10. s \in Nat
      BY <1>0, <2>9 DEF Requested
    <2>2. PICK n : n = [req[r] EXCEPT !.cur = up, !.steps = s]
      OBVIOUS
    <2>3. /\ n \in Requested /\ n.st = "walk" /\ n.caller = Nobody
          /\ n.peer = req[r].peer /\ n.cur = up
      BY <1>0, <1>1, <1>2, <2>1, <2>2, <2>10 DEF Requested
    <2>4. Touches(r) /\ req'[r] = n
      <3>1. req' = [req EXCEPT ![r] = n]
        BY <1>0, <1>8, <2>2, <2>9
      <3> QED  BY <1>0, <2>3, <3>1, PutRequest
    <2>5. proc[req[r].cur].launch \in kernel[r].owners
      BY <1>2, <1>8 DEF Of
    <2>6. Of(up, kernel[r].owners) /\ (up = Root => Nobody \in kernel[r].owners)
      BY <1>0, <1>8, <2>5 DEF TreeInv, Families, Of
    <2> HIDE DEF up
    <2>7. TreeInv'
      BY <1>0, <1>1, <1>2, <2>3, <2>4, <2>6, OpenGoesOn DEF WithChild
    <2>8. PlacesCounted'
      BY <1>0, <1>1, <2>3, <2>4, PlaceKept, SlotKept
         DEF PlacesCounted, Shims!Waiting, Shims!Holding
    <2> QED  BY <2>7, <2>8 DEF ShimInv, TreeInv
  <1> QED  BY <1>3, <1>5, <1>6, <1>7, <1>8 DEF Shims!Walk

-----------------------------------------------------------------------------
(* Processes that come and go *)

\* The process tree after p has gone.
Lost(p, st) ==
    /\ proc' \in [Pids -> Process]
    /\ proc'[p].st = st
    /\ \A q \in Pids \ {p} : proc'[q].st = proc[q].st
    /\ \A q \in Pids : proc'[q].launch \in {proc[q].launch, Nobody}
    /\ \A q \in Pids : proc'[q].st # "free" =>
          /\ proc[q].st # "free" /\ proc'[q].launch = proc[q].launch
          /\ proc'[q].parent \in {proc[q].parent, Super}
          /\ q # p => proc'[q].parent # p

LEMMA WithoutIsLost ==
  ASSUME TreeInv, NEW p \in Pids, proc[p].st # "free", NEW st \in {"free", "zombie"},
         proc' = Shims!Without(p, st)
  PROVE  Lost(p, st)
  <1>1. proc \in [Pids -> Process] /\ Super \notin Pids
    BY DEF TreeInv, ShimTyped, Shims!BrokerAssumption
  <1>2. Shims!Free \in Process /\ Shims!Free.st = "free" /\ Shims!Free.launch = Nobody
    BY DEF Shims!Free, Process
  <1>3. /\ proc'[p] = IF st = "free" THEN Shims!Free ELSE [proc[p] EXCEPT !.st = st]
        /\ \A q \in Pids \ {p} : proc'[q] = IF proc[q].st # "free" /\ proc[q].parent = p
                                            THEN [proc[q] EXCEPT !.parent = Super] ELSE proc[q]
        /\ proc' = [q \in Pids |-> proc'[q]]
    BY DEF Shims!Without
  <1>4. \A x \in Process : /\ [x EXCEPT !.parent = Super] \in Process
                           /\ [x EXCEPT !.parent = Super].st = x.st
                           /\ [x EXCEPT !.parent = Super].launch = x.launch
                           /\ [x EXCEPT !.parent = Super].parent = Super
    BY DEF Process
  <1>5. \A x \in Process : /\ [x EXCEPT !.st = "zombie"] \in Process
                           /\ [x EXCEPT !.st = "zombie"].st = "zombie"
                           /\ [x EXCEPT !.st = "zombie"].launch = x.launch
                           /\ [x EXCEPT !.st = "zombie"].parent = x.parent
    BY DEF Process
  <1>6. \A q \in Pids : proc[q] \in Process
    BY <1>1
  <1>7. /\ /\ proc'[p] \in Process
        /\ proc'[p].st = st
        /\ proc'[p].launch \in {proc[p].launch, Nobody}
        /\ st # "free" => proc'[p].launch = proc[p].launch /\ proc'[p].parent = proc[p].parent
    BY <1>2, <1>3, <1>5, <1>6
  <1>8. \A q \in Pids \ {p} :
          /\ proc'[q] \in Process /\ proc'[q].st = proc[q].st /\ proc'[q].launch = proc[q].launch
          /\ proc'[q].parent \in {proc[q].parent, Super}
          /\ proc'[q].st # "free" => proc'[q].parent # p
    <2>1. TAKE q \in Pids \ {p}
    <2>2. PICK x \in Process : x = proc[q]
      BY <1>6
    <2>3. CASE x.st # "free" /\ x.parent = p
      <3>1. proc'[q] = [x EXCEPT !.parent = Super]
        BY <1>3, <2>2, <2>3
      <3> QED  BY <1>1, <1>4, <2>2, <3>1
    <2>4. CASE ~(x.st # "free" /\ x.parent = p)
      <3>1. proc'[q] = x
        BY <1>3, <2>2, <2>4
      <3> QED  BY <2>2, <2>4, <3>1
    <2> QED  BY <2>3, <2>4
  <1>9. proc' \in [Pids -> Process]
    BY <1>3, <1>7, <1>8
  <1> QED  BY <1>7, <1>8, <1>9 DEF Lost

\* What the loss of p leaves of the tree and of the walks over it.
LEMMA LostKeeps ==
  ASSUME TreeInv, NEW p \in Pids, NEW st \in {"free", "zombie"}, Lost(p, st)
  PROVE  /\ Families'
         /\ \A q \in Pids : \A S : Of(q, S) => Of(q, S)'
         /\ \A q \in Pids : proc'[q].launch # Nobody => proc'[q].launch = proc[q].launch
  <1>1. Super \notin Pids /\ Root # Super
    BY DEF TreeInv, ShimTyped, Shims!BrokerAssumption
  <1>2. \A q \in Pids : \A S : Of(q, S) => Of(q, S)'
    BY DEF Lost, Of
  <1>3. \A q \in Pids : proc'[q].launch # Nobody => proc'[q].launch = proc[q].launch
    BY DEF Lost
  <1>4. ASSUME NEW q \in Pids, proc'[q].st # "free"
        PROVE  /\ proc'[q].parent = Root => proc'[q].launch = Nobody
               /\ proc'[q].parent \in Pids =>
                     /\ proc'[proc'[q].parent].st # "free"
                     /\ proc'[proc'[q].parent].launch = proc'[q].launch
    <2>1. /\ proc[q].st # "free" /\ proc'[q].launch = proc[q].launch
          /\ proc'[q].parent \in {proc[q].parent, Super}
          /\ q # p => proc'[q].parent # p
      BY <1>4 DEF Lost
    <2>2. CASE proc'[q].parent = Super
      BY <1>1, <2>2
    <2>3. CASE proc'[q].parent = proc[q].parent
      <3>1. ASSUME proc[q].parent \in Pids
            PROVE  /\ proc'[proc[q].parent].st # "free"
                   /\ proc'[proc[q].parent].launch = proc[q].launch
        <4>1. /\ proc[proc[q].parent].st # "free"
              /\ proc[proc[q].parent].launch = proc[q].launch
          BY <2>1, <3>1 DEF TreeInv, Families
        <4>2. CASE proc[q].parent = q
          BY <1>4, <2>1, <4>1, <4>2
        <4>3. CASE proc[q].parent # q
          <5>1. proc[q].parent # p
            BY <2>1, <2>3, <4>3
          <5> QED  BY <3>1, <4>1, <5>1 DEF Lost
        <4> QED  BY <4>2, <4>3
      <3>2. proc[q].parent = Root => proc[q].launch = Nobody
        BY <2>1 DEF TreeInv, Families
      <3> QED  BY <2>1, <2>3, <3>1, <3>2
    <2> QED  BY <2>1, <2>2, <2>3
  <1> QED  BY <1>2, <1>3, <1>4 DEF Families

\* p goes without its thread: an exit, or the end of a child past its limit.
LEMMA LostAlone ==
  ASSUME ShimInv, NEW p \in Pids, NEW st \in {"free", "zombie"}, Lost(p, st),
         UNCHANGED <<setup, req, tracked, queued, active, kernel>>,
         st = "free" => ~Shims!IsChild(p)
  PROVE  ShimInv'
  <1>0. TreeInv /\ PlacesCounted
    BY DEF ShimInv, TreeInv
  <1>1. /\ Families'
        /\ \A q \in Pids : \A S : Of(q, S) => Of(q, S)'
        /\ \A q \in Pids : proc'[q].launch # Nobody => proc'[q].launch = proc[q].launch
    BY <1>0, LostKeeps
  <1>2. ShimTyped' /\ EntriesOwned' /\ CallersSettled'
    <2>1. ShimTyped' /\ EntriesOwned'
      BY <1>0 DEF TreeInv, ShimTyped, Lost, EntriesOwned, Leaked, Settled, Shims!Kind
    <2> QED  BY <1>0, <2>1, CallersKept DEF Settled
  <1>3. ChildrenHeld'
    BY <1>0 DEF TreeInv, ChildrenHeld, Lost, Shims!IsChild
  <1>4. LaunchesSettled'
    BY <1>0, <1>1 DEF TreeInv, LaunchesSettled, Settled
  <1>5. WalksUp'
    BY <1>0, <1>1 DEF TreeInv, WalksUp, Of
  <1>6. PlacesCounted'
    BY <1>0 DEF PlacesCounted, WithPlace, WithSlot
  <1> QED  BY <1>1, <1>2, <1>3, <1>4, <1>5, <1>6 DEF ShimInv

LEMMA ExitKeeps == ASSUME ShimInv, NEW p \in Pids, Shims!Exit(p) PROVE ShimInv'
  <1>0. TreeInv /\ proc[p].st # "free"
    BY DEF ShimInv, TreeInv, Shims!Exit
  <1>1. PICK st \in {"free", "zombie"} : /\ st = (IF Shims!IsChild(p) THEN "zombie" ELSE "free")
                                         /\ proc' = Shims!Without(p, st)
    BY DEF Shims!Exit
  <1>2. Lost(p, st)
    BY <1>0, <1>1, WithoutIsLost
  <1> QED  BY <1>1, <1>2, LostAlone DEF Shims!Exit

LEMMA KillChildKeeps == ASSUME ShimInv, NEW r \in Requests, Shims!KillChild(r) PROVE ShimInv'
  <1>0. TreeInv
    BY DEF ShimInv, TreeInv
  <1>1. req[r].child \in Pids /\ proc[req[r].child].st # "free"
    BY <1>0 DEF Shims!KillChild, TreeInv, ChildrenHeld
  <1>2. Lost(req[r].child, "zombie")
    BY <1>0, <1>1, WithoutIsLost DEF Shims!KillChild
  <1> QED  BY <1>1, <1>2, LostAlone DEF Shims!KillChild

\* The thread gives up its child: it waits for it, or could not track it.
LEMMA ChildGone ==
  ASSUME ShimInv, NEW r \in Requests, req[r].st \in {"spawned", "running"},
         Lost(req[r].child, "free"), Touches(r), Keeps(r),
         \/ req'[r].st = "reaped" /\ req'[r].child = req[r].child
         \/ req'[r].st = "failed" /\ req[r].st = "spawned"
         \/ req'[r].st = "failed" /\ kernel'[r].lost /\ Shims!Kind[req[r].cmd] = "limited",
         kernel' \in [Requests -> Known], \A q \in Requests \ {r} : kernel'[q] = kernel[q],
         kernel'[r].owners = kernel[r].owners, kernel[r].lost => kernel'[r].lost,
         UNCHANGED <<setup, tracked, queued, active>>
  PROVE  ShimInv'
  <1>0. TreeInv /\ PlacesCounted
    BY DEF ShimInv, TreeInv
  <1>1. /\ req[r].child \in Pids /\ proc[req[r].child].launch = r
    BY <1>0 DEF TreeInv, ChildrenHeld
  <1>2. /\ Families'
        /\ \A q \in Pids : \A S : Of(q, S) => Of(q, S)'
        /\ \A q \in Pids : proc'[q].launch # Nobody => proc'[q].launch = proc[q].launch
    BY <1>0, <1>1, LostKeeps
  <1>3. ShimTyped'
    BY <1>0 DEF TreeInv, ShimTyped, Lost, Touches
  <1>4. EntriesOwned'
    <2> SUFFICES ASSUME NEW p \in Pids, tracked'[p] # Nobody
                 PROVE  \/ /\ req'[tracked'[p]].st \in {"running", "reaped"}
                           /\ req'[tracked'[p]].child = p
                        \/ Leaked(tracked[p])'
      BY DEF EntriesOwned, Leaked, Settled
    <2>1. PICK t \in Requests : t = tracked[p] /\ tracked'[p] = t
      BY <1>0 DEF TreeInv, ShimTyped
    <2>2. \/ req[t].st \in {"running", "reaped"} /\ req[t].child = p
          \/ Leaked(t)
      BY <1>0, <2>1 DEF TreeInv, EntriesOwned
    <2>3. CASE t # r
      <3>1. req'[t] = req[t] /\ kernel'[t] = kernel[t]
        BY <2>3 DEF Touches
      <3>2. Leaked(t) => Leaked(t)'
        BY <3>1 DEF Leaked, Settled, Shims!Kind
      <3> QED  BY <2>1, <2>2, <3>1, <3>2 DEF Leaked, Settled
    <2>4. CASE t = r
      <3>1. Settled(r)' /\ (kernel'[r].lost /\ Shims!Kind[req[r].cmd] = "limited" => Leaked(r)')
        BY DEF Leaked, Settled, Shims!Kind, Keeps
      <3>2. Leaked(r) => Leaked(r)'
        BY <3>1 DEF Leaked
      <3> QED  BY <2>1, <2>2, <2>4, <3>1, <3>2 DEF Leaked, Settled
    <2> QED  BY <2>3, <2>4
  <1>5. ChildrenHeld'
    <2>1. ASSUME NEW q \in Requests \ {r}, req[q].st \in {"spawned", "running"}
          PROVE  /\ req[q].child \in Pids /\ proc'[req[q].child].st # "free"
                 /\ proc'[req[q].child].launch = q
      <3>1. /\ req[q].child \in Pids
            /\ proc[req[q].child].st # "free"
            /\ proc[req[q].child].launch = q
        BY <1>0, <2>1 DEF TreeInv, ChildrenHeld
      <3>2. req[q].child # req[r].child
        BY <1>1, <3>1
      <3> QED  BY <3>1, <3>2 DEF Lost
    <2>2. \A q \in Requests : req[q].st = "reaped" => req[q].child \in Pids
      BY <1>0 DEF TreeInv, ChildrenHeld
    <2> QED  BY <1>1, <2>1, <2>2 DEF ChildrenHeld, Touches
  <1>6. \A q \in Requests : /\ Settled(q) => Settled(q)'
                            /\ Settled(q)' => Settled(q)
    BY DEF Touches, Settled
  <1>7. \A q \in Requests : req'[q].caller = req[q].caller /\ req'[q].cmd = req[q].cmd
    BY DEF Touches, Keeps
  <1>8. \A q \in Requests : kernel'[q].owners = kernel[q].owners
    OBVIOUS
  <1>9. LaunchesSettled'
    <2>1. \A p \in Pids : proc'[p].launch # Nobody => Settled(proc'[p].launch)
      BY <1>0, <1>2 DEF TreeInv, LaunchesSettled
    <2>2. \A q \in Requests : \A l \in kernel'[q].owners : l # Nobody => Settled(l)
      BY <1>0, <1>8 DEF TreeInv, LaunchesSettled
    <2> QED  BY <1>3, <1>6, <2>1, <2>2, LaunchesKept
  <1>10. WalksUp'
    <2>1. \A q, S : Of(q, S) => Of(q, S)'
      BY <1>2 DEF Of
    <2>2. \A q \in Requests : req'[q].st \in {"accepted", "walk"} =>
            q # r /\ req'[q] = req[q]
      BY DEF Touches
    <2>3. \A q \in Requests : req'[q].st \in {"accepted", "walk"} =>
              /\ req'[q].peer \in Pids /\ Of(req'[q].peer, kernel'[q].owners)
              /\ Of(req'[q].cur, kernel'[q].owners)
              /\ req'[q].cur = Root => Nobody \in kernel'[q].owners
      BY <1>0, <1>8, <2>2 DEF TreeInv, WalksUp
    <2> QED  BY <2>1, <2>3 DEF WalksUp, Of
  <1>11. CallersSettled'
    <2>1. \A q \in Requests : req'[q].st # "answered" => req[q].st # "answered"
      BY DEF Touches
    <2> QED  BY <1>0, <1>6, <1>7, <1>8, <2>1, CallersKept
  <1>12. PlacesCounted'
    BY <1>0, PlaceKept, SlotKept DEF PlacesCounted, Shims!Waiting, Shims!Holding
  <1> QED  BY <1>2, <1>3, <1>4, <1>5, <1>9, <1>10, <1>11, <1>12 DEF ShimInv

LEMMA WaitKeeps == ASSUME ShimInv, NEW r \in Requests, Shims!Wait(r) PROVE ShimInv'
  <1>0. /\ TreeInv /\ req \in [Requests -> Requested] /\ req[r] \in Requested
        /\ kernel \in [Requests -> Known] /\ kernel[r] \in Known
    BY ShimInvParts DEF TreeInv, ShimTyped
  <1>1. req[r].child \in Pids /\ proc[req[r].child].st # "free" /\ req[r].st = "running"
    BY <1>0 DEF Shims!Wait, TreeInv, ChildrenHeld
  <1>2. Lost(req[r].child, "free")
    BY <1>0, <1>1, WithoutIsLost DEF Shims!Wait
  <1>3. ASSUME req' = [req EXCEPT ![r].st = "reaped"]
        PROVE  Touches(r) /\ Keeps(r) /\ req'[r].st = "reaped" /\ req'[r].child = req[r].child
    BY <1>0, <1>3, SetSt DEF Shims!Waiting
  <1>4. CASE req' = [req EXCEPT ![r].st = "reaped"] /\ UNCHANGED kernel
    BY <1>0, <1>1, <1>2, <1>3, <1>4, ChildGone DEF Shims!Wait
  <1>5. CASE kernel' = [kernel EXCEPT ![r].lost = TRUE]
    <2>1. PICK k : k = [kernel[r] EXCEPT !.lost = TRUE]
      OBVIOUS
    <2>2. k \in Known /\ k.owners = kernel[r].owners /\ k.lost
      BY <1>0, <2>1 DEF Known
    <2>3. kernel' = [kernel EXCEPT ![r] = k]
      BY <1>5, <2>1
    <2>4. /\ kernel' \in [Requests -> Known] /\ \A q \in Requests \ {r} : kernel'[q] = kernel[q]
          /\ kernel'[r].owners = kernel[r].owners /\ kernel'[r].lost
      BY <1>0, <2>2, <2>3
    <2>5. CASE Shims!Kind[req[r].cmd] # "limited"
      <3>1. req' = [req EXCEPT ![r].st = "reaped"]
        BY <1>5, <2>5 DEF Shims!Wait
      <3> QED  BY <1>0, <1>1, <1>2, <1>3, <2>4, <3>1, ChildGone DEF Shims!Wait
    <2>6. CASE /\ Shims!Kind[req[r].cmd] = "limited"
               /\ req' = [req EXCEPT ![r].st = "failed", ![r].child = Nobody]
      <3>1. PICK n : n = [req[r] EXCEPT !.st = "failed", !.child = Nobody]
        OBVIOUS
      <3>2. /\ n \in Requested /\ n.st = "failed"
            /\ n.cmd = req[r].cmd /\ n.caller = req[r].caller
        BY <1>0, <3>1 DEF Requested, Shims!Waiting
      <3>3. req' = [req EXCEPT ![r] = n]
        BY <2>6, <3>1
      <3>4. Touches(r) /\ Keeps(r) /\ req'[r].st = "failed"
        BY <1>0, <3>2, <3>3, PutRequest DEF Keeps
      <3> QED  BY <1>0, <1>1, <1>2, <2>4, <2>6, <3>4, ChildGone DEF Shims!Wait
    <2>7. CASE /\ Shims!Kind[req[r].cmd] = "limited"
               /\ req' = [req EXCEPT ![r].st = "reaped"]
      BY <1>0, <1>1, <1>2, <1>3, <2>4, <2>7, ChildGone DEF Shims!Wait
    <2> QED  BY <2>5, <2>6, <2>7 DEF Shims!Wait
  <1> QED  BY <1>4, <1>5 DEF Shims!Wait

LEMMA TrackKeeps == ASSUME ShimInv, NEW r \in Requests, Shims!Track(r) PROVE ShimInv'
  <1>0. TreeInv /\ PlacesCounted /\ req \in [Requests -> Requested] /\ req[r] \in Requested
    BY ShimInvParts
  <1>1. /\ req[r].st = "spawned" /\ UNCHANGED <<setup, queued, active, kernel>>
        /\ req[r].child \in Pids /\ proc[req[r].child].st # "free"
        /\ proc[req[r].child].launch = r /\ kernel \in [Requests -> Known]
    BY <1>0 DEF Shims!Track, TreeInv, ChildrenHeld, ShimTyped
  <1>2. CASE /\ proc' = Shims!Without(req[r].child, "free")
             /\ req' = [req EXCEPT ![r].st = "failed", ![r].child = Nobody]
             /\ UNCHANGED tracked
    <2>1. PICK n : n = [req[r] EXCEPT !.st = "failed", !.child = Nobody]
      OBVIOUS
    <2>2. /\ n \in Requested /\ n.st = "failed"
          /\ n.cmd = req[r].cmd /\ n.caller = req[r].caller
      BY <1>0, <2>1 DEF Requested, Shims!Waiting
    <2>3. req' = [req EXCEPT ![r] = n]
      BY <1>2, <2>1
    <2>4. Touches(r) /\ Keeps(r) /\ req'[r].st = "failed"
      BY <1>0, <2>2, <2>3, PutRequest DEF Keeps
    <2>5. Lost(req[r].child, "free")
      BY <1>0, <1>1, <1>2, WithoutIsLost
    <2> QED  BY <1>1, <1>2, <2>4, <2>5, ChildGone
  <1>3. CASE /\ tracked' = [tracked EXCEPT ![req[r].child] = r]
             /\ req' = [req EXCEPT ![r].st = "running"]
             /\ UNCHANGED proc
    <2>1. Touches(r) /\ Keeps(r) /\ req'[r].st = "running" /\ req'[r].child = req[r].child
      BY <1>0, <1>3, SetSt DEF Shims!Waiting
    <2>2. ShimTyped'
      BY <1>0, <1>1, <1>3, <2>1 DEF TreeInv, ShimTyped, Touches
    <2>3. EntriesOwned'
      <3>2. \A p \in Pids : tracked'[p] = IF p = req[r].child THEN r ELSE tracked[p]
        BY <1>0, <1>1, <1>3 DEF TreeInv, ShimTyped
      <3> SUFFICES ASSUME NEW p \in Pids, tracked'[p] # Nobody
                   PROVE  \/ /\ req'[tracked'[p]].st \in {"running", "reaped"}
                             /\ req'[tracked'[p]].child = p
                          \/ Leaked(tracked[p])' /\ tracked'[p] = tracked[p]
        BY DEF EntriesOwned, Leaked, Settled
      <3>3. CASE p = req[r].child
        BY <2>1, <3>2, <3>3
      <3>4. CASE p # req[r].child
        <4>1. PICK t \in Requests : t = tracked[p] /\ tracked'[p] = t
          BY <1>0, <3>2, <3>4 DEF TreeInv, ShimTyped
        <4>2. Leaked(t) => Leaked(t)'
          BY <1>1, <2>1 DEF Leaked, Settled, Shims!Kind, Touches, Keeps
        <4>3. t = r => ~(req[t].st \in {"running", "reaped"})
          BY <1>1
        <4> QED  BY <1>0, <2>1, <4>1, <4>2, <4>3 DEF TreeInv, EntriesOwned, Leaked, Settled, Touches
      <3> QED  BY <3>3, <3>4
    <2>4. ChildrenHeld'
      BY <1>0, <1>1, <1>3, <2>1 DEF TreeInv, ChildrenHeld, Touches
    <2>5. Families'
      BY <1>0, <1>3 DEF TreeInv, Families
    <2>6. /\ \A q \in Requests : Settled(q)' <=> Settled(q)
          /\ \A q \in Requests : req'[q].caller = req[q].caller /\ req'[q].cmd = req[q].cmd
          /\ \A q \in Requests : req'[q].st # "answered" => req[q].st # "answered"
      BY <1>1, <2>1 DEF Touches, Settled, Keeps
    <2>8. LaunchesSettled'
      <3>1. /\ \A p \in Pids : proc'[p].launch # Nobody => Settled(proc'[p].launch)
            /\ \A q \in Requests : \A l \in kernel'[q].owners : l # Nobody => Settled(l)
        BY <1>0, <1>1, <1>3, <2>1 DEF TreeInv, LaunchesSettled
      <3> QED  BY <2>2, <2>6, <3>1, LaunchesKept
    <2>9. WalksUp'
      BY <1>0, <1>1, <1>3, <2>1 DEF TreeInv, WalksUp, Of, Touches
    <2>10. CallersSettled'
      BY <1>0, <1>1, <2>6, CallersKept
    <2>11. PlacesCounted'
      BY <1>0, <1>1, <2>1, PlaceKept, SlotKept DEF PlacesCounted, Shims!Waiting, Shims!Holding
    <2> QED  BY <2>2, <2>3, <2>4, <2>5, <2>8, <2>9, <2>10, <2>11 DEF ShimInv
  <1> QED  BY <1>2, <1>3 DEF Shims!Track

LEMMA UntrackKeeps == ASSUME ShimInv, NEW r \in Requests, Shims!Untrack(r) PROVE ShimInv'
  <1>0. TreeInv /\ PlacesCounted /\ req \in [Requests -> Requested] /\ req[r] \in Requested
    BY ShimInvParts
  <1>1. /\ req[r].st = "reaped" /\ UNCHANGED <<setup, proc, queued, active, kernel>>
        /\ req[r].child \in Pids /\ tracked' = [tracked EXCEPT ![req[r].child] = Nobody]
    BY <1>0 DEF Shims!Untrack, TreeInv, ChildrenHeld
  <1>2. PICK st \in {"join", "ran", "failed"} : req' = [req EXCEPT ![r].st = st, ![r].child = Nobody]
    BY DEF Shims!Untrack
  <1>3. PICK n : n = [req[r] EXCEPT !.st = st, !.child = Nobody]
    OBVIOUS
  <1>4. /\ n \in Requested /\ n.st = st
        /\ n.cmd = req[r].cmd /\ n.caller = req[r].caller
    <2>1. st \in Shims!Waiting
      BY DEF Shims!Waiting
    <2> QED  BY <1>0, <1>3, <2>1 DEF Requested
  <1>5. req' = [req EXCEPT ![r] = n]
    BY <1>2, <1>3
  <1>6. Touches(r) /\ Keeps(r) /\ req'[r].st = st
    BY <1>0, <1>4, <1>5, PutRequest DEF Keeps
  <1>7. ShimTyped'
    BY <1>0, <1>1, <1>6 DEF TreeInv, ShimTyped, Touches
  <1>8. EntriesOwned'
    <2>1. \A p \in Pids : tracked'[p] = IF p = req[r].child THEN Nobody ELSE tracked[p]
      BY <1>0, <1>1 DEF TreeInv, ShimTyped
    <2> SUFFICES ASSUME NEW p \in Pids, tracked'[p] # Nobody
                 PROVE  \/ /\ req'[tracked'[p]].st \in {"running", "reaped"}
                           /\ req'[tracked'[p]].child = p
                        \/ Leaked(tracked[p])' /\ tracked'[p] = tracked[p]
      BY DEF EntriesOwned, Leaked, Settled
    <2>2. PICK t \in Requests : t = tracked[p] /\ tracked'[p] = t /\ p # req[r].child
      BY <1>0, <2>1 DEF TreeInv, ShimTyped
    <2>3. Leaked(t) => Leaked(t)'
      BY <1>1, <1>6 DEF Leaked, Settled, Shims!Kind, Touches, Keeps
    <2> QED  BY <1>0, <1>6, <2>2, <2>3 DEF TreeInv, EntriesOwned, Leaked, Settled, Touches
  <1>9. ChildrenHeld'
    BY <1>0, <1>1, <1>6 DEF TreeInv, ChildrenHeld, Touches
  <1>10. Families'
    BY <1>0, <1>1 DEF TreeInv, Families
  <1>11. /\ \A q \in Requests : Settled(q)' <=> Settled(q)
         /\ \A q \in Requests : req'[q].caller = req[q].caller /\ req'[q].cmd = req[q].cmd
         /\ \A q \in Requests : req'[q].st # "answered" => req[q].st # "answered"
    BY <1>1, <1>6 DEF Touches, Settled, Keeps
  <1>13. LaunchesSettled'
    <2>1. /\ \A p \in Pids : proc'[p].launch # Nobody => Settled(proc'[p].launch)
          /\ \A q \in Requests : \A l \in kernel'[q].owners : l # Nobody => Settled(l)
      BY <1>0, <1>1, <1>6 DEF TreeInv, LaunchesSettled
    <2> QED  BY <1>7, <1>11, <2>1, LaunchesKept
  <1>14. WalksUp'
    BY <1>0, <1>1, <1>6 DEF TreeInv, WalksUp, Of, Touches
  <1>15. CallersSettled'
    BY <1>0, <1>1, <1>11, CallersKept
  <1>16. PlacesCounted'
    BY <1>0, <1>1, <1>6, PlaceKept, SlotKept DEF PlacesCounted, Shims!Waiting, Shims!Holding
  <1> QED  BY <1>7, <1>8, <1>9, <1>10, <1>13, <1>14, <1>15, <1>16 DEF ShimInv

LEMMA ExceedKeeps == ASSUME ShimInv, NEW r \in Requests, Shims!Exceed(r) PROVE ShimInv'
  <1>0. TreeInv /\ PlacesCounted /\ req \in [Requests -> Requested] /\ req[r] \in Requested
    BY ShimInvParts
  <1>1. PICK n : n = [req[r] EXCEPT !.over = TRUE]
    OBVIOUS
  <1>2. /\ n \in Requested /\ n.st = req[r].st /\ n.peer = req[r].peer
        /\ n.cmd = req[r].cmd /\ n.caller = req[r].caller /\ n.cur = req[r].cur
        /\ n.child = req[r].child
    BY <1>0, <1>1 DEF Requested
  <1>3. req' = [req EXCEPT ![r] = n]
    BY <1>1 DEF Shims!Exceed
  <1>4. /\ req' \in [Requests -> Requested]
        /\ \A q \in Requests :
             /\ req'[q].st = req[q].st /\ req'[q].peer = req[q].peer
             /\ req'[q].cmd = req[q].cmd /\ req'[q].caller = req[q].caller
             /\ req'[q].cur = req[q].cur /\ req'[q].child = req[q].child
    BY <1>0, <1>2, <1>3, PutRequest DEF Touches
  <1>5. UNCHANGED <<setup, proc, tracked, queued, active, kernel>>
    BY DEF Shims!Exceed
  <1>6. /\ \A q \in Requests : Settled(q)' <=> Settled(q)
        /\ \A q \in Pids : tracked[q] # Nobody => tracked[q] \in Requests
    BY <1>0, <1>4 DEF TreeInv, ShimTyped, Settled
  <1>7. ShimTyped' /\ ChildrenHeld' /\ Families'
    BY <1>0, <1>4, <1>5 DEF TreeInv, ShimTyped, ChildrenHeld, Families
  <1>12. EntriesOwned'
    BY <1>0, <1>4, <1>5, <1>6 DEF TreeInv, EntriesOwned, Leaked, Settled, Shims!Kind
  <1>8. LaunchesSettled' /\ WalksUp'
    <2>1. /\ \A p \in Pids : proc'[p].launch # Nobody => Settled(proc'[p].launch)
          /\ \A q \in Requests : \A l \in kernel'[q].owners : l # Nobody => Settled(l)
      BY <1>0, <1>5 DEF TreeInv, LaunchesSettled
    <2>2. WalksUp'
      BY <1>0, <1>4, <1>5 DEF TreeInv, WalksUp, Of
    <2> QED  BY <1>6, <1>7, <2>1, <2>2, LaunchesKept
  <1>9. CallersSettled'
    BY <1>0, <1>4, <1>5, <1>6, CallersKept
  <1>10. WithPlace' = WithPlace /\ WithSlot' = WithSlot
    BY <1>4 DEF WithPlace, WithSlot
  <1>11. PlacesCounted'
    BY <1>0, <1>5, <1>10 DEF PlacesCounted
  <1> QED  BY <1>7, <1>8, <1>9, <1>11, <1>12 DEF ShimInv

\* A process id comes into use.
LEMMA BornKeeps ==
  ASSUME TreeInv, NEW q \in Shims!Unused, NEW n \in Process, n.st = "live",
         n.parent = Root => n.launch = Nobody,
         n.parent \in Pids =>
            proc[n.parent].st # "free" /\ proc[n.parent].launch = n.launch,
         proc' = [proc EXCEPT ![q] = n]
  PROVE  /\ q \in Pids /\ proc[q].st = "free"
         /\ proc' \in [Pids -> Process] /\ proc'[q] = n
         /\ \A p \in Pids \ {q} : proc'[p] = proc[p]
         /\ Families'
  <1>1. q \in Pids /\ proc[q].st = "free" /\ proc \in [Pids -> Process]
    BY DEF Shims!Unused, TreeInv, ShimTyped, Shims!BrokerAssumption, Shims!Setup
  <1>2. proc' \in [Pids -> Process] /\ proc'[q] = n /\ \A p \in Pids \ {q} : proc'[p] = proc[p]
    BY <1>1
  <1>3. Families'
    BY <1>1, <1>2 DEF TreeInv, Families
  <1> QED  BY <1>1, <1>2, <1>3

\* Which requests name the id.
LEMMA TakenFacts ==
  ASSUME kernel \in [Requests -> Known], NEW q, NEW l \in Requests \cup {Nobody},
         kernel' = Shims!Taken(q, l)
  PROVE  /\ kernel' \in [Requests -> Known]
         /\ \A r \in Requests :
              /\ kernel'[r].lost = kernel[r].lost
              /\ kernel[r].owners \subseteq kernel'[r].owners
              /\ kernel'[r].owners \subseteq kernel[r].owners \cup {l}
              /\ req[r].st \in {"accepted", "walk"} /\ q \in {req[r].peer, req[r].cur}
                    => l \in kernel'[r].owners
  <1>1. ASSUME NEW r \in Requests
        PROVE  /\ kernel'[r] \in Known
               /\ kernel'[r].lost = kernel[r].lost
               /\ kernel[r].owners \subseteq kernel'[r].owners
               /\ kernel'[r].owners \subseteq kernel[r].owners \cup {l}
               /\ req[r].st \in {"accepted", "walk"} /\ q \in {req[r].peer, req[r].cur}
                     => l \in kernel'[r].owners
    <2>1. PICK w \in BOOLEAN : w = (kernel[r].waits /\ req[r].peer # q)
      OBVIOUS
    <2>2. PICK O : O = IF req[r].st \in {"accepted", "walk"} /\ q \in {req[r].peer, req[r].cur}
                       THEN kernel[r].owners \cup {l} ELSE kernel[r].owners
      OBVIOUS
    <2>3. kernel[r] \in Known /\ O \subseteq Requests \cup {Nobody}
      BY <2>2 DEF Known
    <2>4. kernel'[r] = [kernel[r] EXCEPT !.waits = w, !.owners = O]
      BY <2>1, <2>2, <2>3 DEF Shims!Taken, Known
    <2>5. /\ kernel'[r].owners = O /\ kernel'[r].lost = kernel[r].lost
      BY <2>3, <2>4 DEF Known
    <2>6. kernel'[r] \in Known
      <3>1. CASE w = TRUE
        BY <2>3, <2>4, <3>1 DEF Known
      <3>2. CASE w = FALSE
        BY <2>3, <2>4, <3>2 DEF Known
      <3> QED  BY <3>1, <3>2
    <2> QED  BY <2>2, <2>5, <2>6
  <1>2. kernel' = [r \in Requests |-> kernel'[r]]
    BY DEF Shims!Taken
  <1> QED  BY <1>1, <1>2

\* A walk that stands on the id of a new process stands on that process.
LEMMA BornWalks ==
  ASSUME TreeInv, NEW q \in Pids, NEW l \in Requests \cup {Nobody},
         kernel' = Shims!Taken(q, l), proc'[q].launch = l,
         \A p \in Pids \ {q} : proc'[p] = proc[p],
         \A s \in Requests : req'[s].st \in {"accepted", "walk"} => req'[s] = req[s]
  PROVE  WalksUp'
  <1> SUFFICES ASSUME NEW s \in Requests, req'[s].st \in {"accepted", "walk"}
               PROVE  /\ req'[s].peer \in Pids
                      /\ proc'[req'[s].peer].st # "free" =>
                            proc'[req'[s].peer].launch \in kernel'[s].owners
                      /\ req'[s].cur \in Pids /\ proc'[req'[s].cur].st # "free" =>
                            proc'[req'[s].cur].launch \in kernel'[s].owners
                      /\ req'[s].cur = Root => Nobody \in kernel'[s].owners
    BY DEF WalksUp, Of
  <1>1. /\ req'[s] = req[s] /\ kernel[s].owners \subseteq kernel'[s].owners
        /\ q \in {req[s].peer, req[s].cur} => l \in kernel'[s].owners
    BY TakenFacts DEF TreeInv, ShimTyped
  <1>2. /\ req[s].peer \in Pids /\ Of(req[s].peer, kernel[s].owners)
        /\ Of(req[s].cur, kernel[s].owners)
        /\ req[s].cur = Root => Nobody \in kernel[s].owners
    BY <1>1 DEF TreeInv, WalksUp
  <1> QED  BY <1>1, <1>2 DEF Of

LEMMA ForkAlone ==
  ASSUME ShimInv, NEW q \in Shims!Unused, NEW n \in Process, n.st = "live",
         n.parent = Root => n.launch = Nobody,
         n.parent \in Pids =>
            proc[n.parent].st # "free" /\ proc[n.parent].launch = n.launch,
         n.launch # Nobody => Settled(n.launch), kernel' = Shims!Taken(q, n.launch),
         proc' = [proc EXCEPT ![q] = n], UNCHANGED <<setup, req, tracked, queued, active>>
  PROVE  ShimInv'
  <1>0. TreeInv /\ PlacesCounted /\ n.launch \in Requests \cup {Nobody}
    BY DEF ShimInv, TreeInv, Process
  <1>1. /\ q \in Pids /\ proc[q].st = "free" /\ Families'
        /\ proc' \in [Pids -> Process] /\ proc'[q] = n
        /\ \A p \in Pids \ {q} : proc'[p] = proc[p]
    BY <1>0, BornKeeps
  <1>7. /\ kernel' \in [Requests -> Known]
        /\ \A r \in Requests : /\ kernel'[r].lost = kernel[r].lost
                              /\ kernel[r].owners \subseteq kernel'[r].owners
                              /\ kernel'[r].owners \subseteq kernel[r].owners \cup {n.launch}
    BY <1>0, TakenFacts DEF TreeInv, ShimTyped
  <1>2. ShimTyped'
    BY <1>0, <1>1, <1>7 DEF TreeInv, ShimTyped
  <1>8. EntriesOwned'
    BY <1>0, <1>7 DEF TreeInv, ShimTyped, EntriesOwned, Leaked, Settled, Shims!Kind
  <1>9. CallersSettled'
    BY <1>0, <1>7, CallersKept DEF Settled
  <1>3. ChildrenHeld'
    BY <1>0, <1>1 DEF TreeInv, ChildrenHeld
  <1>4. LaunchesSettled'
    <2>1. \A p \in Pids : proc'[p].launch # Nobody => Settled(proc'[p].launch)
      BY <1>0, <1>1 DEF TreeInv, LaunchesSettled
    <2>2. \A r \in Requests : \A l \in kernel'[r].owners : l # Nobody => Settled(l)
      BY <1>0, <1>7 DEF TreeInv, LaunchesSettled
    <2>3. \A r \in Requests : Settled(r) => Settled(r)'
      BY DEF Settled
    <2> QED  BY <1>2, <2>1, <2>2, <2>3, LaunchesKept
  <1>5. WalksUp'
    BY <1>0, <1>1, BornWalks
  <1>6. PlacesCounted'
    BY <1>0 DEF PlacesCounted, WithPlace, WithSlot
  <1> QED  BY <1>1, <1>2, <1>3, <1>4, <1>5, <1>6, <1>8, <1>9 DEF ShimInv

LEMMA ForkKeeps ==
  ASSUME ShimInv,
         \/ \E q \in Pids : Shims!ForkSession(q)
         \/ \E p, q \in Pids, out \in BOOLEAN : Shims!Fork(p, q, out)
  PROVE  ShimInv'
  <1>0. TreeInv /\ proc \in [Pids -> Process] /\ Root \notin Pids
    BY DEF ShimInv, TreeInv, ShimTyped, Shims!BrokerAssumption
  <1>1. ASSUME NEW q \in Pids, Shims!ForkSession(q) PROVE ShimInv'
    <2>1. PICK n : n = [Shims!Free EXCEPT !.st = "live", !.parent = Root]
      OBVIOUS
    <2>2. n \in Process /\ n.st = "live" /\ n.launch = Nobody /\ n.parent = Root
      BY <2>1 DEF Shims!Free, Process
    <2>3. q \in Shims!Unused /\ proc' = [proc EXCEPT ![q] = n] /\ kernel' = Shims!Taken(q, Nobody)
          /\ UNCHANGED <<setup, req, tracked, queued, active>>
      BY <1>1, <2>1 DEF Shims!ForkSession
    <2> QED  BY <1>0, <2>2, <2>3, ForkAlone
  <1>2. ASSUME NEW p \in Pids, NEW q \in Pids, NEW out \in BOOLEAN, Shims!Fork(p, q, out) PROVE ShimInv'
    <2>1. proc[p] \in Process /\ proc[p].st = "live"
      BY <1>0, <1>2 DEF Shims!Fork
    <2>2. PICK n : n = [proc[p] EXCEPT !.parent = p, !.out = out]
      OBVIOUS
    <2>3. n \in Process
      <3>1. CASE out = TRUE
        BY <2>1, <2>2, <3>1 DEF Process
      <3>2. CASE out = FALSE
        BY <2>1, <2>2, <3>2 DEF Process
      <3> QED  BY <3>1, <3>2
    <2>4. n.st = "live" /\ n.launch = proc[p].launch /\ n.parent = p
      BY <2>1, <2>2 DEF Process
    <2>5. q \in Shims!Unused /\ proc' = [proc EXCEPT ![q] = n]
          /\ kernel' = Shims!Taken(q, proc[p].launch)
          /\ UNCHANGED <<setup, req, tracked, queued, active>>
      BY <1>2, <2>2 DEF Shims!Fork
    <2>6. n.launch # Nobody => Settled(n.launch)
      BY <1>0, <2>4 DEF TreeInv, LaunchesSettled
    <2>7. p # Root /\ proc[p].st # "free"
      BY <1>0, <2>1
    <2> QED  BY <2>3, <2>4, <2>5, <2>6, <2>7, ForkAlone
  <1> QED  BY <1>1, <1>2

\* The child is launched: a process below the supervisor that descends from r.
LEMMA SpawnKeeps == ASSUME ShimInv, NEW r \in Requests, Shims!Spawn(r) PROVE ShimInv'
  <1>0. TreeInv /\ PlacesCounted /\ req \in [Requests -> Requested] /\ req[r] \in Requested
        /\ setup \in Setups /\ Shims!BrokerAssumption
    BY ShimInvParts DEF TreeInv, ShimTyped
  <1>1. req[r].st = "launch" /\ UNCHANGED <<setup, tracked, queued, active>>
    BY DEF Shims!Spawn
  <1>2. CASE req' = [req EXCEPT ![r].st = "failed"] /\ UNCHANGED <<proc, kernel>>
    <2>1. Touches(r) /\ Keeps(r) /\ req'[r].st = "failed"
      BY <1>0, <1>2, SetSt DEF Shims!Waiting
    <2> QED  BY <1>1, <1>2, <2>1, ThreadStays
                DEF Shims!Waiting, Shims!Holding, WithChild, Settled
  <1>3. ASSUME NEW q \in Shims!Unused,
               proc' = [proc EXCEPT ![q] = [st |-> "live", parent |-> Super, launch |-> r,
                                            out |-> Shims!Kind[req[r].cmd] # "direct"]],
               req' = [req EXCEPT ![r].st = "spawned", ![r].child = q],
               kernel' = Shims!Taken(q, r)
        PROVE  ShimInv'
    <2>1. PICK o \in BOOLEAN : o = (Shims!Kind[req[r].cmd] # "direct")
      OBVIOUS
    <2>2. PICK n : n = [st |-> "live", parent |-> Super, launch |-> r, out |-> o]
      OBVIOUS
    <2>3. n \in Process /\ n.st = "live" /\ n.parent = Super /\ n.launch = r
      <3>1. CASE o = TRUE
        BY <2>2, <3>1 DEF Process
      <3>2. CASE o = FALSE
        BY <2>2, <3>2 DEF Process
      <3> QED  BY <3>1, <3>2
    <2>4. proc' = [proc EXCEPT ![q] = n]
      BY <1>3, <2>1, <2>2
    <2>5. Super \notin Pids /\ Super # Root
      BY <1>0 DEF Shims!BrokerAssumption
    <2>6. /\ q \in Pids /\ proc[q].st = "free" /\ Families'
          /\ proc' \in [Pids -> Process] /\ proc'[q] = n
          /\ \A p \in Pids \ {q} : proc'[p] = proc[p]
      BY <1>0, <2>3, <2>4, <2>5, BornKeeps
    <2>7. PICK m : m = [req[r] EXCEPT !.st = "spawned", !.child = q]
      OBVIOUS
    <2>8. /\ m \in Requested /\ m.st = "spawned"
          /\ m.cmd = req[r].cmd /\ m.caller = req[r].caller /\ m.child = q
      <3>1. "spawned" \in Shims!Waiting
        BY DEF Shims!Waiting
      <3> QED  BY <1>0, <2>6, <2>7, <3>1 DEF Requested
    <2>9. Touches(r) /\ Keeps(r) /\ req'[r].st = "spawned" /\ req'[r].child = q
      <3>1. req' = [req EXCEPT ![r] = m]
        BY <1>3, <2>7
      <3> QED  BY <1>0, <2>8, <3>1, PutRequest DEF Keeps
    <2>19. /\ kernel' \in [Requests -> Known]
           /\ \A s \in Requests : /\ kernel'[s].lost = kernel[s].lost
                                 /\ kernel[s].owners \subseteq kernel'[s].owners
                                 /\ kernel'[s].owners \subseteq kernel[s].owners \cup {r}
      BY <1>0, <1>3, TakenFacts DEF TreeInv, ShimTyped
    <2>10. ShimTyped'
      BY <1>0, <1>1, <2>6, <2>9, <2>19 DEF TreeInv, ShimTyped, Touches
    <2>13. /\ \A s \in Requests : Settled(s)' <=> Settled(s)
           /\ \A s \in Requests : req'[s].caller = req[s].caller /\ req'[s].cmd = req[s].cmd
           /\ \A s \in Requests : req'[s].st # "answered" => req[s].st # "answered"
      BY <1>1, <2>9 DEF Touches, Settled, Keeps
    <2>11. EntriesOwned'
      <3> SUFFICES ASSUME NEW p \in Pids, tracked'[p] # Nobody
                   PROVE  \/ /\ req'[tracked'[p]].st \in {"running", "reaped"}
                             /\ req'[tracked'[p]].child = p
                          \/ Leaked(tracked[p])'
        BY <1>1 DEF EntriesOwned, Leaked, Settled
      <3>1. PICK t \in Requests : t = tracked[p] /\ tracked'[p] = t
        BY <1>0, <1>1 DEF TreeInv, ShimTyped
      <3>2. Leaked(t) => Leaked(t)'
        BY <1>1, <2>13, <2>19 DEF Leaked, Settled, Shims!Kind
      <3> QED  BY <1>0, <1>1, <2>9, <3>1, <3>2 DEF TreeInv, EntriesOwned, Leaked, Settled, Touches
    <2>12. ChildrenHeld'
      BY <1>0, <2>3, <2>6, <2>9 DEF TreeInv, ChildrenHeld, Touches
    <2>15. LaunchesSettled'
      <3>1. Settled(r)
        BY <1>1 DEF Settled
      <3>2. \A p \in Pids : proc'[p].launch # Nobody => Settled(proc'[p].launch)
        BY <1>0, <2>3, <2>6, <3>1 DEF TreeInv, LaunchesSettled
      <3>3. \A s \in Requests : \A l \in kernel'[s].owners : l # Nobody => Settled(l)
        BY <1>0, <2>19, <3>1 DEF TreeInv, LaunchesSettled
      <3> QED  BY <2>10, <2>13, <3>2, <3>3, LaunchesKept
    <2>16. WalksUp'
      <3>1. \A s \in Requests : req'[s].st \in {"accepted", "walk"} => req'[s] = req[s]
        BY <2>9 DEF Touches
      <3> QED  BY <1>0, <1>3, <2>3, <2>6, <3>1, BornWalks
    <2>17. CallersSettled'
      BY <1>0, <2>13, <2>19, CallersKept
    <2>18. PlacesCounted'
      BY <1>0, <1>1, <2>9, PlaceKept, SlotKept DEF PlacesCounted, Shims!Waiting, Shims!Holding
    <2> QED  BY <2>6, <2>10, <2>11, <2>12, <2>15, <2>16, <2>17, <2>18 DEF ShimInv
  <1> QED  BY <1>2, <1>3 DEF Shims!Spawn

-----------------------------------------------------------------------------
LEMMA ShimInit == Shims!BrokerAssumption /\ Shims!Init => ShimInv
  <1> SUFFICES ASSUME Shims!BrokerAssumption, Shims!Init PROVE ShimInv
    OBVIOUS
  <1>1. /\ Shims!Fresh \in Requested
        /\ Shims!Fresh.st = "idle"
        /\ Shims!Fresh.caller = Nobody
    BY DEF Shims!Fresh, Requested
  <1>10. Shims!Unknown \in Known /\ Shims!Unknown.owners = {}
    BY DEF Shims!Unknown, Known
  <1>11. kernel \in [Requests -> Known] /\ \A r \in Requests : kernel[r] = Shims!Unknown
    BY <1>10 DEF Shims!Init
  <1>2. Shims!Free \in Process /\ Shims!Free.st = "free" /\ Shims!Free.launch = Nobody
    BY DEF Shims!Free, Process
  <1>3. req \in [Requests -> Requested] /\ \A r \in Requests : req[r] = Shims!Fresh
    BY <1>1 DEF Shims!Init
  <1>4. proc \in [Pids -> Process] /\ \A p \in Pids : proc[p] = Shims!Free
    BY <1>2 DEF Shims!Init
  <1>5. ShimTyped
    BY <1>3, <1>4, <1>11 DEF Shims!Init, ShimTyped
  <1>6. WithPlace = {} /\ WithSlot = {}
    BY <1>1, <1>3 DEF WithPlace, WithSlot, Shims!Waiting, Shims!Holding
  <1>7. PlacesCounted
    BY <1>6, ShimsEmptySet DEF PlacesCounted, Shims!Init
  <1>8. EntriesOwned
    BY DEF Shims!Init, EntriesOwned
  <1>9. ChildrenHeld /\ Families /\ LaunchesSettled /\ WalksUp /\ CallersSettled
    BY <1>1, <1>2, <1>3, <1>4, <1>10, <1>11 DEF ChildrenHeld, Families, LaunchesSettled, WalksUp,
       CallersSettled, Shims!CallerIsSpawner
  <1> QED  BY <1>5, <1>7, <1>8, <1>9 DEF ShimInv

LEMMA ShimStep == ShimInv /\ [Shims!Next]_(Shims!vars) => ShimInv'
  <1> SUFFICES ASSUME ShimInv, [Shims!Next]_(Shims!vars) PROVE ShimInv'
    OBVIOUS
  <1>1. ASSUME NEW r \in Requests, Shims!Thread(r) PROVE ShimInv'
    BY <1>1, AuthenticateKeeps, WalkKeeps, DecisionKeeps, TakeSlotKeeps, ReleaseKeeps,
       SpawnKeeps,
       TrackKeeps, KillChildKeeps, WaitKeeps, UntrackKeeps, JoinKeeps,
       AnswerKeeps DEF Shims!Thread
  <1>2. CASE Shims!Processes
    BY <1>2, ForkKeeps, ExitKeeps, HandleStreamKeeps, ExceedKeeps, JoinKeeps
       DEF Shims!Processes
  <1>3. CASE UNCHANGED Shims!vars
    BY <1>3
       DEF Shims!vars, ShimInv, ShimTyped, PlacesCounted, WithPlace, WithSlot, EntriesOwned,
       ChildrenHeld, Families, LaunchesSettled, Settled, WalksUp, Of, CallersSettled,
       Leaked, Shims!Kind, Shims!CallerIsSpawner, Shims!CountsFor
  <1> QED  BY <1>1, <1>2, <1>3 DEF Shims!Next

\* ShimInv is an invariant of the broker, its shims and the processes around it.
THEOREM ShimInvariant == Shims!BrokerAssumption /\ Shims!Spec => []ShimInv
  BY ShimInit, ShimStep, PTL DEF Shims!Spec

\* However processes fork, exit, are reparented and their ids reused, also that of
\* the peer before the walk and that of the process the walk stands on: a request
\* counts for the launch that a process with one of those ids descends from (the
\* asking process itself unless its id was reused), or for the caller of a command
\* that invokes itself; no stale entry of the table names the caller.
THEOREM CallersAreSpawners == Shims!BrokerAssumption /\ Shims!Spec => []CallerIsSpawner
  <1>1. ShimInv => Shims!CallerIsSpawner
    BY DEF ShimInv, CallersSettled
  <1>9. Shims!CallerIsSpawner => CallerIsSpawner
    BY DEF CallerIsSpawner
  <1> QED  BY <1>9, <1>1, ShimInvariant, PTL

\* Whichever step of a launch fails and in whatever order requests end, once all
\* are answered no slot, no place in the queue and no entry of a gone command is
\* left, but for commands with brokered output whose status was lost.
THEOREM NoLeftovers == Shims!BrokerAssumption /\ Shims!Spec => []NothingLeftOver
  <1>1. ShimInv => Shims!NothingLeftOver
    <2> SUFFICES ASSUME ShimInv, \A r \in Requests : req[r].st \in {"idle", "answered"}
                 PROVE  /\ active = 0 /\ queued = 0
                        /\ \A p \in Pids : tracked[p] # Nobody =>
                              /\ kernel[tracked[p]].lost
                              /\ Shims!Kind[req[tracked[p]].cmd] = "limited"
      BY DEF Shims!NothingLeftOver
    <2>1. WithPlace = {} /\ WithSlot = {}
      BY DEF WithPlace, WithSlot, Shims!Waiting, Shims!Holding
    <2>2. active = 0 /\ queued = 0
      BY <2>1, ShimsEmptySet DEF ShimInv, PlacesCounted
    <2>3. \A p \in Pids : tracked[p] # Nobody =>
              kernel[tracked[p]].lost /\ Shims!Kind[req[tracked[p]].cmd] = "limited"
      <3>1. \A p \in Pids : tracked[p] # Nobody => tracked[p] \in Requests
        BY DEF ShimInv, ShimTyped
      <3> QED  BY <3>1 DEF ShimInv, EntriesOwned, Leaked
    <2> QED  BY <2>2, <2>3
  <1>9. Shims!NothingLeftOver => NothingLeftOver
    BY DEF NothingLeftOver
  <1> QED  BY <1>9, <1>1, ShimInvariant, PTL

-----------------------------------------------------------------------------
(* The limit on launched commands *)

InLaunch == Shims!Holding \ {"giveback"}
Launching == {r \in Requests : req[r].st \in InLaunch}
LimitKept == Shims!IsFiniteSet(Launching) /\ Shims!Cardinality(Launching) <= MaxActive

\* A step of r, which has a slot to launch with only if it had one before.
LEMMA LaunchesFewer ==
  ASSUME NEW r \in Requests, Touches(r), req'[r].st \in InLaunch => req[r].st \in InLaunch
  PROVE  Launching' \subseteq Launching
  BY DEF Touches, Launching

\* Only TakeSlot lets another request launch.
LEMMA OnlySlotsLaunch ==
  ASSUME ShimInv, Shims!Next, \A r \in Requests : ~Shims!TakeSlot(r)
  PROVE  Launching' \subseteq Launching
  <1>0. req \in [Requests -> Requested] /\ TreeInv
    BY DEF ShimInv, TreeInv, ShimTyped
  <1>1. CASE UNCHANGED req
    BY <1>1 DEF Launching
  <1>2. ASSUME NEW r \in Requests,
               Shims!Authenticate(r) \/ Shims!SelectPolicy(r) \/ Shims!InvocationPolicy(r) \/ Shims!Approve(r) \/ Shims!Act(r)
               \/ Shims!GiveBack(r) \/ Shims!Release(r)
        PROVE  Launching' \subseteq Launching
    <2>1. Touches(r) /\ req'[r].st \in {"walk", "closing", "invocation", "gate", "act", "slot"}
      BY <1>0, <1>2, SetSt, AskFacts, ConcludeFacts, FailFacts
         DEF Shims!Authenticate, Shims!SelectPolicy, Shims!InvocationPolicy, Shims!Approve,
         Shims!Act, Shims!GiveBack, Shims!Release, Shims!Waiting
    <2> QED  BY <2>1, LaunchesFewer DEF InLaunch, Shims!Holding
  <1>3. ASSUME NEW r \in Requests,
               Shims!Join(r) \/ Shims!RelayFails(r) \/ Shims!Wait(r) \/ Shims!Track(r) \/ Shims!Spawn(r) \/ Shims!Untrack(r)
        PROVE  Launching' \subseteq Launching
    <2>1. req[r].st \in InLaunch
      BY <1>3
         DEF Shims!Join, Shims!RelayFails, Shims!Wait, Shims!Track, Shims!Spawn, Shims!Untrack, InLaunch,
             Shims!Holding
    <2>2. \A q \in Requests \ {r} : req'[q] = req[q]
      BY <1>0, <1>3
         DEF Shims!Join, Shims!RelayFails, Shims!Wait, Shims!Track, Shims!Spawn, Shims!Untrack
    <2> QED  BY <2>1, <2>2 DEF Launching
  <1>4. ASSUME NEW r \in Requests, Shims!Answer(r) \/ Shims!Exceed(r)
        PROVE  Launching' \subseteq Launching
    <2>1. req'[r].st \in {req[r].st, "answered"} /\ \A q \in Requests \ {r} : req'[q] = req[q]
      BY <1>0, <1>4 DEF Shims!Answer, Shims!Exceed, Requested
    <2> QED  BY <2>1 DEF Launching, InLaunch, Shims!Holding
  <1>5. ASSUME NEW r \in Requests, Shims!Walk(r) PROVE Launching' \subseteq Launching
    <2>1. req[r].st = "walk"
      BY <1>5 DEF Shims!Walk
    <2>2. ~Settled(r)' \/ req'[r].st \in {"resolved", "closing"}
      <3>1. CASE Shims!Conclude(r, "error")
        BY <1>0, <3>1, ConcludeFacts
      <3>2. ASSUME NEW c, NEW s, Shims!Resolved(r, c, s) PROVE req'[r].st = "resolved"
        BY <1>0, <3>2 DEF Shims!Resolved, Requested
      <3>3. ASSUME NEW x, NEW y, req' = [req EXCEPT ![r].cur = x, ![r].steps = y]
            PROVE  req'[r].st = "walk"
        BY <1>0, <2>1, <3>3 DEF Requested
      <3> QED  BY <1>5, <3>1, <3>2, <3>3 DEF Shims!Walk, Shims!Severed, Settled
    <2>3. \A q \in Requests \ {r} : req'[q] = req[q]
      BY <1>0, <1>5 DEF Shims!Walk, Shims!Severed, Shims!Resolved, Shims!Conclude
    <2> QED  BY <2>2, <2>3 DEF Launching, InLaunch, Shims!Holding, Settled
  <1>6. ASSUME NEW p \in Pids, NEW r \in Requests, NEW k \in Commands, Shims!HandleStream(p, r, k)
        PROVE  Launching' \subseteq Launching
    <2>1. req'[r].st \in {"answered", "accepted"} /\ \A q \in Requests \ {r} : req'[q] = req[q]
      BY <1>0, <1>6 DEF Shims!HandleStream, Requested
    <2> QED  BY <2>1 DEF Launching, InLaunch, Shims!Holding
  <1>7. ASSUME NEW r \in Requests, Shims!Thread(r) PROVE Launching' \subseteq Launching
    BY <1>1, <1>2, <1>3, <1>4, <1>5, <1>7 DEF Shims!Thread, Shims!KillChild
  <1>8. CASE Shims!Processes
    BY <1>1, <1>3, <1>4, <1>6, <1>8 DEF Shims!Processes, Shims!ForkSession, Shims!Fork, Shims!Exit
  <1> QED  BY <1>7, <1>8 DEF Shims!Next

LEMMA LimitStep == ShimInv /\ ShimInv' /\ LimitKept /\ [Shims!Next]_(Shims!vars) => LimitKept'
  <1> SUFFICES ASSUME ShimInv, ShimInv', LimitKept, [Shims!Next]_(Shims!vars) PROVE LimitKept'
    OBVIOUS
  <1>0. MaxActive \in Nat
    BY DEF ShimInv, ShimTyped, Shims!BrokerAssumption
  <1>1. ASSUME Launching' \subseteq Launching PROVE LimitKept'
    <2>1. /\ Shims!IsFiniteSet(Launching')
          /\ Shims!Cardinality(Launching') <= Shims!Cardinality(Launching)
      BY <1>1, ShimsSubset DEF LimitKept
    <2>2. Shims!Cardinality(Launching) \in Nat /\ Shims!Cardinality(Launching') \in Nat
      BY <2>1, ShimsCardinalityType DEF LimitKept
    <2> QED  BY <1>0, <2>1, <2>2 DEF LimitKept
  <1>2. ASSUME NEW r \in Requests, Shims!TakeSlot(r) PROVE LimitKept'
    <2>0. req \in [Requests -> Requested] /\ PlacesCounted /\ PlacesCounted'
      BY ShimInvParts DEF ShimInv
    <2>1. Touches(r) /\ req'[r].st = IF active >= MaxActive THEN "giveback" ELSE "launch"
      BY <1>2, <2>0, SetSt DEF Shims!TakeSlot, Shims!Waiting
    <2>2. CASE active >= MaxActive
      BY <1>1, <2>1, <2>2, LaunchesFewer DEF InLaunch
    <2>3. CASE ~(active >= MaxActive)
      <3>1. Launching' \subseteq WithSlot'
        BY DEF Launching, WithSlot, InLaunch
      <3>2. /\ /\ Shims!IsFiniteSet(Launching')
            /\ Shims!Cardinality(Launching') <= Shims!Cardinality(WithSlot')
        BY <2>0, <3>1, ShimsSubset DEF PlacesCounted
      <3>3. /\ active' = Shims!Cardinality(WithSlot')
            /\ active' = active + 1
            /\ active = Shims!Cardinality(WithSlot)
        BY <1>2, <2>0 DEF PlacesCounted, Shims!TakeSlot
      <3>4. active \in Nat /\ Shims!Cardinality(Launching') \in Nat
        BY <2>0, <3>2, <3>3, ShimsCardinalityType DEF PlacesCounted
      <3> QED  BY <1>0, <2>3, <3>2, <3>3, <3>4 DEF LimitKept
    <2> QED  BY <2>2, <2>3
  <1>3. CASE UNCHANGED Shims!vars
    BY <1>1, <1>3 DEF Shims!vars, Launching
  <1> QED  BY <1>1, <1>2, <1>3, OnlySlotsLaunch

\* No more commands run at a time than the session was configured to launch,
\* however many requests race for the last slot.
THEOREM LaunchesLimited == Shims!BrokerAssumption /\ Shims!Spec => []Shims!LaunchedWithinLimit
  <1>1. Shims!BrokerAssumption /\ Shims!Init => LimitKept
    <2> SUFFICES ASSUME Shims!BrokerAssumption, Shims!Init PROVE LimitKept
      OBVIOUS
    <2>1. Launching = {}
      BY DEF Shims!Init, Launching, Shims!Fresh, InLaunch, Shims!Holding
    <2> QED  BY <2>1, ShimsEmptySet DEF LimitKept, Shims!BrokerAssumption
  <1>2. ShimInv /\ LimitKept => Shims!LaunchedWithinLimit
    <2> SUFFICES ASSUME ShimInv, LimitKept PROVE Shims!LaunchedWithinLimit
      OBVIOUS
    <2> DEFINE S == {r \in Requests : req[r].st \in {"spawned", "running"}}
    <2>1. S \subseteq Launching
      BY DEF Launching, InLaunch, Shims!Holding
    <2>2. Shims!IsFiniteSet(S) /\ Shims!Cardinality(S) <= Shims!Cardinality(Launching)
      BY <2>1, ShimsSubset DEF LimitKept
    <2>3. Shims!Cardinality(S) \in Nat /\ Shims!Cardinality(Launching) \in Nat
      BY <2>2, ShimsCardinalityType DEF LimitKept
    <2>4. MaxActive \in Nat
      BY DEF ShimInv, ShimTyped, Shims!BrokerAssumption
    <2> QED  BY <2>2, <2>3, <2>4 DEF LimitKept, Shims!LaunchedWithinLimit
  <1> QED  BY <1>1, <1>2, LimitStep, ShimInvariant, PTL DEF Shims!Spec
=============================================================================
