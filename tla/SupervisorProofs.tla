-------------------------- MODULE SupervisorProofs --------------------------
(***************************************************************************)
(* Proofs about Supervisor, for every choice of names, objects, policy     *)
(* sets and bounds.                                                        *)
(***************************************************************************)
EXTENDS Supervisor, TLAPS

NotifSteps == {"first_check", "canonicalize", "policy", "exists", "gates",
               "second_check"}
IpcSteps == {"ipc_protected", "ipc_denied", "ipc_refuse"}
OpenedSteps == {"recheck", "inject"}

\* What the request in hand looks like at each step of the handlers.
WorkOK ==
    /\ work.pc \notin {"poll", "left"} => work.src \in Sources /\ work.name \in Names
    /\ work.pc \in NotifSteps => work.src = "notif"
    /\ work.pc \in IpcSteps => work.src = "ipc"
    /\ work.src = "notif" => work.id \in Ids
    /\ work.src = "ipc" => work.id \in RequestIds
    /\ work.pc \in OpenedSteps => work.canon \in Objects
    /\ work.pc \in OpenedSteps \cup {"open"} => work.how # "none"
    /\ work.pc = "inject" => work.content \in Contents
    /\ work.pc = "trust_store" => work.digest \in Digests

\* Metadata stamps count rewrites.
StampsBounded == \A o \in Objects : file[o].stamp <= used.rewrites

TypeInv == TypeOK /\ WorkOK /\ StampsBounded

\* The initial states satisfy the type invariant.
LEMMA InitTypeInv == Init => TypeInv
  <1> SUFFICES ASSUME Init PROVE TypeInv
    OBVIOUS
  <1> USE SupervisorConstants
  <1>1. TypeOK
    BY DEF Init, TypeOK, Idle, NoContent, NoEntry, Contents, Sources, Access, Steps,
           Targets, Ids, Works, Entries, Bounds
  <1>2. WorkOK
    BY DEF Init, WorkOK, Idle, NotifSteps, IpcSteps, OpenedSteps
  <1>3. StampsBounded
    BY DEF Init, StampsBounded
  <1> QED BY <1>1, <1>2, <1>3 DEF TypeInv

\* The bounds on the environment's moves are natural numbers.
LEMMA BoundsAreNat ==
    /\ Burst \in Nat /\ MaxNotifications \in Nat /\ MaxRequests \in Nat
    /\ MaxRefills \in Nat /\ MaxRelinks \in Nat /\ MaxRewrites \in Nat
    /\ MaxAuditFailures \in Nat
  BY SupervisorConstants

\* So are the counts of the moves already used.
LEMMA UsedAreNat ==
  ASSUME used \in Bounds
  PROVE  /\ used.relinks \in Nat /\ used.rewrites \in Nat /\ used.requests \in Nat
         /\ used.refills \in Nat /\ used.failures \in Nat
  BY BoundsAreNat DEF Bounds

\* Counting up one of the bounds keeps the others.
LEMMA CountUp ==
  ASSUME NEW u \in Bounds, NEW n
  PROVE  /\ n \in 0 .. MaxRelinks =>
              /\ [u EXCEPT !.relinks = n] \in Bounds
              /\ [u EXCEPT !.relinks = n].rewrites = u.rewrites
         /\ n \in 0 .. MaxRewrites =>
              /\ [u EXCEPT !.rewrites = n] \in Bounds
              /\ [u EXCEPT !.rewrites = n].rewrites = n
         /\ n \in 0 .. MaxRequests =>
              /\ [u EXCEPT !.requests = n] \in Bounds
              /\ [u EXCEPT !.requests = n].rewrites = u.rewrites
         /\ n \in 0 .. MaxRefills =>
              /\ [u EXCEPT !.refills = n] \in Bounds
              /\ [u EXCEPT !.refills = n].rewrites = u.rewrites
         /\ n \in 0 .. MaxAuditFailures =>
              /\ [u EXCEPT !.failures = n] \in Bounds
              /\ [u EXCEPT !.failures = n].rewrites = u.rewrites
  BY BoundsAreNat DEF Bounds

\* The child's steps keep the type invariant.
LEMMA ChildTypeInv == ASSUME TypeInv, ChildStep PROVE TypeInv'
  <1> USE DEF TypeInv
  <1>1. ASSUME NEW n \in Names, NEW o \in Objects \cup {Missing}, Relink(n, o)
        PROVE TypeInv'
    <2> DEFINE k == used.relinks + 1
    <2>0. k \in 0 .. MaxRelinks
      <3>1. used \in Bounds
        BY DEF TypeOK
      <3>2. used.relinks \in Nat /\ MaxRelinks \in Nat
        BY <3>1, UsedAreNat, BoundsAreNat
      <3>3. used.relinks < MaxRelinks
        BY <1>1 DEF Relink
      <3> QED BY <3>2, <3>3
    <2>1. used' \in Bounds /\ used'.rewrites = used.rewrites
      <3>1. used' = [used EXCEPT !.relinks = k]
        BY <1>1 DEF Relink
      <3> HIDE DEF k
      <3> QED BY <3>1, <2>0, CountUp DEF TypeOK
    <2> QED BY <1>1, <2>1 DEF Relink, TypeOK, WorkOK, StampsBounded, Targets
  <1>2. ASSUME NEW o \in Objects, NEW d \in Digests, Rewrite(o, d) PROVE TypeInv'
    <2> DEFINE k == used.rewrites + 1
    <2>0. k \in 0 .. MaxRewrites /\ used.rewrites \in Nat
      <3>1. used \in Bounds
        BY DEF TypeOK
      <3>2. used.rewrites \in Nat /\ MaxRewrites \in Nat
        BY <3>1, UsedAreNat, BoundsAreNat
      <3>3. used.rewrites < MaxRewrites
        BY <1>2 DEF Rewrite
      <3> QED BY <3>2, <3>3
    <2>1. used' \in Bounds /\ used'.rewrites = used.rewrites + 1 /\ used.rewrites \in Nat
      <3>1. used' = [used EXCEPT !.rewrites = k]
        BY <1>2 DEF Rewrite
      <3>2. used' \in Bounds /\ used'.rewrites = k
        <4> HIDE DEF k
        <4> QED BY <3>1, <2>0, CountUp DEF TypeOK
      <3> QED BY <3>2, <2>0
    <2>2. /\ file[o].stamp \in Nat /\ file[o].stamp <= used.rewrites
          /\ used.rewrites < MaxRewrites
      <3>1. file[o] \in Contents
        BY DEF TypeOK
      <3>2. file[o].stamp \in Nat
        BY <3>1, BoundsAreNat DEF Contents
      <3> QED BY <1>2, <3>2 DEF Rewrite, StampsBounded
    <2> DEFINE c == [digest |-> d, stamp |-> file[o].stamp + 1]
    <2>3. c \in Contents /\ c.stamp <= used'.rewrites
      BY <2>1, <2>2, BoundsAreNat DEF Contents
    <2>4. file' = [file EXCEPT ![o] = c]
      BY <1>2 DEF Rewrite
    <2> HIDE DEF c
    <2>5. file' \in [Objects -> Contents] /\ StampsBounded'
      <3>1. file' \in [Objects -> Contents]
        BY <2>3, <2>4 DEF TypeOK
      <3>2. ASSUME NEW x \in Objects PROVE file'[x].stamp <= used'.rewrites
        <4>1. CASE x = o
          BY <4>1, <2>3, <2>4 DEF TypeOK
        <4>2. CASE x # o
          <5>1. file'[x] = file[x] /\ file[x].stamp \in Nat /\ file[x].stamp <= used.rewrites
            BY <4>2, <2>4 DEF TypeOK, StampsBounded, Contents
          <5> QED BY <5>1, <2>1
        <4> QED BY <4>1, <4>2
      <3> QED BY <3>1, <3>2 DEF StampsBounded
    <2> QED BY <1>2, <2>1, <2>5 DEF Rewrite, TypeOK, WorkOK
  <1>3. ASSUME NEW i \in Ids, Openat(i) \/ Interrupt(i) PROVE TypeInv'
    <2>1. notif' \in [Ids -> {"unused", "pending", "received", "done", "gone"}]
      BY <1>3 DEF Openat, Interrupt, TypeOK
    <2> QED BY <1>3, <2>1 DEF Openat, Interrupt, TypeOK, WorkOK, StampsBounded, child
  <1>4. ASSUME NEW r \in RequestIds, NEW n \in Names, NEW a \in Access, SendRequest(r, n, a)
        PROVE TypeInv'
    <2> DEFINE k == used.requests + 1
    <2>0. k \in 0 .. MaxRequests
      <3>1. used \in Bounds
        BY DEF TypeOK
      <3>2. used.requests \in Nat /\ MaxRequests \in Nat
        BY <3>1, UsedAreNat, BoundsAreNat
      <3>3. used.requests < MaxRequests
        BY <1>4 DEF SendRequest
      <3> QED BY <3>2, <3>3
    <2>1. used' \in Bounds /\ used'.rewrites = used.rewrites
      <3>1. used' = [used EXCEPT !.requests = k]
        BY <1>4 DEF SendRequest
      <3> HIDE DEF k
      <3> QED BY <3>1, <2>0, CountUp DEF TypeOK
    <2>2. inbox' \in Seq(Requests)
      BY <1>4 DEF SendRequest, TypeOK, Requests
    <2> QED BY <1>4, <2>1, <2>2 DEF SendRequest, TypeOK, WorkOK, StampsBounded, child
  <1> QED BY <1>1, <1>2, <1>3, <1>4 DEF ChildStep

-----------------------------------------------------------------------------
(* What the helpers of the handlers keep. *)

NotifStates == {"unused", "pending", "received", "done", "gone"}

\* The idle value is a value of the work record.
LEMMA IdleIsWork == Idle \in Works
  BY SupervisorConstants
     DEF Idle, Works, NoContent, Steps, Sources, Access, Targets

\* Going idle keeps the work record well typed.
LEMMA IdleTyped == ASSUME work' = Idle PROVE work' \in Works /\ WorkOK'
  <1>1. work' \in Works
    BY IdleIsWork
  <1>2. work'.pc = "poll" /\ work'.src = "none"
    BY DEF Idle
  <1> QED BY <1>1, <1>2 DEF WorkOK, NotifSteps, IpcSteps, OpenedSteps

\* Answering a notification keeps the states of notifications.
LEMMA RespondTyped ==
  ASSUME notif \in [Ids -> NotifStates]
  PROVE  Respond \in [Ids -> NotifStates]
  <1>1. CASE work.id \in Ids
    BY <1>1 DEF Respond, NotifStates
  <1>2. CASE work.id \notin Ids
    <2>1. [notif EXCEPT ![work.id] = "done"] = notif
      BY <1>2
    <2> QED BY <2>1 DEF Respond
  <1> QED BY <1>1, <1>2

\* Appending an element of S keeps a sequence over S.
LEMMA AppendTyped ==
  ASSUME NEW S, NEW s \in Seq(S), NEW e \in S
  PROVE  Append(s, e) \in Seq(S)
  OBVIOUS

\* A decision on a request is a message.
LEMMA DecisionTyped ==
  ASSUME TypeInv, work.src = "ipc", NEW g \in BOOLEAN
  PROVE  Decision(g) \in Messages
  BY DEF TypeInv, WorkOK, Decision, Messages

\* Refuse keeps the type invariant.
LEMMA RefuseTyped ==
  ASSUME TypeInv, work.pc \notin {"poll", "left"}, Refuse
  PROVE  /\ work' \in Works /\ WorkOK'
         /\ notif' \in [Ids -> NotifStates] /\ out' \in Seq(Messages)
  <1>1. work' \in Works /\ WorkOK'
    BY IdleTyped DEF Refuse
  <1>2. notif \in [Ids -> NotifStates] /\ out \in Seq(Messages)
    BY DEF TypeInv, TypeOK, NotifStates
  <1>3. CASE work.src = "notif"
    BY <1>1, <1>2, <1>3, RespondTyped DEF Refuse
  <1>4. CASE work.src # "notif"
    <2>1. work.src = "ipc"
      BY <1>4 DEF TypeInv, WorkOK, Sources
    <2>2. Decision(FALSE) \in Messages
      BY <2>1, DecisionTyped
    <2>3. out' = Append(out, Decision(FALSE)) /\ notif' = notif
      BY <1>4 DEF Refuse
    <2>4. out' \in Seq(Messages)
      BY <1>2, <2>2, <2>3, AppendTyped
    <2> QED BY <1>1, <1>2, <2>3, <2>4
  <1> QED BY <1>3, <1>4

\* A step that leaves everything but the request in hand, the notifications
\* and the answers alone.
LEMMA FrameTyped ==
  ASSUME TypeInv,
         work' \in Works, WorkOK',
         notif' \in [Ids -> NotifStates], out' \in Seq(Messages),
         inbox' \in Seq(Requests), tokens' \in 0 .. Burst,
         cache' \in [Names -> Entries], seen' \subseteq RequestIds,
         audit' \subseteq Records, fds' \subseteq Descriptors,
         prompts' \in [notif : Nat, ipc : Nat], used' \in Bounds,
         used'.rewrites = used.rewrites, UNCHANGED child
  PROVE  TypeInv'
  <1>1. TypeOK'
    BY DEF TypeInv, TypeOK, NotifStates, child
  <1>2. StampsBounded'
    BY DEF TypeInv, StampsBounded, child
  <1> QED BY <1>1, <1>2 DEF TypeInv

\* The type invariant, variable by variable.
LEMMA UnchangedTyped ==
  ASSUME TypeInv
  PROVE  /\ work \in Works /\ WorkOK
         /\ notif \in [Ids -> NotifStates] /\ out \in Seq(Messages)
         /\ inbox \in Seq(Requests) /\ tokens \in 0 .. Burst
         /\ cache \in [Names -> Entries] /\ seen \subseteq RequestIds
         /\ audit \subseteq Records /\ fds \subseteq Descriptors
         /\ prompts \in [notif : Nat, ipc : Nat] /\ used \in Bounds
  BY DEF TypeInv, TypeOK, NotifStates

\* The fields of the request in hand.
LEMMA WorkFields ==
  ASSUME work \in Works
  PROVE  /\ work.pc \in Steps /\ work.src \in Sources \cup {"none"}
         /\ work.id \in Ids \cup RequestIds \cup {0} /\ work.name \in Names \cup {Missing}
         /\ work.access \in Access /\ work.canon \in Targets
         /\ work.digest \in Digests \cup {Missing} /\ work.granted \in BOOLEAN
         /\ work.content \in Contents \cup {NoContent}
         /\ work.how \in {"none", "initial", "comm", "approved"}
  BY DEF Works

\* Goto changes the step only.
LEMMA GotoTyped ==
  ASSUME work \in Works, NEW pc \in Steps
  PROVE  /\ Goto(pc) \in Works /\ Goto(pc).pc = pc /\ Goto(pc).src = work.src
         /\ Goto(pc).id = work.id /\ Goto(pc).name = work.name
         /\ Goto(pc).access = work.access /\ Goto(pc).canon = work.canon
         /\ Goto(pc).digest = work.digest /\ Goto(pc).granted = work.granted
         /\ Goto(pc).content = work.content /\ Goto(pc).how = work.how
  BY DEF Works, Goto

\* Updates of the request in hand: they keep its type and change only the
\* fields they name.
SetAccess(pc, a) == [work EXCEPT !.pc = pc, !.access = a]
\* SetAccess yields a work record.
LEMMA SetAccessTyped ==
  ASSUME work \in Works, NEW pc \in Steps, NEW a \in Access
  PROVE  /\ SetAccess(pc, a) \in Works
         /\ SetAccess(pc, a).pc = pc /\ SetAccess(pc, a).src = work.src
         /\ SetAccess(pc, a).id = work.id /\ SetAccess(pc, a).name = work.name
         /\ SetAccess(pc, a).access = a /\ SetAccess(pc, a).canon = work.canon
         /\ SetAccess(pc, a).digest = work.digest /\ SetAccess(pc, a).granted = work.granted
         /\ SetAccess(pc, a).content = work.content /\ SetAccess(pc, a).how = work.how
  BY DEF Works, SetAccess

SetCanon(pc, o) == [work EXCEPT !.pc = pc, !.canon = o]
\* SetCanon yields a work record.
LEMMA SetCanonTyped ==
  ASSUME work \in Works, NEW pc \in Steps, NEW o \in Targets
  PROVE  /\ SetCanon(pc, o) \in Works
         /\ SetCanon(pc, o).pc = pc /\ SetCanon(pc, o).src = work.src
         /\ SetCanon(pc, o).id = work.id /\ SetCanon(pc, o).name = work.name
         /\ SetCanon(pc, o).access = work.access /\ SetCanon(pc, o).canon = o
         /\ SetCanon(pc, o).digest = work.digest /\ SetCanon(pc, o).granted = work.granted
         /\ SetCanon(pc, o).content = work.content /\ SetCanon(pc, o).how = work.how
  BY DEF Works, SetCanon

SetHow(pc, h) == [work EXCEPT !.pc = pc, !.how = h]
\* SetHow yields a work record.
LEMMA SetHowTyped ==
  ASSUME work \in Works, NEW pc \in Steps, NEW h \in {"initial", "comm", "approved"}
  PROVE  /\ SetHow(pc, h) \in Works
         /\ SetHow(pc, h).pc = pc /\ SetHow(pc, h).src = work.src
         /\ SetHow(pc, h).id = work.id /\ SetHow(pc, h).name = work.name
         /\ SetHow(pc, h).access = work.access /\ SetHow(pc, h).canon = work.canon
         /\ SetHow(pc, h).digest = work.digest /\ SetHow(pc, h).granted = work.granted
         /\ SetHow(pc, h).content = work.content /\ SetHow(pc, h).how = h
  BY ZenonT(30) DEF Works, SetHow

SetHowContent(pc, h, c) == [work EXCEPT !.pc = pc, !.how = h, !.content = c]
\* SetHowContent yields a work record.
LEMMA SetHowContentTyped ==
  ASSUME work \in Works, NEW pc \in Steps, NEW h \in {"initial", "comm", "approved"},
         NEW c \in Contents
  PROVE  /\ SetHowContent(pc, h, c) \in Works
         /\ SetHowContent(pc, h, c).pc = pc /\ SetHowContent(pc, h, c).src = work.src
         /\ SetHowContent(pc, h, c).id = work.id /\ SetHowContent(pc, h, c).name = work.name
         /\ SetHowContent(pc, h, c).access = work.access /\ SetHowContent(pc, h, c).canon = work.canon
         /\ SetHowContent(pc, h, c).digest = work.digest /\ SetHowContent(pc, h, c).granted = work.granted
         /\ SetHowContent(pc, h, c).content = c /\ SetHowContent(pc, h, c).how = h
  BY ZenonT(30) DEF Works, SetHowContent

SetContent(pc, c) == [work EXCEPT !.pc = pc, !.content = c]
\* SetContent yields a work record.
LEMMA SetContentTyped ==
  ASSUME work \in Works, NEW pc \in Steps, NEW c \in Contents
  PROVE  /\ SetContent(pc, c) \in Works
         /\ SetContent(pc, c).pc = pc /\ SetContent(pc, c).src = work.src
         /\ SetContent(pc, c).id = work.id /\ SetContent(pc, c).name = work.name
         /\ SetContent(pc, c).access = work.access /\ SetContent(pc, c).canon = work.canon
         /\ SetContent(pc, c).digest = work.digest /\ SetContent(pc, c).granted = work.granted
         /\ SetContent(pc, c).content = c /\ SetContent(pc, c).how = work.how
  BY DEF Works, SetContent

SetDigest(pc, d) == [work EXCEPT !.pc = pc, !.digest = d]
\* SetDigest yields a work record.
LEMMA SetDigestTyped ==
  ASSUME work \in Works, NEW pc \in Steps, NEW d \in Digests \cup {Missing}
  PROVE  /\ SetDigest(pc, d) \in Works
         /\ SetDigest(pc, d).pc = pc /\ SetDigest(pc, d).src = work.src
         /\ SetDigest(pc, d).id = work.id /\ SetDigest(pc, d).name = work.name
         /\ SetDigest(pc, d).access = work.access /\ SetDigest(pc, d).canon = work.canon
         /\ SetDigest(pc, d).digest = d /\ SetDigest(pc, d).granted = work.granted
         /\ SetDigest(pc, d).content = work.content /\ SetDigest(pc, d).how = work.how
  BY DEF Works, SetDigest

SetGranted(pc, g) == [work EXCEPT !.pc = pc, !.granted = g]
\* SetGranted yields a work record.
LEMMA SetGrantedTyped ==
  ASSUME work \in Works, NEW pc \in Steps, NEW g \in BOOLEAN
  PROVE  /\ SetGranted(pc, g) \in Works
         /\ SetGranted(pc, g).pc = pc /\ SetGranted(pc, g).src = work.src
         /\ SetGranted(pc, g).id = work.id /\ SetGranted(pc, g).name = work.name
         /\ SetGranted(pc, g).access = work.access /\ SetGranted(pc, g).canon = work.canon
         /\ SetGranted(pc, g).digest = work.digest /\ SetGranted(pc, g).granted = g
         /\ SetGranted(pc, g).content = work.content /\ SetGranted(pc, g).how = work.how
  BY DEF Works, SetGranted

\* A request freshly taken in.
TakenNotif(i, n) == [Idle EXCEPT !.pc = "first_check", !.src = "notif", !.id = i, !.name = n]
\* Taking a notification yields a work record at the first check.
LEMMA TakenNotifTyped ==
  ASSUME NEW i \in Ids, NEW n \in Names
  PROVE  /\ TakenNotif(i, n) \in Works
         /\ TakenNotif(i, n).pc = "first_check" /\ TakenNotif(i, n).src = "notif"
         /\ TakenNotif(i, n).id = i /\ TakenNotif(i, n).name = n
  BY SupervisorConstants
     DEF TakenNotif, Works, Idle, NoContent, Targets, Sources, Steps, Access

TakenRequest(pc, r) == [pc |-> pc, src |-> "ipc", id |-> r.rid, name |-> r.name,
                        access |-> r.access, canon |-> Missing, digest |-> Missing,
                        granted |-> FALSE, content |-> NoContent, how |-> "none"]
\* Taking a request yields a work record for it.
LEMMA TakenRequestTyped ==
  ASSUME NEW r \in Requests, NEW pc \in Steps
  PROVE  /\ TakenRequest(pc, r) \in Works
         /\ TakenRequest(pc, r).pc = pc /\ TakenRequest(pc, r).src = "ipc"
         /\ TakenRequest(pc, r).id = r.rid /\ TakenRequest(pc, r).name = r.name
  BY DEF TakenRequest, Works, Requests, NoContent, Targets, Sources

-----------------------------------------------------------------------------
(* The supervisor's steps keep the types. *)

\* RecvNotif keeps the type invariant.
LEMMA RecvNotifTyped ==
  ASSUME TypeInv, NEW i \in Ids, NEW n \in Names, RecvNotif(i, n) PROVE TypeInv'
  <1>1. notif' \in [Ids -> NotifStates]
    BY UnchangedTyped DEF RecvNotif, NotifStates
  <1>2. work' \in Works /\ WorkOK'
    <2>1. CASE UNCHANGED work
      BY <2>1, UnchangedTyped DEF WorkOK
    <2>2. CASE work' = [Idle EXCEPT !.pc = "first_check", !.src = "notif", !.id = i,
                                    !.name = n]
      <3>1. work' = TakenNotif(i, n)
        BY <2>2 DEF TakenNotif
      <3>2. /\ work' \in Works
            /\ work'.pc = "first_check" /\ work'.src = "notif" /\ work'.id = i
            /\ work'.name = n
        BY <3>1, TakenNotifTyped
      <3> QED BY <3>2 DEF WorkOK, NotifSteps, IpcSteps, OpenedSteps, Sources
    <2> QED BY <2>1, <2>2 DEF RecvNotif
  <1> QED BY <1>1, <1>2, UnchangedTyped, FrameTyped DEF RecvNotif

\* FirstCheck keeps the type invariant.
LEMMA FirstCheckTyped ==
  ASSUME TypeInv, NEW a \in Access, FirstCheck(a) PROVE TypeInv'
  <1>0. work.pc = "first_check"
    BY DEF FirstCheck, At
  <1>1. /\ work' \in Works /\ WorkOK'
        /\ notif' \in [Ids -> NotifStates] /\ out' \in Seq(Messages)
    <2>1. CASE Refuse
      BY <1>0, <2>1, RefuseTyped
    <2>2. CASE work' = Idle /\ UNCHANGED <<notif, out>>
      BY <2>2, IdleTyped, UnchangedTyped
    <2>3. CASE work' = [work EXCEPT !.pc = "canonicalize", !.access = a]
               /\ UNCHANGED <<notif, out>>
      <3>0. work' = SetAccess("canonicalize", a)
        BY <2>3 DEF SetAccess
      <3>1. /\ work' \in Works /\ work'.pc = "canonicalize"
            /\ work'.src = work.src /\ work'.id = work.id /\ work'.name = work.name
        BY <3>0, SetAccessTyped, UnchangedTyped DEF Steps
      <3>2. WorkOK'
        BY <1>0, <3>1, UnchangedTyped DEF WorkOK, NotifSteps, IpcSteps, OpenedSteps
      <3> QED BY <2>3, <3>1, <3>2, UnchangedTyped
    <2> QED BY <2>1, <2>2, <2>3 DEF FirstCheck
  <1> QED BY <1>1, UnchangedTyped, FrameTyped DEF FirstCheck

\* Canonicalize keeps the type invariant.
LEMMA CanonicalizeTyped == ASSUME TypeInv, Canonicalize PROVE TypeInv'
  <1>0. work.pc = "canonicalize"
    BY DEF Canonicalize, At
  <1>1. work.name \in Names
    BY <1>0, UnchangedTyped DEF WorkOK
  <1>2. link[work.name] \in Targets
    BY <1>1 DEF TypeInv, TypeOK
  <1>2a. work' = SetCanon("policy", link[work.name])
    BY DEF Canonicalize, SetCanon
  <1>3. /\ work' \in Works /\ work'.pc = "policy"
        /\ work'.src = work.src /\ work'.id = work.id /\ work'.name = work.name
    BY <1>2, <1>2a, SetCanonTyped, UnchangedTyped DEF Steps
  <1>4. WorkOK'
    BY <1>0, <1>3, UnchangedTyped DEF WorkOK, NotifSteps, IpcSteps, OpenedSteps
  <1> QED BY <1>3, <1>4, UnchangedTyped, FrameTyped DEF Canonicalize

\* Continue keeps the type invariant.
LEMMA ContinueTyped ==
  ASSUME TypeInv, ContinueIfValid
  PROVE  /\ work' \in Works /\ WorkOK'
         /\ notif' \in [Ids -> NotifStates] /\ out' \in Seq(Messages)
  BY IdleTyped, RespondTyped, UnchangedTyped DEF ContinueIfValid

\* PolicyCheck keeps the type invariant.
LEMMA PolicyCheckTyped == ASSUME TypeInv, PolicyCheck PROVE TypeInv'
  <1>0. work.pc = "policy"
    BY DEF PolicyCheck, At
  <1>1. /\ work' \in Works /\ WorkOK'
        /\ notif' \in [Ids -> NotifStates] /\ out' \in Seq(Messages)
    <2>1. CASE Refuse
      BY <1>0, <2>1, RefuseTyped
    <2>2. CASE ContinueIfValid
      BY <2>2, ContinueTyped
    <2>3. CASE /\ work.canon \in CommObjs
               /\ work' = [work EXCEPT !.pc = "inject", !.how = "comm",
                                       !.content = file[work.canon]]
               /\ UNCHANGED <<notif, out>>
      <3>1. work.canon \in Objects
        BY <2>3, SupervisorConstants
      <3>2. file[work.canon] \in Contents
        BY <3>1 DEF TypeInv, TypeOK
      <3>3. work' = SetHowContent("inject", "comm", file[work.canon])
        BY <2>3 DEF SetHowContent
      <3>4. /\ work' \in Works /\ work'.pc = "inject" /\ work'.canon = work.canon
            /\ work'.src = work.src /\ work'.id = work.id /\ work'.name = work.name
            /\ work'.how = "comm" /\ work'.content = file[work.canon]
        BY <3>2, <3>3, SetHowContentTyped, UnchangedTyped DEF Steps
      <3>5. WorkOK'
        BY <1>0, <3>1, <3>2, <3>4, UnchangedTyped DEF WorkOK, NotifSteps, IpcSteps, OpenedSteps
      <3> QED BY <2>3, <3>4, <3>5, UnchangedTyped
    <2>4. CASE /\ work' = [work EXCEPT !.pc = "open", !.how = "initial"]
               /\ UNCHANGED <<notif, out>>
      <3>1. work' = SetHow("open", "initial")
        BY <2>4 DEF SetHow
      <3>2. /\ work' \in Works /\ work'.pc = "open" /\ work'.how = "initial"
            /\ work'.src = work.src /\ work'.id = work.id /\ work'.name = work.name
        BY <3>1, SetHowTyped, UnchangedTyped DEF Steps
      <3>3. WorkOK'
        BY <1>0, <3>2, UnchangedTyped DEF WorkOK, NotifSteps, IpcSteps, OpenedSteps
      <3> QED BY <2>4, <3>2, <3>3, UnchangedTyped
    <2>5. CASE work' = Goto("exists") /\ UNCHANGED <<notif, out>>
      <3>1. /\ work' \in Works /\ work'.pc = "exists"
            /\ work'.src = work.src /\ work'.id = work.id /\ work'.name = work.name
        BY <2>5, GotoTyped, UnchangedTyped DEF Steps
      <3>2. WorkOK'
        BY <1>0, <3>1, UnchangedTyped DEF WorkOK, NotifSteps, IpcSteps, OpenedSteps
      <3> QED BY <2>5, <3>1, <3>2, UnchangedTyped
    <2> QED BY <2>1, <2>2, <2>3, <2>4, <2>5 DEF PolicyCheck
  <1> QED BY <1>1, UnchangedTyped, FrameTyped DEF PolicyCheck

\* ExistsCheck keeps the type invariant.
LEMMA ExistsCheckTyped == ASSUME TypeInv, ExistsCheck PROVE TypeInv'
  <1>0. work.pc = "exists"
    BY DEF ExistsCheck, At
  <1>1. /\ work' \in Works /\ WorkOK'
        /\ notif' \in [Ids -> NotifStates] /\ out' \in Seq(Messages)
    <2>1. CASE ContinueIfValid
      BY <2>1, ContinueTyped
    <2>2. CASE work' = Goto("gates") /\ UNCHANGED <<notif, out>>
      <3>1. /\ work' \in Works /\ work'.pc = "gates"
            /\ work'.src = work.src /\ work'.id = work.id /\ work'.name = work.name
        BY <2>2, GotoTyped, UnchangedTyped DEF Steps
      <3>2. WorkOK'
        BY <1>0, <3>1, UnchangedTyped DEF WorkOK, NotifSteps, IpcSteps, OpenedSteps
      <3> QED BY <2>2, <3>1, <3>2, UnchangedTyped
    <2> QED BY <2>1, <2>2 DEF ExistsCheck
  <1> QED BY <1>1, UnchangedTyped, FrameTyped DEF ExistsCheck

\* A refill keeps the bucket within its burst.
LEMMA RefillTyped ==
  ASSUME tokens \in 0 .. Burst, NEW k \in Nat
  PROVE  Refill(k) \in 0 .. Burst
  BY BoundsAreNat DEF Refill

\* Gates keeps the type invariant.
LEMMA GatesTyped ==
  ASSUME TypeInv, NEW k \in 0 .. MaxRefills, Gates(k) PROVE TypeInv'
  <1>0. work.pc = "gates"
    BY DEF Gates, At
  <1>k. k \in Nat
    BY BoundsAreNat
  <1>1. /\ work' \in Works /\ WorkOK'
        /\ notif' \in [Ids -> NotifStates] /\ out' \in Seq(Messages)
    <2>1. CASE Refuse
      BY <1>0, <2>1, RefuseTyped
    <2>2. CASE work' = Goto("trust") /\ UNCHANGED <<notif, out>>
      <3>1. /\ work' \in Works /\ work'.pc = "trust"
            /\ work'.src = work.src /\ work'.id = work.id /\ work'.name = work.name
        BY <2>2, GotoTyped, UnchangedTyped DEF Steps
      <3>2. WorkOK'
        BY <1>0, <3>1, UnchangedTyped DEF WorkOK, NotifSteps, IpcSteps, OpenedSteps
      <3> QED BY <2>2, <3>1, <3>2, UnchangedTyped
    <2> QED BY <2>1, <2>2 DEF Gates
  <1>2. tokens' \in 0 .. Burst
    <2>1. tokens' \in {tokens, Refill(k) - 1, 0} /\ (tokens' = Refill(k) - 1 => Refill(k) > 0
                                                      \/ tokens' \in {tokens, 0})
      BY DEF Gates
    <2>2. Refill(k) \in 0 .. Burst /\ tokens \in 0 .. Burst
      BY <1>k, RefillTyped, UnchangedTyped
    <2> QED BY <2>1, <2>2, BoundsAreNat
  <1>3. used' \in Bounds /\ used'.rewrites = used.rewrites
    <2>1. CASE UNCHANGED used
      BY <2>1, UnchangedTyped
    <2>2. CASE used' = [used EXCEPT !.refills = @ + k] /\ used.refills + k <= MaxRefills
      <3> DEFINE m == used.refills + k
      <3>1. m \in 0 .. MaxRefills
        <4>1. used \in Bounds
          BY UnchangedTyped
        <4>2. used.refills \in Nat /\ MaxRefills \in Nat
          BY <4>1, UsedAreNat, BoundsAreNat
        <4> QED BY <2>2, <1>k, <4>2
      <3>2. used' = [used EXCEPT !.refills = m]
        BY <2>2
      <3> HIDE DEF m
      <3> QED BY <3>1, <3>2, CountUp, UnchangedTyped
    <2> QED BY <2>1, <2>2 DEF Gates
  <1> QED BY <1>1, <1>2, <1>3, UnchangedTyped, FrameTyped DEF Gates

\* Recording the request in hand.
RecordOf(g) == [src |-> work.src, id |-> work.id, granted |-> g]
\* The record written for the work in hand is an audit record.
LEMMA RecordTyped ==
  ASSUME TypeInv, work.pc \notin {"poll", "left"}, NEW g \in BOOLEAN
  PROVE  RecordOf(g) \in Records
  <1>1. work.src \in Sources /\ work.id \in Ids \cup RequestIds
    BY UnchangedTyped DEF WorkOK, Sources
  <1> QED BY <1>1 DEF RecordOf, Records

AppendFailed == used.failures < MaxAuditFailures /\ used' = [used EXCEPT !.failures = @ + 1]
\* A failed append keeps the bounds.
LEMMA FailureTyped ==
  ASSUME TypeInv, AppendFailed
  PROVE  used' \in Bounds /\ used'.rewrites = used.rewrites
  <1> DEFINE m == used.failures + 1
  <1>0. used.failures < MaxAuditFailures
    BY DEF AppendFailed
  <1>1. m \in 0 .. MaxAuditFailures
    <2>1. used \in Bounds
      BY UnchangedTyped
    <2>2. used.failures \in Nat /\ MaxAuditFailures \in Nat
      BY <2>1, UsedAreNat, BoundsAreNat
    <2> QED BY <1>0, <2>2
  <1>2. used' = [used EXCEPT !.failures = m]
    BY DEF AppendFailed
  <1> HIDE DEF m
  <1> QED BY <1>1, <1>2, CountUp, UnchangedTyped

\* RefuseAndAudit keeps the type invariant.
LEMMA RefuseAndAuditTyped ==
  ASSUME TypeInv, work.pc \notin {"poll", "left"}, RefuseAndAudit
  PROVE  /\ work' \in Works /\ WorkOK'
         /\ notif' \in [Ids -> NotifStates] /\ out' \in Seq(Messages)
         /\ audit' \subseteq Records /\ used' \in Bounds /\ used'.rewrites = used.rewrites
  <1>1. /\ work' \in Works /\ WorkOK'
        /\ notif' \in [Ids -> NotifStates] /\ out' \in Seq(Messages)
    BY RefuseTyped DEF RefuseAndAudit
  <1>2. audit' \subseteq Records
    <2>1. audit' = audit \/ (work.src = "ipc" /\ audit' = audit \cup {RecordOf(FALSE)})
      BY DEF RefuseAndAudit, RecordOf
    <2> QED BY <2>1, RecordTyped, UnchangedTyped
  <1>3. used' \in Bounds /\ used'.rewrites = used.rewrites
    <2>1. CASE UNCHANGED used
      BY <2>1, UnchangedTyped
    <2>2. CASE ~UNCHANGED used
      <3>1. AppendFailed
        BY <2>2 DEF RefuseAndAudit, AppendFailed
      <3> QED BY <3>1, FailureTyped
    <2> QED BY <2>1, <2>2
  <1> QED BY <1>1, <1>2, <1>3

\* CheckPath keeps the type invariant.
LEMMA CheckPathTyped == ASSUME TypeInv, CheckPath PROVE TypeInv'
  <1>0. work.pc = "trust" /\ work.name \in Names
    BY UnchangedTyped DEF CheckPath, At, WorkOK
  <1>1. /\ work' \in Works /\ WorkOK'
        /\ notif' \in [Ids -> NotifStates] /\ out' \in Seq(Messages)
        /\ audit' \subseteq Records /\ used' \in Bounds /\ used'.rewrites = used.rewrites
    <2>1. CASE RefuseAndAudit
      BY <1>0, <2>1, RefuseAndAuditTyped
    <2>2. CASE work' = Goto("approve") /\ UNCHANGED <<notif, out, audit, used>>
      <3>1. /\ work' \in Works /\ work'.pc = "approve"
            /\ work'.src = work.src /\ work'.id = work.id /\ work'.name = work.name
        BY <2>2, GotoTyped, UnchangedTyped DEF Steps
      <3>2. WorkOK'
        BY <1>0, <3>1, UnchangedTyped DEF WorkOK, NotifSteps, IpcSteps, OpenedSteps
      <3> QED BY <2>2, <3>1, <3>2, UnchangedTyped
    <2>3. CASE /\ work' = [work EXCEPT !.pc = "approve", !.digest = cache[work.name].digest]
               /\ UNCHANGED <<notif, out, audit, used>>
      <3>1. cache[work.name].digest \in Digests \cup {Missing}
        BY <1>0, UnchangedTyped DEF Entries
      <3>2. work' = SetDigest("approve", cache[work.name].digest)
        BY <2>3 DEF SetDigest
      <3>3. /\ work' \in Works /\ work'.pc = "approve"
            /\ work'.src = work.src /\ work'.id = work.id /\ work'.name = work.name
        BY <3>1, <3>2, SetDigestTyped, UnchangedTyped DEF Steps
      <3>4. WorkOK'
        BY <1>0, <3>3, UnchangedTyped DEF WorkOK, NotifSteps, IpcSteps, OpenedSteps
      <3> QED BY <2>3, <3>3, <3>4, UnchangedTyped
    <2>4. CASE /\ link[work.name] # Missing
               /\ work' = [work EXCEPT !.pc = "trust_store",
                                       !.digest = file[link[work.name]].digest]
               /\ UNCHANGED <<notif, out, audit, used>>
      <3>1. link[work.name] \in Objects
        BY <1>0, <2>4 DEF TypeInv, TypeOK, Targets
      <3>2. file[link[work.name]] \in Contents
        BY <3>1 DEF TypeInv, TypeOK
      <3>3. file[link[work.name]].digest \in Digests
        BY <3>2 DEF Contents
      <3>4. work' = SetDigest("trust_store", file[link[work.name]].digest)
        BY <2>4 DEF SetDigest
      <3>5. /\ work' \in Works /\ work'.pc = "trust_store"
            /\ work'.src = work.src /\ work'.id = work.id /\ work'.name = work.name
            /\ work'.digest \in Digests
        BY <3>3, <3>4, SetDigestTyped, UnchangedTyped DEF Steps
      <3>6. WorkOK'
        BY <1>0, <3>5, UnchangedTyped DEF WorkOK, NotifSteps, IpcSteps, OpenedSteps
      <3> QED BY <2>4, <3>5, <3>6, UnchangedTyped
    <2> QED BY <2>1, <2>2, <2>3, <2>4 DEF CheckPath
  <1> QED BY <1>1, UnchangedTyped, FrameTyped DEF CheckPath

\* The entry that store_cache writes for name n after the verdict on digest d.
EntryFor(n, d) ==
    [obj |-> link[n], stamp |-> file[link[n]].stamp, verified |-> d \in Trusted,
     digest |-> IF d \in Trusted THEN d ELSE Missing]
\* A cache entry has its type and is verified exactly when the digest is trusted.
LEMMA EntryTyped ==
  ASSUME TypeInv, NEW n \in Names, NEW d \in Digests, link[n] # Missing
  PROVE  /\ EntryFor(n, d) \in Entries
         /\ EntryFor(n, d).verified = (d \in Trusted)
         /\ d \in Trusted => EntryFor(n, d).digest = d
  <1>1. link[n] \in Objects
    BY DEF TypeInv, TypeOK, Targets
  <1>2. file[link[n]] \in Contents
    BY <1>1 DEF TypeInv, TypeOK
  <1>3. file[link[n]].stamp \in 0 .. MaxRewrites
    BY <1>2 DEF Contents
  <1> DEFINE v == d \in Trusted
             g == IF d \in Trusted THEN d ELSE Missing
  <1>4. v \in BOOLEAN /\ g \in Digests \cup {Missing}
    OBVIOUS
  <1>5. EntryFor(n, d) = [obj |-> link[n], stamp |-> file[link[n]].stamp,
                          verified |-> v, digest |-> g]
    BY DEF EntryFor
  <1>6. d \in Trusted => g = d
    OBVIOUS
  <1>7. v = (d \in Trusted)
    OBVIOUS
  <1> HIDE DEF v, g
  <1>8. EntryFor(n, d) \in Entries
    BY <1>1, <1>3, <1>4, <1>5 DEF Entries, Targets
  <1>9. EntryFor(n, d).verified = v /\ EntryFor(n, d).digest = g
    BY <1>5
  <1> QED BY <1>6, <1>7, <1>8, <1>9

\* StoreCache keeps the type invariant.
LEMMA StoreCacheTyped == ASSUME TypeInv, StoreCache PROVE TypeInv'
  <1>0. work.pc = "trust_store" /\ work.name \in Names /\ work.digest \in Digests
    BY UnchangedTyped DEF StoreCache, At, WorkOK
  <1>1. /\ work' \in Works /\ WorkOK'
        /\ notif' \in [Ids -> NotifStates] /\ out' \in Seq(Messages)
        /\ audit' \subseteq Records /\ used' \in Bounds /\ used'.rewrites = used.rewrites
    <2>1. CASE RefuseAndAudit
      BY <1>0, <2>1, RefuseAndAuditTyped
    <2>2. CASE work' = Goto("approve") /\ UNCHANGED <<notif, out, audit, used>>
      <3>1. /\ work' \in Works /\ work'.pc = "approve"
            /\ work'.src = work.src /\ work'.id = work.id /\ work'.name = work.name
        BY <2>2, GotoTyped, UnchangedTyped DEF Steps
      <3>2. WorkOK'
        BY <1>0, <3>1, UnchangedTyped DEF WorkOK, NotifSteps, IpcSteps, OpenedSteps
      <3> QED BY <2>2, <3>1, <3>2, UnchangedTyped
    <2> QED BY <2>1, <2>2 DEF StoreCache
  <1>2. cache' \in [Names -> Entries]
    <2>1. CASE link[work.name] = Missing
      BY <2>1, UnchangedTyped DEF StoreCache
    <2>2. CASE link[work.name] # Missing
      <3>1. cache' = [cache EXCEPT ![work.name] = EntryFor(work.name, work.digest)]
        BY <2>2 DEF StoreCache, EntryFor
      <3>2. EntryFor(work.name, work.digest) \in Entries
        BY <1>0, <2>2, EntryTyped
      <3> QED BY <1>0, <3>1, <3>2, UnchangedTyped
    <2> QED BY <2>1, <2>2
  <1> QED BY <1>1, <1>2, UnchangedTyped, FrameTyped DEF StoreCache

\* RequestApproval keeps the type invariant.
LEMMA RequestApprovalTyped ==
  ASSUME TypeInv, NEW answer, RequestApproval(answer) PROVE TypeInv'
  <1> DEFINE g == (answer = "granted")
  <1>0. work.pc = "approve" /\ work.src \in Sources
    BY UnchangedTyped DEF RequestApproval, At, WorkOK
  <1>1. work' = SetGranted("audit", g)
    BY DEF RequestApproval, SetGranted
  <1>2. g \in BOOLEAN
    OBVIOUS
  <1>3. /\ work' \in Works /\ work'.pc = "audit"
        /\ work'.src = work.src /\ work'.id = work.id /\ work'.name = work.name
    <2> HIDE DEF g
    <2> QED BY <1>1, <1>2, SetGrantedTyped, UnchangedTyped DEF Steps
  <1>4. WorkOK'
    BY <1>0, <1>3, UnchangedTyped DEF WorkOK, NotifSteps, IpcSteps, OpenedSteps
  <1>5. notif' \in [Ids -> NotifStates]
    BY RespondTyped, UnchangedTyped DEF RequestApproval
  <1>6. prompts' \in [notif : Nat, ipc : Nat]
    <2>1. CASE work.src = "notif"
      <3> DEFINE k == prompts.notif + 1
      <3>1. k \in Nat
        BY UnchangedTyped
      <3>2. prompts' = [prompts EXCEPT !.notif = k]
        BY <2>1 DEF RequestApproval
      <3> HIDE DEF k
      <3> QED BY <3>1, <3>2, UnchangedTyped
    <2>2. CASE work.src = "ipc"
      <3> DEFINE k == prompts.ipc + 1
      <3>1. k \in Nat
        BY UnchangedTyped
      <3>2. prompts' = [prompts EXCEPT !.ipc = k]
        BY <2>2 DEF RequestApproval
      <3> HIDE DEF k
      <3> QED BY <3>1, <3>2, UnchangedTyped
    <2> QED BY <1>0, <2>1, <2>2 DEF Sources
  <1>7. /\ out' \in Seq(Messages) /\ inbox' \in Seq(Requests) /\ tokens' \in 0 .. Burst
        /\ cache' \in [Names -> Entries] /\ seen' \subseteq RequestIds
        /\ audit' \subseteq Records /\ fds' \subseteq Descriptors
        /\ used' \in Bounds /\ used'.rewrites = used.rewrites /\ UNCHANGED child
    BY UnchangedTyped DEF RequestApproval
  <1> QED BY <1>3, <1>4, <1>5, <1>6, <1>7, FrameTyped

\* RecordAudit keeps the type invariant.
LEMMA RecordAuditTyped ==
  ASSUME TypeInv, NEW ok \in BOOLEAN, RecordAudit(ok) PROVE TypeInv'
  <1>0. work.pc = "audit" /\ work.granted \in BOOLEAN
    BY UnchangedTyped, WorkFields DEF RecordAudit, At
  <1>1. CASE ok
    <2>1. audit' = audit \cup {RecordOf(work.granted)} /\ UNCHANGED <<notif, used>>
      BY <1>1 DEF RecordAudit, RecordOf
    <2>2. audit' \subseteq Records
      BY <1>0, <2>1, RecordTyped, UnchangedTyped
    <2>3. work' \in Works /\ WorkOK' /\ out' \in Seq(Messages)
      <3>1. CASE Refuse
        BY <1>0, <3>1, RefuseTyped
      <3>2. CASE work' = Goto("second_check") /\ UNCHANGED out /\ work.src = "notif"
        <4>1. /\ work' \in Works /\ work'.pc = "second_check"
              /\ work'.src = work.src /\ work'.id = work.id /\ work'.name = work.name
          BY <3>2, GotoTyped, UnchangedTyped DEF Steps
        <4>2. WorkOK'
          BY <1>0, <3>2, <4>1, UnchangedTyped
             DEF WorkOK, NotifSteps, IpcSteps, OpenedSteps, Sources
        <4> QED BY <3>2, <4>1, <4>2, UnchangedTyped
      <3>3. CASE work' = [work EXCEPT !.pc = "open", !.how = "approved"] /\ UNCHANGED out
        <4>1. work' = SetHow("open", "approved")
          BY <3>3 DEF SetHow
        <4>2. /\ work' \in Works /\ work'.pc = "open" /\ work'.how = "approved"
              /\ work'.src = work.src /\ work'.id = work.id /\ work'.name = work.name
          BY <4>1, SetHowTyped, UnchangedTyped DEF Steps
        <4>3. WorkOK'
          BY <1>0, <4>2, UnchangedTyped DEF WorkOK, NotifSteps, IpcSteps, OpenedSteps
        <4> QED BY <3>3, <4>2, <4>3, UnchangedTyped
      <3> QED BY <1>1, <3>1, <3>2, <3>3 DEF RecordAudit
    <2>4. UNCHANGED <<child, inbox, tokens, cache, seen, fds, prompts>>
      BY DEF RecordAudit
    <2> QED BY <2>1, <2>2, <2>3, <2>4, UnchangedTyped, FrameTyped
  <1>2. CASE ~ok
    <2>1. AppendFailed
      BY <1>2 DEF RecordAudit, AppendFailed
    <2>2. /\ work' = Idle /\ notif' \in {Respond, notif}
          /\ UNCHANGED <<audit, out>>
          /\ UNCHANGED <<child, inbox, tokens, cache, seen, fds, prompts>>
      BY <1>2 DEF RecordAudit
    <2>3. work' \in Works /\ WorkOK'
      BY <2>2, IdleTyped
    <2>4. notif' \in [Ids -> NotifStates]
      BY <2>2, RespondTyped, UnchangedTyped
    <2>5. used' \in Bounds /\ used'.rewrites = used.rewrites
      BY <2>1, FailureTyped
    <2> QED BY <2>2, <2>3, <2>4, <2>5, UnchangedTyped, FrameTyped
  <1> QED BY <1>1, <1>2

\* SecondCheck keeps the type invariant.
LEMMA SecondCheckTyped == ASSUME TypeInv, SecondCheck PROVE TypeInv'
  <1>0. work.pc = "second_check"
    BY DEF SecondCheck, At
  <1>1. /\ work' \in Works /\ WorkOK'
        /\ notif' \in [Ids -> NotifStates] /\ out' \in Seq(Messages)
    <2>1. CASE Refuse
      BY <1>0, <2>1, RefuseTyped
    <2>2. CASE work' = Idle /\ UNCHANGED <<notif, out>>
      BY <2>2, IdleTyped, UnchangedTyped
    <2>3. CASE work' = [work EXCEPT !.pc = "open", !.how = "approved"]
               /\ UNCHANGED <<notif, out>>
      <3>1. work' = SetHow("open", "approved")
        BY <2>3 DEF SetHow
      <3>2. /\ work' \in Works /\ work'.pc = "open" /\ work'.how = "approved"
            /\ work'.src = work.src /\ work'.id = work.id /\ work'.name = work.name
        BY <3>1, SetHowTyped, UnchangedTyped DEF Steps
      <3>3. WorkOK'
        BY <1>0, <3>2, UnchangedTyped DEF WorkOK, NotifSteps, IpcSteps, OpenedSteps
      <3> QED BY <2>3, <3>2, <3>3, UnchangedTyped
    <2> QED BY <2>1, <2>2, <2>3 DEF SecondCheck
  <1> QED BY <1>1, UnchangedTyped, FrameTyped DEF SecondCheck

\* OpenPath keeps the type invariant.
LEMMA OpenPathTyped == ASSUME TypeInv, OpenPath PROVE TypeInv'
  <1>0. work.pc = "open" /\ work.name \in Names
    BY UnchangedTyped DEF OpenPath, At, WorkOK
  <1>1. /\ work' \in Works /\ WorkOK'
        /\ notif' \in [Ids -> NotifStates] /\ out' \in Seq(Messages)
    <2>1. CASE Refuse
      BY <1>0, <2>1, RefuseTyped
    <2>2. CASE /\ link[work.name] # Missing
               /\ work' = [work EXCEPT !.pc = "recheck", !.canon = link[work.name]]
               /\ UNCHANGED <<notif, out>>
      <3>1. link[work.name] \in Objects /\ link[work.name] \in Targets
        BY <1>0, <2>2 DEF TypeInv, TypeOK, Targets
      <3>2. work' = SetCanon("recheck", link[work.name])
        BY <2>2 DEF SetCanon
      <3>3. /\ work' \in Works /\ work'.pc = "recheck" /\ work'.canon \in Objects
            /\ work'.src = work.src /\ work'.id = work.id /\ work'.name = work.name
            /\ work'.how = work.how
        BY <3>1, <3>2, SetCanonTyped, UnchangedTyped DEF Steps
      <3>4. WorkOK'
        BY <1>0, <3>3, UnchangedTyped DEF WorkOK, NotifSteps, IpcSteps, OpenedSteps
      <3> QED BY <2>2, <3>3, <3>4, UnchangedTyped
    <2> QED BY <2>1, <2>2 DEF OpenPath
  <1> QED BY <1>1, UnchangedTyped, FrameTyped DEF OpenPath

\* DigestRecheck keeps the type invariant.
LEMMA DigestRecheckTyped == ASSUME TypeInv, DigestRecheck PROVE TypeInv'
  <1>0. work.pc = "recheck" /\ work.canon \in Objects
    BY UnchangedTyped DEF DigestRecheck, At, WorkOK, OpenedSteps
  <1>1. /\ work' \in Works /\ WorkOK'
        /\ notif' \in [Ids -> NotifStates] /\ out' \in Seq(Messages)
    <2>1. CASE Refuse
      BY <1>0, <2>1, RefuseTyped
    <2>2. CASE /\ work' = [work EXCEPT !.pc = "inject", !.content = file[work.canon]]
               /\ UNCHANGED <<notif, out>>
      <3>1. file[work.canon] \in Contents
        BY <1>0 DEF TypeInv, TypeOK
      <3>2. work' = SetContent("inject", file[work.canon])
        BY <2>2 DEF SetContent
      <3>3. /\ work' \in Works /\ work'.pc = "inject" /\ work'.canon = work.canon
            /\ work'.src = work.src /\ work'.id = work.id /\ work'.name = work.name
            /\ work'.how = work.how /\ work'.content \in Contents
        BY <3>1, <3>2, SetContentTyped, UnchangedTyped DEF Steps
      <3>4. WorkOK'
        BY <1>0, <3>3, UnchangedTyped DEF WorkOK, NotifSteps, IpcSteps, OpenedSteps
      <3> QED BY <2>2, <3>3, <3>4, UnchangedTyped
    <2> QED BY <2>1, <2>2 DEF DigestRecheck
  <1> QED BY <1>1, UnchangedTyped, FrameTyped DEF DigestRecheck

\* The descriptor handed over describes the work in hand.
LEMMA DescriptorTyped ==
  ASSUME TypeInv, work.pc = "inject"
  PROVE  /\ Descriptor \in Descriptors
         /\ Descriptor.src = work.src /\ Descriptor.id = work.id
         /\ Descriptor.name = work.name /\ Descriptor.obj = work.canon
         /\ Descriptor.how = work.how /\ Descriptor.content = work.content
  <1>1. /\ work.src \in Sources /\ work.id \in Ids \cup RequestIds /\ work.name \in Names
        /\ work.canon \in Objects /\ work.content \in Contents /\ work.how # "none"
    BY UnchangedTyped DEF WorkOK, OpenedSteps, Sources
  <1>2. work.access \in Access /\ work.how \in {"initial", "comm", "approved"}
    BY <1>1, WorkFields, UnchangedTyped
  <1> QED BY <1>1, <1>2 DEF Descriptor, Descriptors

\* InjectFd keeps the type invariant.
LEMMA InjectFdTyped == ASSUME TypeInv, InjectFd PROVE TypeInv'
  <1>0. work.pc = "inject"
    BY DEF InjectFd, At
  <1>1. work' \in Works /\ WorkOK'
    BY IdleTyped DEF InjectFd
  <1>2. notif' \in [Ids -> NotifStates]
    BY RespondTyped, UnchangedTyped DEF InjectFd
  <1>3. fds' \subseteq Descriptors
    BY <1>0, DescriptorTyped, UnchangedTyped DEF InjectFd
  <1> QED BY <1>1, <1>2, <1>3, UnchangedTyped, FrameTyped DEF InjectFd

\* SendFd keeps the type invariant.
LEMMA SendFdTyped == ASSUME TypeInv, SendFd PROVE TypeInv'
  <1>0. work.pc = "inject" /\ work.src = "ipc"
    BY DEF SendFd, At
  <1>1. work' \in Works /\ WorkOK'
    BY IdleTyped DEF SendFd
  <1>2. fds' \subseteq Descriptors
    BY <1>0, DescriptorTyped, UnchangedTyped DEF SendFd
  <1>3. /\ FdMessage \in Messages /\ Decision(TRUE) \in Messages
        /\ Decision(FALSE) \in Messages
    <2>1. work.id \in RequestIds
      BY <1>0, UnchangedTyped DEF WorkOK
    <2>2. FdMessage \in Messages
      BY <2>1 DEF FdMessage, Messages
    <2> QED BY <1>0, <2>2, DecisionTyped
  <1>4. out' \in Seq(Messages)
    <2>1. Append(out, FdMessage) \in Seq(Messages) /\ Append(out, Decision(FALSE)) \in Seq(Messages)
      BY <1>3, UnchangedTyped, AppendTyped
    <2>2. Append(Append(out, FdMessage), Decision(TRUE)) \in Seq(Messages)
      BY <1>3, <2>1, AppendTyped
    <2> QED BY <2>1, <2>2 DEF SendFd
  <1> QED BY <1>1, <1>2, <1>4, UnchangedTyped, FrameTyped DEF SendFd

\* RecvRequest keeps the type invariant.
LEMMA RecvRequestTyped == ASSUME TypeInv, RecvRequest PROVE TypeInv'
  <1> DEFINE r == Head(inbox)
  <1>1. r \in Requests /\ inbox' \in Seq(Requests)
    BY UnchangedTyped DEF RecvRequest
  <1>2. r.rid \in RequestIds /\ r.name \in Names
    BY <1>1 DEF Requests
  <1>3. PICK pc \in IpcSteps : work' = TakenRequest(pc, r)
    <2>1. CASE r.rid \in seen \/ Cardinality(seen) >= MaxTracked
      BY <2>1, ZenonT(30) DEF RecvRequest, TakenRequest, Idle, IpcSteps
    <2>2. CASE ~(r.rid \in seen \/ Cardinality(seen) >= MaxTracked)
      BY <2>2, ZenonT(30) DEF RecvRequest, TakenRequest, Idle, IpcSteps
    <2> QED BY <2>1, <2>2
  <1>4. seen' \in {seen, seen \cup {r.rid}}
    BY DEF RecvRequest
  <1>5. /\ UNCHANGED <<child, notif, out, tokens, cache, audit, fds, prompts, used>>
    BY DEF RecvRequest
  <1> HIDE DEF r
  <1>6. /\ work' \in Works /\ work'.pc = pc /\ work'.src = "ipc"
        /\ work'.id = r.rid /\ work'.name = r.name
    BY <1>1, <1>3, TakenRequestTyped DEF Steps, IpcSteps
  <1>7. WorkOK'
    BY <1>2, <1>3, <1>6 DEF WorkOK, NotifSteps, IpcSteps, OpenedSteps, Sources
  <1>8. seen' \subseteq RequestIds
    BY <1>2, <1>4, UnchangedTyped
  <1> QED BY <1>1, <1>5, <1>6, <1>7, <1>8, UnchangedTyped, FrameTyped

\* RefuseRequest keeps the type invariant.
LEMMA RefuseRequestTyped == ASSUME TypeInv, RefuseRequest PROVE TypeInv'
  <1>1. work.pc \notin {"poll", "left"}
    BY DEF RefuseRequest, At
  <1> QED BY <1>1, RefuseAndAuditTyped, UnchangedTyped, FrameTyped DEF RefuseRequest

\* RequestChecks keeps the type invariant.
LEMMA RequestChecksTyped ==
  ASSUME TypeInv, RequestProtected \/ RequestDenied PROVE TypeInv'
  <1>0. work.pc \in {"ipc_protected", "ipc_denied"}
    BY DEF RequestProtected, RequestDenied, At
  <1>1. PICK pc \in {"ipc_refuse", "ipc_denied", "trust"} : work' = Goto(pc)
    BY DEF RequestProtected, RequestDenied
  <1>2. /\ work' \in Works /\ work'.pc = pc
        /\ work'.src = work.src /\ work'.id = work.id /\ work'.name = work.name
    BY <1>1, GotoTyped, UnchangedTyped DEF Steps
  <1>3. WorkOK'
    BY <1>0, <1>1, <1>2, UnchangedTyped DEF WorkOK, NotifSteps, IpcSteps, OpenedSteps
  <1> QED BY <1>2, <1>3, UnchangedTyped, FrameTyped DEF RequestProtected, RequestDenied

\* The supervisor's steps keep the type invariant.
LEMMA SupervisorTypeInv == ASSUME TypeInv, SupervisorStep PROVE TypeInv'
  BY RecvNotifTyped, FirstCheckTyped, CanonicalizeTyped, PolicyCheckTyped, ExistsCheckTyped,
     GatesTyped, CheckPathTyped, StoreCacheTyped, RequestApprovalTyped, RecordAuditTyped,
     SecondCheckTyped, OpenPathTyped, DigestRecheckTyped, InjectFdTyped, SendFdTyped,
     RecvRequestTyped, RefuseRequestTyped, RequestChecksTyped
     DEF SupervisorStep

\* Leaving the loop keeps the type invariant.
LEMMA LeaveLoopTyped == ASSUME TypeInv, LeaveLoop PROVE TypeInv'
  <1>1. work' \in Works /\ work'.pc = "left" /\ work'.src = "none"
    BY IdleIsWork DEF LeaveLoop, Works, Steps, Idle
  <1>2. WorkOK'
    BY <1>1, UnchangedTyped DEF WorkOK, NotifSteps, IpcSteps, OpenedSteps
  <1> QED BY <1>1, <1>2, UnchangedTyped, FrameTyped DEF LeaveLoop

\* A stuttering step keeps the type invariant.
LEMMA StutterTypeInv == ASSUME TypeInv, UNCHANGED vars PROVE TypeInv'
  BY DEF TypeInv, TypeOK, WorkOK, StampsBounded, vars

\* Type correctness: the state of Supervisor always has its type, for every
\* policy, every set of names and objects and all bounds.
THEOREM TypeCorrect == Spec => []TypeOK
  <1>1. TypeInv /\ [Next]_vars => TypeInv'
    BY ChildTypeInv, SupervisorTypeInv, LeaveLoopTyped, StutterTypeInv DEF Next
  <1>2. TypeInv => TypeOK
    BY DEF TypeInv
  <1> QED BY InitTypeInv, <1>1, <1>2, PTL DEF Spec

-----------------------------------------------------------------------------
(* Safety.  What the properties say of the descriptors handed over holds of *)
(* the request in hand from the step that establishes it on.                *)

Permitted(o, n) ==
    o \notin ProtectedObjs \cup DeniedObjs \cup BlockedProcObjs /\ n \notin DeniedNames

\* open_path_for_access has applied the policy to the object it opened.
OpenedIsPermitted ==
    work.pc \in OpenedSteps /\ work.how # "comm" => Permitted(work.canon, work.name)

\* A grant is acted upon only once it is in the log.
GrantIsRecorded ==
    \/ work.pc = "second_check" /\ work.granted = TRUE
    \/ work.pc \in OpenedSteps \cup {"open"} /\ work.how = "approved"
    => RecordOf(TRUE) \in audit

\* A verified cache entry names a trusted digest.
CacheIsTrusted == \A n \in Names : cache[n].verified = TRUE => cache[n].digest \in Trusted

\* An instruction file goes on from the interceptor with a digest that the
\* policy lets through, and from the recheck with content that has it.
DigestIsAllowed ==
    work.name \in InstructionNames =>
        /\ \/ work.pc \in {"approve", "audit", "second_check"}
           \/ work.pc \in {"open", "recheck"} /\ work.how = "approved"
           => work.digest \in Digests /\ ~should_block(work.digest)
        /\ work.pc = "inject" /\ work.how = "approved" => ~should_block(work.content.digest)

\* A notification past the rate limiter holds a token until it is asked about.
Held == IF work.src = "notif" /\ work.pc \in {"trust", "trust_store", "approve"} THEN 1 ELSE 0
TokensAccounted == prompts.notif + tokens + Held <= Burst + used.refills

SafeInv ==
    /\ OpenedIsPermitted /\ GrantIsRecorded /\ CacheIsTrusted /\ DigestIsAllowed
    /\ TokensAccounted
    /\ HandedOverIsPermitted /\ ApprovedFdsAudited /\ InstructionContentAllowed

\* The initial states satisfy SafeInv.
LEMMA InitSafe == Init => SafeInv
  <1> SUFFICES ASSUME Init PROVE SafeInv
    OBVIOUS
  <1>1. /\ work.pc = "poll" /\ work.src = "none" /\ fds = {} /\ tokens = Burst
        /\ prompts.notif = 0 /\ used.refills = 0
        /\ \A n \in Names : cache[n].verified = FALSE
    BY DEF Init, Idle, NoEntry
  <1>2. TokensAccounted
    BY <1>1, BoundsAreNat DEF TokensAccounted, Held
  <1>3. CacheIsTrusted
    BY <1>1 DEF CacheIsTrusted
  <1> QED BY <1>1, <1>2, <1>3
          DEF SafeInv, OpenedIsPermitted, OpenedSteps, GrantIsRecorded, DigestIsAllowed,
              HandedOverIsPermitted, ApprovedFdsAudited, InstructionContentAllowed

\* Steps at which SafeInv asks nothing of the request in hand.
EarlySteps == {"poll", "left", "first_check", "canonicalize", "policy", "exists", "gates",
               "ipc_protected", "ipc_denied", "ipc_refuse"}

\* Nothing SafeInv speaks of changes, except that the audit log may grow and
\* the request in hand may go where nothing is asked of it.
QuietStep ==
    /\ \/ work' = work
       \/ work'.pc \in EarlySteps
       \/ work'.pc = "inject" /\ work'.how = "comm"
       \/ work'.pc = "open" /\ work'.how = "initial"
    /\ UNCHANGED <<tokens, cache, fds, prompts>>
    /\ audit \subseteq audit'
    /\ used'.refills = used.refills

\* The token held for the request in hand counts for at most one.
LEMMA HeldBounds == Held \in {0, 1}
  BY DEF Held

\* The counts the rate limiter's invariant adds up are natural numbers.
LEMMA CountsAreNat ==
  ASSUME TypeInv
  PROVE  /\ prompts.notif \in Nat /\ tokens \in Nat /\ used.refills \in Nat /\ Burst \in Nat
         /\ Held \in Nat
  BY UnchangedTyped, UsedAreNat, BoundsAreNat, HeldBounds

\* Descriptors handed over before keep what was shown of them.
LEMMA FdsKept ==
  ASSUME SafeInv, UNCHANGED fds, audit \subseteq audit'
  PROVE  (HandedOverIsPermitted /\ ApprovedFdsAudited /\ InstructionContentAllowed)'
  BY DEF SafeInv, HandedOverIsPermitted, ApprovedFdsAudited, InstructionContentAllowed,
         should_block

\* A quiet step keeps SafeInv.
LEMMA QuietKeepsSafe == ASSUME TypeInv, SafeInv, QuietStep PROVE SafeInv'
  <1>0. /\ UNCHANGED <<tokens, cache, fds, prompts>> /\ audit \subseteq audit'
        /\ used'.refills = used.refills
    BY DEF QuietStep
  <1>1. (HandedOverIsPermitted /\ ApprovedFdsAudited /\ InstructionContentAllowed)'
    BY <1>0, FdsKept
  <1>2. CacheIsTrusted'
    BY <1>0 DEF SafeInv, CacheIsTrusted
  <1>3. CASE work' = work
    <2>1. TokensAccounted'
      BY <1>0, <1>3 DEF SafeInv, TokensAccounted, Held
    <2>2. (OpenedIsPermitted /\ GrantIsRecorded /\ DigestIsAllowed)'
      BY <1>0, <1>3 DEF SafeInv, OpenedIsPermitted, Permitted, GrantIsRecorded, RecordOf,
                        DigestIsAllowed, should_block
    <2> QED BY <1>1, <1>2, <2>1, <2>2 DEF SafeInv
  <1>4. CASE \/ work'.pc \in EarlySteps
             \/ work'.pc = "inject" /\ work'.how = "comm"
             \/ work'.pc = "open" /\ work'.how = "initial"
    <2>1. Held' = 0
      BY <1>4 DEF Held, EarlySteps
    <2>2. TokensAccounted'
      BY <1>0, <2>1, CountsAreNat DEF SafeInv, TokensAccounted
    <2>3. (OpenedIsPermitted /\ GrantIsRecorded /\ DigestIsAllowed)'
      BY <1>4 DEF OpenedIsPermitted, GrantIsRecorded, DigestIsAllowed, EarlySteps, OpenedSteps
    <2> QED BY <1>1, <1>2, <2>2, <2>3 DEF SafeInv
  <1> QED BY <1>3, <1>4 DEF QuietStep

\* The child's steps keep SafeInv.
LEMMA ChildSafe == ASSUME TypeInv, SafeInv, ChildStep PROVE SafeInv'
  <1>1. work' = work /\ UNCHANGED <<tokens, cache, fds, prompts, audit>>
    BY DEF ChildStep, Relink, Rewrite, Openat, Interrupt, SendRequest
  <1>2. used'.refills = used.refills
    <2>1. used \in Bounds
      BY UnchangedTyped
    <2>2. \/ UNCHANGED used
          \/ \E k : \/ used' = [used EXCEPT !.relinks = k]
                    \/ used' = [used EXCEPT !.rewrites = k]
                    \/ used' = [used EXCEPT !.requests = k]
      BY Zenon DEF ChildStep, Relink, Rewrite, Openat, Interrupt, SendRequest
    <2> QED BY <2>1, <2>2 DEF Bounds
  <1> QED BY <1>1, <1>2, QuietKeepsSafe DEF QuietStep

\* An idle supervisor is at a step where nothing has been decided.
LEMMA IdleIsEarly == ASSUME work' = Idle PROVE work'.pc \in EarlySteps
  BY DEF Idle, EarlySteps

\* A failed append does not refill the rate limiter.
LEMMA FailureKeepsRefills == ASSUME TypeInv, AppendFailed PROVE used'.refills = used.refills
  <1>1. used \in Bounds
    BY UnchangedTyped
  <1>2. \E k : used' = [used EXCEPT !.failures = k]
    BY Zenon DEF AppendFailed
  <1> QED BY <1>1, <1>2 DEF Bounds

\* A refusal leaves alone what the safety invariant speaks of.
LEMMA RefuseAndAuditQuiet ==
  ASSUME TypeInv, RefuseAndAudit, UNCHANGED <<tokens, cache, fds, prompts>>
  PROVE  QuietStep
  <1>1. work'.pc \in EarlySteps
    BY IdleIsEarly DEF RefuseAndAudit, Refuse
  <1>2. audit \subseteq audit'
    BY DEF RefuseAndAudit
  <1>3. used'.refills = used.refills
    <2>1. UNCHANGED used \/ AppendFailed
      BY DEF RefuseAndAudit, AppendFailed
    <2> QED BY <2>1, FailureKeepsRefills
  <1> QED BY <1>1, <1>2, <1>3 DEF QuietStep

\* The steps before the gates, refusals of requests, and the check of protected
\* roots are quiet.
LEMMA EarlyQuiet ==
  ASSUME TypeInv,
         \/ \E i \in Ids, n \in Names : RecvNotif(i, n)
         \/ \E a \in Access : FirstCheck(a)
         \/ Canonicalize \/ PolicyCheck \/ ExistsCheck
         \/ RecvRequest \/ RefuseRequest \/ RequestProtected
  PROVE  QuietStep
  <1> USE DEF EarlySteps
  <1>1. ASSUME NEW i \in Ids, NEW n \in Names, RecvNotif(i, n) PROVE QuietStep
    <2>1. work' = work \/ work' = TakenNotif(i, n)
      BY <1>1 DEF RecvNotif, TakenNotif
    <2>2. work' = work \/ work'.pc \in EarlySteps
      BY <2>1, TakenNotifTyped
    <2>3. UNCHANGED <<tokens, cache, fds, prompts, audit, used>>
      BY <1>1 DEF RecvNotif
    <2> QED BY <2>2, <2>3 DEF QuietStep
  <1>2. ASSUME NEW a \in Access, FirstCheck(a) PROVE QuietStep
    <2>1. work' = Idle \/ work' = SetAccess("canonicalize", a)
      BY <1>2 DEF FirstCheck, Refuse, SetAccess
    <2>2. work'.pc \in EarlySteps
      BY <2>1, IdleIsEarly, SetAccessTyped, UnchangedTyped DEF Steps
    <2> QED BY <1>2, <2>2 DEF FirstCheck, QuietStep
  <1>3. CASE Canonicalize
    <2>1. link[work.name] \in Targets
      BY <1>3, UnchangedTyped DEF Canonicalize, At, WorkOK, TypeInv, TypeOK
    <2>2. work' = SetCanon("policy", link[work.name])
      BY <1>3 DEF Canonicalize, SetCanon
    <2>3. work'.pc \in EarlySteps
      BY <2>1, <2>2, SetCanonTyped, UnchangedTyped DEF Steps
    <2> QED BY <1>3, <2>3 DEF Canonicalize, QuietStep
  <1>4. CASE PolicyCheck
    <2>1. \/ work' = Idle \/ work' = Goto("exists") \/ work' = SetHow("open", "initial")
          \/ /\ work.canon \in CommObjs
             /\ work' = SetHowContent("inject", "comm", file[work.canon])
      BY <1>4 DEF PolicyCheck, Refuse, ContinueIfValid, SetHow, SetHowContent
    <2>2. work.canon \in CommObjs => file[work.canon] \in Contents
      BY SupervisorConstants DEF TypeInv, TypeOK
    <2>2a. work.canon \in CommObjs /\ work' = SetHowContent("inject", "comm", file[work.canon])
           => work'.pc = "inject" /\ work'.how = "comm"
      BY <2>2, SetHowContentTyped, UnchangedTyped DEF Steps
    <2>3. \/ work'.pc \in EarlySteps
          \/ work'.pc = "inject" /\ work'.how = "comm"
          \/ work'.pc = "open" /\ work'.how = "initial"
      BY <2>1, <2>2a, IdleIsEarly, GotoTyped, SetHowTyped, UnchangedTyped DEF Steps
    <2> QED BY <1>4, <2>3 DEF PolicyCheck, QuietStep
  <1>5. CASE ExistsCheck
    <2>1. work' = Idle \/ work' = Goto("gates")
      BY <1>5 DEF ExistsCheck, ContinueIfValid
    <2>2. work'.pc \in EarlySteps
      BY <2>1, IdleIsEarly, GotoTyped, UnchangedTyped DEF Steps
    <2> QED BY <1>5, <2>2 DEF ExistsCheck, QuietStep
  <1>6. CASE RecvRequest
    <2>1. Head(inbox) \in Requests
      BY <1>6, UnchangedTyped DEF RecvRequest
    <2>2. \E pc \in IpcSteps : work' = TakenRequest(pc, Head(inbox))
      <3>1. CASE Head(inbox).rid \in seen \/ Cardinality(seen) >= MaxTracked
        BY <1>6, <3>1, ZenonT(30) DEF RecvRequest, TakenRequest, Idle, IpcSteps
      <3>2. CASE ~(Head(inbox).rid \in seen \/ Cardinality(seen) >= MaxTracked)
        BY <1>6, <3>2, ZenonT(30) DEF RecvRequest, TakenRequest, Idle, IpcSteps
      <3> QED BY <3>1, <3>2
    <2>3. work'.pc \in EarlySteps
      BY <2>1, <2>2, TakenRequestTyped DEF Steps, IpcSteps
    <2> QED BY <1>6, <2>3 DEF RecvRequest, QuietStep
  <1>7. CASE RefuseRequest
    BY <1>7, RefuseAndAuditQuiet DEF RefuseRequest
  <1>8. CASE RequestProtected
    <2>1. work' = Goto("ipc_refuse") \/ work' = Goto("ipc_denied")
      BY <1>8 DEF RequestProtected
    <2>2. work'.pc \in EarlySteps
      BY <2>1, GotoTyped, UnchangedTyped DEF Steps
    <2> QED BY <1>8, <2>2 DEF RequestProtected, QuietStep
  <1> QED BY <1>1, <1>2, <1>3, <1>4, <1>5, <1>6, <1>7, <1>8

\* A step that leaves the variables of SafeInv alone keeps it.
LEMMA SafeFrame ==
  ASSUME SafeInv, UNCHANGED fds, audit \subseteq audit', CacheIsTrusted',
         OpenedIsPermitted', GrantIsRecorded', DigestIsAllowed', TokensAccounted'
  PROVE  SafeInv'
  BY FdsKept DEF SafeInv

\* Gates keeps SafeInv.
LEMMA GatesSafe ==
  ASSUME TypeInv, SafeInv, NEW k \in 0 .. MaxRefills, Gates(k) PROVE SafeInv'
  <1> DEFINE u == used.refills + k
  <1>0. /\ work.pc = "gates" /\ Held = 0 /\ k \in Nat /\ u = used.refills + k
        /\ UNCHANGED <<cache, fds, prompts, audit>>
    BY BoundsAreNat DEF Gates, At, Held
  <1>1. \/ work' = Idle /\ UNCHANGED <<tokens, used>>
        \/ /\ used' = [used EXCEPT !.refills = u]
           /\ \/ Refill(k) > 0 /\ tokens' = Refill(k) - 1 /\ work' = Goto("trust")
              \/ tokens' = 0 /\ work' = Idle
    BY DEF Gates, Refuse
  <1> HIDE DEF u
  <1>2. CASE work' = Idle /\ UNCHANGED <<tokens, used>>
    BY <1>0, <1>2, IdleIsEarly, QuietKeepsSafe DEF QuietStep
  <1>3. CASE /\ used' = [used EXCEPT !.refills = u]
             /\ \/ Refill(k) > 0 /\ tokens' = Refill(k) - 1 /\ work' = Goto("trust")
                \/ tokens' = 0 /\ work' = Idle
    <2>1. used'.refills = u
      BY <1>3, UnchangedTyped DEF Bounds
    <2>2. Refill(k) <= tokens + k /\ Refill(k) \in Nat
      BY <1>0, CountsAreNat DEF Refill
    <2>3. work'.pc \in {"trust", "poll"}
      BY <1>3, GotoTyped, UnchangedTyped DEF Steps, Idle
    <2>4. tokens' + Held' <= tokens + k /\ tokens' \in Nat /\ Held' \in {0, 1}
      <3>1. CASE tokens' = 0 /\ work' = Idle
        <4>1. Held' = 0
          BY <3>1 DEF Held, Idle
        <4> QED BY <1>0, <3>1, <4>1, CountsAreNat
      <3>2. CASE Refill(k) > 0 /\ tokens' = Refill(k) - 1
        <4>1. Held' \in {0, 1}
          BY DEF Held
        <4> QED BY <1>0, <2>2, <3>2, <4>1, CountsAreNat
      <3> QED BY <1>3, <3>1, <3>2
    <2>5. TokensAccounted'
      BY <1>0, <2>1, <2>4, CountsAreNat DEF SafeInv, TokensAccounted
    <2>6. (OpenedIsPermitted /\ GrantIsRecorded /\ DigestIsAllowed)'
      BY <2>3 DEF OpenedIsPermitted, GrantIsRecorded, DigestIsAllowed, OpenedSteps
    <2>7. CacheIsTrusted'
      BY <1>0 DEF SafeInv, CacheIsTrusted
    <2> QED BY <1>0, <2>5, <2>6, <2>7, SafeFrame
  <1> QED BY <1>1, <1>2, <1>3

\* A request passes its last check without a token.
LEMMA RequestDeniedSafe == ASSUME TypeInv, SafeInv, RequestDenied PROVE SafeInv'
  <1>0. /\ work.pc = "ipc_denied" /\ work.src = "ipc" /\ Held = 0
        /\ UNCHANGED <<tokens, used, cache, fds, prompts, audit>>
    BY UnchangedTyped DEF RequestDenied, At, Held, WorkOK, IpcSteps
  <1>1. work'.pc \in {"ipc_refuse", "trust"} /\ work'.src = "ipc"
    BY <1>0, GotoTyped, UnchangedTyped DEF RequestDenied, Steps
  <1>2. Held' = 0
    BY <1>1 DEF Held
  <1>3. TokensAccounted'
    BY <1>0, <1>2 DEF SafeInv, TokensAccounted
  <1>4. (OpenedIsPermitted /\ GrantIsRecorded /\ DigestIsAllowed)'
    BY <1>1 DEF OpenedIsPermitted, GrantIsRecorded, DigestIsAllowed, OpenedSteps
  <1>5. CacheIsTrusted'
    BY <1>0 DEF SafeInv, CacheIsTrusted
  <1> QED BY <1>0, <1>3, <1>4, <1>5, SafeFrame

\* A digest with a trusted signature is never blocked.
LEMMA TrustedPasses == ASSUME NEW d \in Trusted PROVE d \in Digests /\ ~should_block(d)
  BY SupervisorConstants DEF should_block

\* CheckPath keeps SafeInv.
LEMMA CheckPathSafe == ASSUME TypeInv, SafeInv, CheckPath PROVE SafeInv'
  <1>0. work.pc = "trust" /\ work.name \in Names
    BY UnchangedTyped DEF CheckPath, At, WorkOK
  <1>1. UNCHANGED <<tokens, cache, fds, prompts>>
    BY DEF CheckPath
  <1>2. CASE RefuseAndAudit
    BY <1>1, <1>2, RefuseAndAuditQuiet, QuietKeepsSafe
  <1>3. CASE UNCHANGED <<audit, used>> /\
             \/ work.name \notin InstructionNames /\ work' = Goto("approve")
             \/ cache[work.name].verified = TRUE
                  /\ work' = SetDigest("approve", cache[work.name].digest)
             \/ link[work.name] # Missing
                  /\ work' = SetDigest("trust_store", file[link[work.name]].digest)
    <2>1. cache[work.name].digest \in Digests \cup {Missing}
      BY <1>0, UnchangedTyped DEF Entries
    <2>2. link[work.name] # Missing => file[link[work.name]].digest \in Digests
      <3>1. link[work.name] # Missing => link[work.name] \in Objects
        BY <1>0 DEF TypeInv, TypeOK, Targets
      <3>2. link[work.name] # Missing => file[link[work.name]] \in Contents
        BY <3>1 DEF TypeInv, TypeOK
      <3> QED BY <3>2 DEF Contents
    <2>3. cache[work.name].verified = TRUE => cache[work.name].digest \in Trusted
      BY <1>0 DEF SafeInv, CacheIsTrusted
    <2>4. /\ work'.pc \in {"approve", "trust_store"} /\ work'.src = work.src
          /\ work'.name = work.name
          /\ work.name \in InstructionNames /\ work'.pc = "approve" => work'.digest \in Trusted
      <3>1. CASE work.name \notin InstructionNames /\ work' = Goto("approve")
        BY <3>1, GotoTyped, UnchangedTyped DEF Steps
      <3>2. CASE cache[work.name].verified = TRUE
                   /\ work' = SetDigest("approve", cache[work.name].digest)
        BY <2>1, <2>3, <3>2, SetDigestTyped, UnchangedTyped DEF Steps
      <3>3. CASE link[work.name] # Missing
                   /\ work' = SetDigest("trust_store", file[link[work.name]].digest)
        BY <2>2, <3>3, SetDigestTyped, UnchangedTyped DEF Steps
      <3> QED BY <1>3, <3>1, <3>2, <3>3
    <2>5. Held' = Held
      BY <1>0, <2>4 DEF Held
    <2>6. TokensAccounted'
      BY <1>1, <1>3, <2>5 DEF SafeInv, TokensAccounted
    <2>7. (OpenedIsPermitted /\ GrantIsRecorded)'
      BY <2>4 DEF OpenedIsPermitted, GrantIsRecorded, OpenedSteps
    <2>8. DigestIsAllowed'
      <3>1. work'.name \in InstructionNames /\ work'.pc = "approve"
              => work'.digest \in Digests /\ ~should_block(work'.digest)
        BY <2>4, TrustedPasses
      <3> QED BY <2>4, <3>1 DEF DigestIsAllowed, should_block
    <2>9. CacheIsTrusted'
      BY <1>1 DEF SafeInv, CacheIsTrusted
    <2> QED BY <1>1, <1>3, <2>6, <2>7, <2>8, <2>9, SafeFrame
  <1>4. cache[work.name].verified \in BOOLEAN
    BY <1>0, UnchangedTyped DEF Entries
  <1> QED BY <1>2, <1>3, <1>4, Zenon DEF CheckPath, SetDigest

\* StoreCache keeps SafeInv.
LEMMA StoreCacheSafe == ASSUME TypeInv, SafeInv, StoreCache PROVE SafeInv'
  <1>0. work.pc = "trust_store" /\ work.name \in Names /\ work.digest \in Digests
    BY UnchangedTyped DEF StoreCache, At, WorkOK
  <1>1. UNCHANGED <<tokens, fds, prompts>>
    BY DEF StoreCache
  <1>2. CacheIsTrusted'
    <2>1. CASE link[work.name] = Missing
      BY <2>1 DEF StoreCache, SafeInv, CacheIsTrusted
    <2>2. CASE link[work.name] # Missing
      <3>1. cache' = [cache EXCEPT ![work.name] = EntryFor(work.name, work.digest)]
        BY <2>2 DEF StoreCache, EntryFor
      <3>2. EntryFor(work.name, work.digest).verified = TRUE
              => EntryFor(work.name, work.digest).digest \in Trusted
        <4>1. /\ EntryFor(work.name, work.digest).verified = (work.digest \in Trusted)
              /\ work.digest \in Trusted => EntryFor(work.name, work.digest).digest = work.digest
          BY <1>0, <2>2, EntryTyped, Zenon
        <4>2. EntryFor(work.name, work.digest).verified = TRUE => work.digest \in Trusted
          BY <4>1, Zenon
        <4> QED BY <4>1, <4>2, Zenon
      <3>3. ASSUME NEW n \in Names PROVE cache'[n].verified = TRUE => cache'[n].digest \in Trusted
        <4>1. CASE n = work.name
          <5>1. cache'[n] = EntryFor(work.name, work.digest)
            BY <3>1, <4>1, <1>0, UnchangedTyped
          <5> QED BY <5>1, <3>2
        <4>2. CASE n # work.name
          <5>1. cache'[n] = cache[n]
            BY <3>1, <4>2, UnchangedTyped
          <5> QED BY <5>1 DEF SafeInv, CacheIsTrusted
        <4> QED BY <4>1, <4>2
      <3> QED BY <3>3 DEF CacheIsTrusted
    <2> QED BY <2>1, <2>2
  <1>3. \/ should_block(work.digest) /\ RefuseAndAudit
        \/ ~should_block(work.digest) /\ work' = Goto("approve") /\ UNCHANGED <<audit, used>>
    BY DEF StoreCache
  <1>4. CASE RefuseAndAudit
    <2>1. /\ work'.pc = "poll" /\ audit \subseteq audit'
      BY <1>4 DEF RefuseAndAudit, Refuse, Idle
    <2>2. used'.refills = used.refills
      <3>1. UNCHANGED used \/ AppendFailed
        BY <1>4 DEF RefuseAndAudit, AppendFailed
      <3> QED BY <3>1, FailureKeepsRefills
    <2>3. Held' = 0
      BY <2>1 DEF Held
    <2>4. TokensAccounted'
      BY <1>1, <2>2, <2>3, CountsAreNat DEF SafeInv, TokensAccounted
    <2>5. (OpenedIsPermitted /\ GrantIsRecorded /\ DigestIsAllowed)'
      BY <2>1 DEF OpenedIsPermitted, GrantIsRecorded, DigestIsAllowed, OpenedSteps
    <2> QED BY <1>1, <1>2, <2>1, <2>4, <2>5, SafeFrame
  <1>5. CASE ~should_block(work.digest) /\ work' = Goto("approve") /\ UNCHANGED <<audit, used>>
    <2>1. /\ work'.pc = "approve" /\ work'.src = work.src /\ work'.digest = work.digest
      BY <1>5, GotoTyped, UnchangedTyped DEF Steps
    <2>2. Held' = Held
      BY <1>0, <2>1 DEF Held
    <2>3. TokensAccounted'
      BY <1>1, <1>5, <2>2 DEF SafeInv, TokensAccounted
    <2>4. (OpenedIsPermitted /\ GrantIsRecorded /\ DigestIsAllowed)'
      BY <1>0, <1>5, <2>1
         DEF OpenedIsPermitted, GrantIsRecorded, DigestIsAllowed, OpenedSteps, should_block
    <2> QED BY <1>1, <1>2, <1>5, <2>3, <2>4, SafeFrame
  <1> QED BY <1>3, <1>4, <1>5

\* RequestApproval keeps SafeInv.
LEMMA RequestApprovalSafe ==
  ASSUME TypeInv, SafeInv, NEW answer, RequestApproval(answer) PROVE SafeInv'
  <1> DEFINE g == (answer = "granted")
  <1>0. /\ work.pc = "approve" /\ work.src \in Sources
        /\ UNCHANGED <<tokens, cache, fds, used, audit>>
    BY UnchangedTyped DEF RequestApproval, At, WorkOK
  <1>1. work' = SetGranted("audit", g) /\ g \in BOOLEAN
    BY DEF RequestApproval, SetGranted
  <1> HIDE DEF g
  <1>2. /\ work'.pc = "audit" /\ work'.src = work.src
        /\ work'.name = work.name /\ work'.digest = work.digest
    BY <1>1, SetGrantedTyped, UnchangedTyped DEF Steps
  <1>3. prompts'.notif + Held' <= prompts.notif + Held /\ prompts'.notif \in Nat /\ Held' = 0
    <2>0. Held' = 0
      BY <1>2 DEF Held
    <2>1. CASE work.src = "notif"
      <3> DEFINE k == prompts.notif + 1
      <3>1. prompts' = [prompts EXCEPT !.notif = k]
        BY <2>1 DEF RequestApproval
      <3>2. Held = 1
        BY <1>0, <2>1 DEF Held
      <3>3. k = prompts.notif + 1
        OBVIOUS
      <3> HIDE DEF k
      <3>4. prompts'.notif = k
        BY <3>1, UnchangedTyped
      <3> QED BY <2>0, <3>2, <3>3, <3>4, CountsAreNat
    <2>2. CASE work.src = "ipc"
      <3> DEFINE k == prompts.ipc + 1
      <3>1. prompts' = [prompts EXCEPT !.ipc = k]
        BY <2>2 DEF RequestApproval
      <3> HIDE DEF k
      <3>2. prompts'.notif = prompts.notif
        BY <3>1, UnchangedTyped
      <3> QED BY <2>0, <3>2, CountsAreNat
    <2> QED BY <1>0, <2>1, <2>2 DEF Sources
  <1>4. TokensAccounted'
    BY <1>0, <1>3, CountsAreNat DEF SafeInv, TokensAccounted
  <1>5. (OpenedIsPermitted /\ GrantIsRecorded)'
    BY <1>2 DEF OpenedIsPermitted, GrantIsRecorded, OpenedSteps
  <1>6. DigestIsAllowed'
    BY <1>0, <1>2 DEF SafeInv, DigestIsAllowed, should_block
  <1>7. CacheIsTrusted'
    BY <1>0 DEF SafeInv, CacheIsTrusted
  <1> QED BY <1>0, <1>4, <1>5, <1>6, <1>7, SafeFrame

\* RecordAudit keeps SafeInv.
LEMMA RecordAuditSafe ==
  ASSUME TypeInv, SafeInv, NEW ok \in BOOLEAN, RecordAudit(ok) PROVE SafeInv'
  <1>0. work.pc = "audit" /\ work.granted \in BOOLEAN /\ Held = 0
    BY UnchangedTyped, WorkFields DEF RecordAudit, At, Held
  <1>1. UNCHANGED <<tokens, cache, fds, prompts>>
    BY DEF RecordAudit
  <1>2. CASE ~ok
    <2>1. AppendFailed /\ work' = Idle /\ UNCHANGED audit
      BY <1>2 DEF RecordAudit, AppendFailed
    <2> QED BY <1>1, <2>1, IdleIsEarly, FailureKeepsRefills, QuietKeepsSafe DEF QuietStep
  <1>3. CASE ok
    <2>1. audit' = audit \cup {RecordOf(work.granted)} /\ UNCHANGED used
      BY <1>3 DEF RecordAudit, RecordOf
    <2>2. \/ work' = Idle
          \/ work' = Goto("second_check")
          \/ work.granted = TRUE /\ work' = SetHow("open", "approved")
      BY <1>0, <1>3, Zenon DEF RecordAudit, Refuse, SetHow
    <2>3. CASE work' = Idle
      BY <1>1, <2>1, <2>3, IdleIsEarly, QuietKeepsSafe DEF QuietStep
    <2>4. CASE \/ work' = Goto("second_check")
               \/ work.granted = TRUE /\ work' = SetHow("open", "approved")
      <3>1. /\ work'.pc \in {"second_check", "open"}
            /\ work'.src = work.src /\ work'.id = work.id /\ work'.granted = work.granted
            /\ work'.name = work.name /\ work'.digest = work.digest
            /\ work'.pc = "open" => work.granted = TRUE
        <4>1. CASE work' = Goto("second_check")
          BY <4>1, GotoTyped, UnchangedTyped DEF Steps
        <4>2. CASE work.granted = TRUE /\ work' = SetHow("open", "approved")
          BY <4>2, SetHowTyped, UnchangedTyped DEF Steps
        <4> QED BY <2>4, <4>1, <4>2
      <3>2. TokensAccounted'
        <4>1. Held' = 0
          BY <3>1 DEF Held
        <4> QED BY <1>0, <1>1, <2>1, <4>1 DEF SafeInv, TokensAccounted
      <3>3. GrantIsRecorded'
        <4>1. work.granted = TRUE => RecordOf(TRUE) \in audit'
          BY <2>1
        <4>2. RecordOf(TRUE)' = RecordOf(TRUE)
          BY <3>1 DEF RecordOf
        <4> QED BY <3>1, <4>1, <4>2 DEF GrantIsRecorded, OpenedSteps
      <3>4. OpenedIsPermitted' /\ DigestIsAllowed'
        BY <1>0, <3>1 DEF SafeInv, OpenedIsPermitted, OpenedSteps, DigestIsAllowed, should_block
      <3>5. CacheIsTrusted'
        BY <1>1 DEF SafeInv, CacheIsTrusted
      <3> QED BY <1>1, <2>1, <3>2, <3>3, <3>4, <3>5, SafeFrame
    <2> QED BY <2>2, <2>3, <2>4
  <1> QED BY <1>2, <1>3

\* SecondCheck keeps SafeInv.
LEMMA SecondCheckSafe == ASSUME TypeInv, SafeInv, SecondCheck PROVE SafeInv'
  <1>0. work.pc = "second_check" /\ work.granted \in BOOLEAN /\ Held = 0
    BY UnchangedTyped, WorkFields DEF SecondCheck, At, Held
  <1>1. UNCHANGED <<tokens, cache, fds, prompts, audit, used>>
    BY DEF SecondCheck
  <1>2. work' = Idle \/ (work.granted = TRUE /\ work' = SetHow("open", "approved"))
    BY <1>0, Zenon DEF SecondCheck, Refuse, SetHow
  <1>3. CASE work' = Idle
    BY <1>1, <1>3, IdleIsEarly, QuietKeepsSafe DEF QuietStep
  <1>4. CASE work.granted = TRUE /\ work' = SetHow("open", "approved")
    <2>1. /\ work'.pc = "open" /\ work'.src = work.src /\ work'.id = work.id
          /\ work'.name = work.name /\ work'.digest = work.digest
      BY <1>4, SetHowTyped, UnchangedTyped DEF Steps
    <2>2. TokensAccounted'
      <3>1. Held' = 0
        BY <2>1 DEF Held
      <3> QED BY <1>0, <1>1, <3>1 DEF SafeInv, TokensAccounted
    <2>3. GrantIsRecorded'
      <3>1. RecordOf(TRUE) \in audit
        BY <1>0, <1>4 DEF SafeInv, GrantIsRecorded
      <3>2. RecordOf(TRUE)' = RecordOf(TRUE)
        BY <2>1 DEF RecordOf
      <3> QED BY <1>1, <3>1, <3>2 DEF GrantIsRecorded
    <2>4. OpenedIsPermitted' /\ DigestIsAllowed'
      BY <1>0, <2>1 DEF SafeInv, OpenedIsPermitted, OpenedSteps, DigestIsAllowed, should_block
    <2>5. CacheIsTrusted'
      BY <1>1 DEF SafeInv, CacheIsTrusted
    <2> QED BY <1>1, <2>2, <2>3, <2>4, <2>5, SafeFrame
  <1> QED BY <1>2, <1>3, <1>4

\* The object is opened only after the policy has been applied to it.
LEMMA OpenPathSafe == ASSUME TypeInv, SafeInv, OpenPath PROVE SafeInv'
  <1>0. work.pc = "open" /\ work.name \in Names /\ Held = 0
    BY UnchangedTyped DEF OpenPath, At, Held, WorkOK
  <1>1. UNCHANGED <<tokens, cache, fds, prompts, audit, used>>
    BY DEF OpenPath
  <1>2. \/ work' = Idle
        \/ /\ Permitted(link[work.name], work.name)
           /\ work' = SetCanon("recheck", link[work.name])
    BY DEF OpenPath, Refuse, SetCanon, Permitted, overlapping_protected_root,
           is_under_deny_path
  <1>3. CASE work' = Idle
    BY <1>1, <1>3, IdleIsEarly, QuietKeepsSafe DEF QuietStep
  <1>4. CASE /\ Permitted(link[work.name], work.name)
             /\ work' = SetCanon("recheck", link[work.name])
    <2>1. link[work.name] \in Targets
      BY <1>0 DEF TypeInv, TypeOK
    <2>2. /\ work'.pc = "recheck" /\ work'.src = work.src /\ work'.id = work.id
          /\ work'.name = work.name /\ work'.digest = work.digest
          /\ work'.how = work.how /\ work'.canon = link[work.name]
      BY <1>4, <2>1, SetCanonTyped, UnchangedTyped DEF Steps
    <2>3. TokensAccounted'
      <3>1. Held' = 0
        BY <2>2 DEF Held
      <3> QED BY <1>0, <1>1, <3>1 DEF SafeInv, TokensAccounted
    <2>4. GrantIsRecorded'
      <3>1. work.how = "approved" => RecordOf(TRUE) \in audit
        BY <1>0 DEF SafeInv, GrantIsRecorded
      <3>2. RecordOf(TRUE)' = RecordOf(TRUE)
        BY <2>2 DEF RecordOf
      <3> QED BY <1>1, <2>2, <3>1, <3>2 DEF GrantIsRecorded
    <2>5. OpenedIsPermitted'
      BY <1>4, <2>2 DEF OpenedIsPermitted, Permitted
    <2>6. DigestIsAllowed'
      BY <1>0, <2>2 DEF SafeInv, DigestIsAllowed, should_block
    <2>7. CacheIsTrusted'
      BY <1>1 DEF SafeInv, CacheIsTrusted
    <2> QED BY <1>1, <2>3, <2>4, <2>5, <2>6, <2>7, SafeFrame
  <1> QED BY <1>2, <1>3, <1>4

\* A digest that was verified is the digest of the content handed over.
LEMMA DigestRecheckSafe == ASSUME TypeInv, SafeInv, DigestRecheck PROVE SafeInv'
  <1> DEFINE now == file[work.canon]
  <1>0. work.pc = "recheck" /\ work.name \in Names /\ work.canon \in Objects /\ Held = 0
    BY UnchangedTyped DEF DigestRecheck, At, Held, WorkOK, OpenedSteps
  <1>1. UNCHANGED <<tokens, cache, fds, prompts, audit, used>>
    BY DEF DigestRecheck
  <1>2. \/ work' = Idle
        \/ work.digest \in {Missing, now.digest} /\ work' = SetContent("inject", now)
    BY DEF DigestRecheck, Refuse, SetContent
  <1>3. CASE work' = Idle
    BY <1>1, <1>3, IdleIsEarly, QuietKeepsSafe DEF QuietStep
  <1>4. CASE work.digest \in {Missing, now.digest} /\ work' = SetContent("inject", now)
    <2>1. now \in Contents
      BY <1>0 DEF TypeInv, TypeOK
    <2> HIDE DEF now
    <2>2. /\ work'.pc = "inject" /\ work'.src = work.src /\ work'.id = work.id
          /\ work'.name = work.name /\ work'.how = work.how /\ work'.canon = work.canon
          /\ work'.content = now
      BY <1>4, <2>1, SetContentTyped, UnchangedTyped DEF Steps
    <2>3. TokensAccounted'
      <3>1. Held' = 0
        BY <2>2 DEF Held
      <3> QED BY <1>0, <1>1, <3>1 DEF SafeInv, TokensAccounted
    <2>4. GrantIsRecorded'
      <3>1. work.how = "approved" => RecordOf(TRUE) \in audit
        BY <1>0 DEF SafeInv, GrantIsRecorded, OpenedSteps
      <3>2. RecordOf(TRUE)' = RecordOf(TRUE)
        BY <2>2 DEF RecordOf
      <3> QED BY <1>1, <2>2, <3>1, <3>2 DEF GrantIsRecorded
    <2>5. OpenedIsPermitted'
      BY <1>0, <2>2 DEF SafeInv, OpenedIsPermitted, OpenedSteps, Permitted
    <2>6. DigestIsAllowed'
      <3>1. work.name \in InstructionNames /\ work.how = "approved"
              => ~should_block(now.digest)
        BY <1>0, <1>4, SupervisorConstants DEF SafeInv, DigestIsAllowed
      <3> QED BY <2>2, <3>1 DEF DigestIsAllowed, should_block
    <2>7. CacheIsTrusted'
      BY <1>1 DEF SafeInv, CacheIsTrusted
    <2> QED BY <1>1, <2>3, <2>4, <2>5, <2>6, <2>7, SafeFrame
  <1> QED BY <1>2, <1>3, <1>4

\* What SafeInv says of the request in hand it says of its descriptor.
LEMMA HandOverSafe ==
  ASSUME TypeInv, SafeInv, work.pc = "inject", work' = Idle,
         fds' = fds \/ fds' = fds \cup {Descriptor},
         UNCHANGED <<tokens, cache, prompts, audit, used>>
  PROVE  SafeInv'
  <1>1. /\ Descriptor.src = work.src /\ Descriptor.id = work.id
        /\ Descriptor.name = work.name /\ Descriptor.obj = work.canon
        /\ Descriptor.how = work.how /\ Descriptor.content = work.content
    BY DEF Descriptor
  <1>2. ASSUME NEW f \in fds' PROVE f \in fds \/ f = Descriptor
    BY <1>2
  <1>3. HandedOverIsPermitted'
    <2>1. Descriptor.how # "comm" => Permitted(Descriptor.obj, Descriptor.name)
      BY <1>1 DEF SafeInv, OpenedIsPermitted, OpenedSteps
    <2> QED BY <1>2, <2>1 DEF SafeInv, HandedOverIsPermitted, Permitted
  <1>4. ApprovedFdsAudited'
    <2>1. Descriptor.how = "approved"
            => [src |-> Descriptor.src, id |-> Descriptor.id, granted |-> TRUE] \in audit
      BY <1>1 DEF SafeInv, GrantIsRecorded, OpenedSteps, RecordOf
    <2> QED BY <1>2, <2>1 DEF SafeInv, ApprovedFdsAudited
  <1>5. InstructionContentAllowed'
    <2>1. Descriptor.how = "approved" /\ Descriptor.name \in InstructionNames
            => ~should_block(Descriptor.content.digest)
      BY <1>1 DEF SafeInv, DigestIsAllowed
    <2> QED BY <1>2, <2>1 DEF SafeInv, InstructionContentAllowed, should_block
  <1>6. TokensAccounted'
    <2>1. Held' = 0
      BY DEF Held, Idle
    <2> QED BY <2>1, CountsAreNat DEF SafeInv, TokensAccounted
  <1>7. (OpenedIsPermitted /\ GrantIsRecorded /\ DigestIsAllowed)'
    <2>1. work'.pc = "poll"
      BY DEF Idle
    <2> QED BY <2>1 DEF OpenedIsPermitted, GrantIsRecorded, DigestIsAllowed, OpenedSteps
  <1>8. CacheIsTrusted'
    BY DEF SafeInv, CacheIsTrusted
  <1> QED BY <1>3, <1>4, <1>5, <1>6, <1>7, <1>8 DEF SafeInv

\* The supervisor's steps keep SafeInv.
LEMMA SupervisorSafe == ASSUME TypeInv, SafeInv, SupervisorStep PROVE SafeInv'
  <1>1. CASE \/ \E i \in Ids, n \in Names : RecvNotif(i, n)
             \/ \E a \in Access : FirstCheck(a)
             \/ Canonicalize \/ PolicyCheck \/ ExistsCheck
             \/ RecvRequest \/ RefuseRequest \/ RequestProtected
    BY <1>1, EarlyQuiet, QuietKeepsSafe
  <1>2. CASE InjectFd \/ SendFd
    BY <1>2, HandOverSafe DEF InjectFd, SendFd, At
  <1> QED BY <1>1, <1>2, GatesSafe, RequestDeniedSafe, CheckPathSafe, StoreCacheSafe,
             RequestApprovalSafe, RecordAuditSafe, SecondCheckSafe, OpenPathSafe,
             DigestRecheckSafe DEF SupervisorStep

\* Leaving the loop keeps SafeInv.
LEMMA LeaveLoopSafe == ASSUME TypeInv, SafeInv, LeaveLoop PROVE SafeInv'
  <1>1. work'.pc = "left"
    BY DEF LeaveLoop, Idle
  <1>2. UNCHANGED <<tokens, cache, fds, prompts, audit, used>>
    BY DEF LeaveLoop
  <1> QED BY <1>1, <1>2, QuietKeepsSafe DEF QuietStep, EarlySteps

\* A stuttering step keeps SafeInv.
LEMMA StutterSafe == ASSUME TypeInv, SafeInv, UNCHANGED vars PROVE SafeInv'
  <1>1. QuietStep
    BY DEF QuietStep, vars
  <1> QED BY <1>1, QuietKeepsSafe

\* The inductive invariant of the supervisor: what holds of the request in hand
\* at each step of the handlers, whatever the child relinks or rewrites.
THEOREM SafetyInvariant == Spec => [](TypeInv /\ SafeInv)
  <1>1. Init => TypeInv /\ SafeInv
    BY InitTypeInv, InitSafe
  <1>2. TypeInv /\ SafeInv /\ [Next]_vars => TypeInv' /\ SafeInv'
    BY ChildTypeInv, SupervisorTypeInv, LeaveLoopTyped, StutterTypeInv, ChildSafe,
       SupervisorSafe, LeaveLoopSafe, StutterSafe DEF Next
  <1> QED BY <1>1, <1>2, PTL DEF Spec

\* No interleaving of the child with the checks, the approval and the open
\* makes open_path_for_access hand over a protected, denied or blocked object.
THEOREM HandedOverPermitted == Spec => []HandedOverIsPermitted
  <1>1. SafeInv => HandedOverIsPermitted
    BY DEF SafeInv
  <1> QED BY <1>1, SafetyInvariant, PTL

\* No descriptor is handed over on approval before its grant is in the audit
\* log, however many appends fail.
THEOREM GrantsRecordedFirst == Spec => []ApprovedFdsAudited
  <1>1. SafeInv => ApprovedFdsAudited
    BY DEF SafeInv
  <1> QED BY <1>1, SafetyInvariant, PTL

\* Neither the trust cache nor a swap after verification lets a blocked
\* instruction file through.
THEOREM InstructionsVerified == Spec => []InstructionContentAllowed
  <1>1. SafeInv => InstructionContentAllowed
    BY DEF SafeInv
  <1> QED BY <1>1, SafetyInvariant, PTL

\* The rate limiter bounds the notifications the approval backend is asked
\* about, for every burst and every refill schedule.
THEOREM PromptsLimited == Spec => []NotificationPromptsLimited
  <1>1. TypeInv /\ SafeInv => NotificationPromptsLimited
    BY CountsAreNat DEF SafeInv, TokensAccounted, NotificationPromptsLimited
  <1> QED BY <1>1, SafetyInvariant, PTL

-----------------------------------------------------------------------------
(* Replay detection. *)

GrantedAt(i) == out[i].kind = "decision" /\ out[i].granted
NotAccepted == {"poll", "ipc_refuse"}

\* What replay detection rests on: a granted id was remembered, and the request
\* in hand, once accepted, is remembered and has not been granted before.
GrantsRemembered == \A i \in DOMAIN out : GrantedAt(i) => out[i].rid \in seen
RequestIsFresh ==
    (work.src = "ipc" /\ work.pc \notin NotAccepted) =>
        /\ work.id \in seen
        /\ \A i \in DOMAIN out : GrantedAt(i) => out[i].rid # work.id

ReplayInv == GrantsRemembered /\ RequestIsFresh /\ GrantedOncePerRequestId

\* No answer is a grant, and the request in hand stays or is given up.
NoGrantStep ==
    /\ UNCHANGED seen
    /\ out' = out \/ out' = Append(out, Decision(FALSE))
    /\ \/ work' = work
       \/ work'.src # "ipc"
       \/ work'.src = work.src /\ work'.id = work.id /\ work.pc \notin NotAccepted

\* Where the old answers are after one more.
LEMMA AppendedAnswers ==
  ASSUME NEW S, NEW s \in Seq(S), NEW m
  PROVE  /\ DOMAIN Append(s, m) = DOMAIN s \cup {Len(s) + 1}
         /\ \A i \in DOMAIN s : Append(s, m)[i] = s[i]
         /\ Append(s, m)[Len(s) + 1] = m
         /\ Len(s) + 1 \notin DOMAIN s
  OBVIOUS

\* A step without a grant keeps the replay invariant.
LEMMA NoGrantKeepsReplay == ASSUME TypeInv, ReplayInv, NoGrantStep PROVE ReplayInv'
  <1>1. out \in Seq(Messages)
    BY DEF TypeInv, TypeOK
  <1>2. \A i \in (DOMAIN out)' : GrantedAt(i)' => i \in DOMAIN out /\ out'[i] = out[i]
    <2>1. CASE out' = out
      BY <2>1
    <2>2. CASE out' = Append(out, Decision(FALSE))
      BY <1>1, <2>2, AppendedAnswers DEF GrantedAt, Decision
    <2> QED BY <2>1, <2>2 DEF NoGrantStep
  <1>3. GrantsRemembered'
    BY <1>2 DEF ReplayInv, GrantsRemembered, GrantedAt, NoGrantStep
  <1>4. GrantedOncePerRequestId'
    <2> SUFFICES ASSUME NEW i \in (DOMAIN out)', NEW j \in (DOMAIN out)', out'[i] = out'[j],
                        GrantedAt(i)'
                 PROVE  i = j
      BY DEF GrantedOncePerRequestId, GrantedAt
    <2>1. GrantedAt(j)'
      BY DEF GrantedAt
    <2> QED BY <1>2, <2>1 DEF ReplayInv, GrantedOncePerRequestId, GrantedAt
  <1>5. RequestIsFresh'
    BY <1>2 DEF ReplayInv, RequestIsFresh, GrantedAt, NoGrantStep
  <1> QED BY <1>3, <1>4, <1>5 DEF ReplayInv

\* Giving up the request in hand.
LEMMA GivenUp == ASSUME work' = Idle PROVE work'.src # "ipc"
  BY DEF Idle

\* The child's steps grant nothing.
LEMMA ChildGrantsNothing == ASSUME ChildStep PROVE NoGrantStep
  BY DEF ChildStep, Relink, Rewrite, Openat, Interrupt, SendRequest, NoGrantStep

\* Receiving a notification, and refusing a request, grant nothing.
LEMMA ReceiveGrantsNothing ==
  ASSUME TypeInv,
         (\E i \in Ids, n \in Names : RecvNotif(i, n)) \/ RefuseRequest
  PROVE  NoGrantStep
  <1>1. ASSUME NEW i \in Ids, NEW n \in Names, RecvNotif(i, n) PROVE NoGrantStep
    <2>1. work' = work \/ work' = TakenNotif(i, n)
      BY <1>1 DEF RecvNotif, TakenNotif
    <2>2. work' = work \/ work'.src # "ipc"
      BY <2>1, TakenNotifTyped
    <2> QED BY <1>1, <2>2 DEF RecvNotif, NoGrantStep
  <1>2. CASE RefuseRequest
    BY <1>2, GivenUp DEF RefuseRequest, RefuseAndAudit, Refuse, NoGrantStep
  <1> QED BY <1>1, <1>2

\* The steps of the two handlers between taking a request and handing over
\* keep its source and its id, or give it up.
LEMMA HandlersGrantNothing ==
  ASSUME TypeInv,
         \/ \E a \in Access : FirstCheck(a)
         \/ Canonicalize \/ PolicyCheck \/ ExistsCheck
         \/ \E k \in 0 .. MaxRefills : Gates(k)
         \/ CheckPath \/ StoreCache
         \/ \E answer \in {"granted", "denied", "error"} : RequestApproval(answer)
         \/ \E ok \in BOOLEAN : RecordAudit(ok)
         \/ SecondCheck \/ OpenPath \/ DigestRecheck \/ InjectFd
         \/ RequestProtected \/ RequestDenied
  PROVE  NoGrantStep
  <1> DEFINE Kept == work' = Idle \/ (work'.src = work.src /\ work'.id = work.id)
             Silent == out' = out \/ out' = Append(out, Decision(FALSE))
  <1>0. work \in Works
    BY UnchangedTyped
  <1>1. SUFFICES Kept /\ Silent /\ UNCHANGED seen /\ work.pc \notin NotAccepted
    BY GivenUp DEF NoGrantStep
  <1>2. ASSUME NEW a \in Access, FirstCheck(a)
        PROVE  Kept /\ Silent /\ UNCHANGED seen /\ work.pc \notin NotAccepted
    BY <1>0, <1>2 DEF FirstCheck, Refuse, At, NotAccepted, Works
  <1>3. CASE Canonicalize \/ PolicyCheck \/ ExistsCheck
    BY <1>0, <1>3 DEF Canonicalize, PolicyCheck, ExistsCheck, ContinueIfValid, Refuse, Goto,
                      At, NotAccepted, Works
  <1>4. ASSUME NEW k \in 0 .. MaxRefills, Gates(k)
        PROVE  Kept /\ Silent /\ UNCHANGED seen /\ work.pc \notin NotAccepted
    BY <1>0, <1>4 DEF Gates, Refuse, Goto, At, NotAccepted, Works
  <1>5. CASE CheckPath \/ StoreCache
    BY <1>0, <1>5 DEF CheckPath, StoreCache, RefuseAndAudit, Refuse, Goto, At, NotAccepted,
                      Works
  <1>6. ASSUME NEW answer \in {"granted", "denied", "error"}, RequestApproval(answer)
        PROVE  Kept /\ Silent /\ UNCHANGED seen /\ work.pc \notin NotAccepted
    BY <1>0, <1>6 DEF RequestApproval, At, NotAccepted, Works
  <1>7. ASSUME NEW ok \in BOOLEAN, RecordAudit(ok)
        PROVE  Kept /\ Silent /\ UNCHANGED seen /\ work.pc \notin NotAccepted
    BY <1>0, <1>7 DEF RecordAudit, Refuse, Goto, At, NotAccepted, Works
  <1>8. CASE SecondCheck \/ OpenPath \/ DigestRecheck \/ InjectFd
    BY <1>0, <1>8 DEF SecondCheck, OpenPath, DigestRecheck, InjectFd, Refuse, At,
                      NotAccepted, Works
  <1>9. CASE RequestProtected \/ RequestDenied
    BY <1>0, <1>9 DEF RequestProtected, RequestDenied, Goto, At, NotAccepted, Works
  <1> QED BY <1>2, <1>3, <1>4, <1>5, <1>6, <1>7, <1>8, <1>9

\* An accepted request is new: its id is remembered now and was not before.
LEMMA RecvRequestReplay == ASSUME TypeInv, ReplayInv, RecvRequest PROVE ReplayInv'
  <1>1. Head(inbox) \in Requests
    BY UnchangedTyped DEF RecvRequest
  <1>2. UNCHANGED out /\ seen \subseteq seen'
    BY DEF RecvRequest
  <1>3. GrantsRemembered' /\ GrantedOncePerRequestId'
    BY <1>2 DEF ReplayInv, GrantsRemembered, GrantedOncePerRequestId, GrantedAt
  <1>4. CASE Head(inbox).rid \in seen \/ Cardinality(seen) >= MaxTracked
    <2>1. work' = TakenRequest("ipc_refuse", Head(inbox))
      BY <1>4, ZenonT(30) DEF RecvRequest, TakenRequest, Idle
    <2>2. work'.pc = "ipc_refuse"
      BY <2>1 DEF TakenRequest
    <2> QED BY <1>3, <2>2 DEF ReplayInv, RequestIsFresh, NotAccepted
  <1>5. CASE ~(Head(inbox).rid \in seen \/ Cardinality(seen) >= MaxTracked)
    <2>1. work' = TakenRequest("ipc_protected", Head(inbox))
      BY <1>5, ZenonT(30) DEF RecvRequest, TakenRequest, Idle
    <2>2. work'.id = Head(inbox).rid
      BY <2>1 DEF TakenRequest
    <2>3. seen' = seen \cup {Head(inbox).rid}
      BY <1>5 DEF RecvRequest
    <2>4. RequestIsFresh'
      BY <1>2, <1>5, <2>2, <2>3 DEF ReplayInv, GrantsRemembered, RequestIsFresh, GrantedAt
    <2> QED BY <1>3, <2>4 DEF ReplayInv
  <1> QED BY <1>4, <1>5

\* The one step that grants a request grants an id that was not granted before.
LEMMA SendFdReplay == ASSUME TypeInv, ReplayInv, SendFd PROVE ReplayInv'
  <1>1. work'.src # "ipc" /\ UNCHANGED seen
    BY GivenUp DEF SendFd
  <1>2. CASE out' = Append(out, Decision(FALSE))
    BY <1>1, <1>2, NoGrantKeepsReplay DEF NoGrantStep
  <1>3. CASE out' = Append(Append(out, FdMessage), Decision(TRUE))
    <2>1. out \in Seq(Messages) /\ Append(out, FdMessage) \in Seq(Messages)
      BY DEF TypeInv, TypeOK, WorkOK, SendFd, FdMessage, Messages
    <2>2. \A i \in (DOMAIN out)' : GrantedAt(i)' =>
              \/ i \in DOMAIN out /\ out'[i] = out[i]
              \/ i = Len(Append(out, FdMessage)) + 1 /\ out'[i] = Decision(TRUE)
      <3> DEFINE s == Append(out, FdMessage)
      <3>1. /\ (DOMAIN out)' = DOMAIN s \cup {Len(s) + 1}
            /\ \A i \in DOMAIN s : out'[i] = s[i]
            /\ out'[Len(s) + 1] = Decision(TRUE)
        BY <1>3, <2>1, AppendedAnswers
      <3>2. /\ DOMAIN s = DOMAIN out \cup {Len(out) + 1}
            /\ \A i \in DOMAIN out : s[i] = out[i]
            /\ s[Len(out) + 1] = FdMessage
        BY <2>1, AppendedAnswers
      <3>3. FdMessage.kind # "decision"
        BY DEF FdMessage
      <3> HIDE DEF s
      <3>4. \A i \in (DOMAIN out)' : GrantedAt(i)' =>
                \/ i \in DOMAIN out /\ out'[i] = out[i]
                \/ i = Len(s) + 1 /\ out'[i] = Decision(TRUE)
        BY <3>1, <3>2, <3>3 DEF GrantedAt
      <3> QED BY <3>4 DEF s
    <2>3. /\ work.id \in seen
          /\ \A i \in DOMAIN out : GrantedAt(i) => out[i].rid # work.id
      BY DEF ReplayInv, RequestIsFresh, SendFd, At, NotAccepted
    <2>4. GrantsRemembered'
      BY <1>1, <2>2, <2>3 DEF ReplayInv, GrantsRemembered, GrantedAt, Decision
    <2>5. GrantedOncePerRequestId'
      <3> SUFFICES ASSUME NEW i \in (DOMAIN out)', NEW j \in (DOMAIN out)', out'[i] = out'[j],
                          GrantedAt(i)'
                   PROVE  i = j
        BY DEF GrantedOncePerRequestId, GrantedAt
      <3>1. GrantedAt(j)'
        BY DEF GrantedAt
      <3> QED BY <2>2, <2>3, <3>1 DEF ReplayInv, GrantedOncePerRequestId, GrantedAt, Decision
    <2>6. RequestIsFresh'
      BY <1>1 DEF RequestIsFresh
    <2> QED BY <2>4, <2>5, <2>6 DEF ReplayInv
  <1> QED BY <1>2, <1>3 DEF SendFd

\* The replay invariant holds from the start and is kept by every step.
THEOREM ReplayInvariant == Spec => [](TypeInv /\ ReplayInv)
  <1>1. Init => TypeInv /\ ReplayInv
    <2>1. Init => ReplayInv
      BY DEF Init, Idle, ReplayInv, GrantsRemembered, RequestIsFresh, GrantedOncePerRequestId
    <2> QED BY <2>1, InitTypeInv
  <1>2. ASSUME TypeInv, ReplayInv, [Next]_vars PROVE TypeInv' /\ ReplayInv'
    <2>1. TypeInv'
      BY <1>2, ChildTypeInv, SupervisorTypeInv, LeaveLoopTyped, StutterTypeInv DEF Next
    <2>2. CASE ChildStep
      BY <1>2, <2>1, <2>2, ChildGrantsNothing, NoGrantKeepsReplay
    <2>3. CASE SupervisorStep
      BY <1>2, <2>1, <2>3, ReceiveGrantsNothing, HandlersGrantNothing, NoGrantKeepsReplay,
         RecvRequestReplay, SendFdReplay DEF SupervisorStep
    <2>4. CASE UNCHANGED vars
      BY <1>2, <2>1, <2>4, NoGrantKeepsReplay DEF NoGrantStep, vars
    <2>5. CASE LeaveLoop
      <3>1. work'.src = "none"
        BY <2>5 DEF LeaveLoop, Idle
      <3>2. NoGrantStep
        BY <2>5, <3>1 DEF NoGrantStep, LeaveLoop
      <3> QED BY <1>2, <2>1, <3>2, NoGrantKeepsReplay
    <2> QED BY <1>2, <2>1, <2>2, <2>3, <2>4, <2>5 DEF Next
  <1> QED BY <1>1, <1>2, PTL DEF Spec

\* However often the child replays a request id, at most one granted answer
\* carries it.
THEOREM GrantedOnce == Spec => []GrantedOncePerRequestId
  <1>1. ReplayInv => GrantedOncePerRequestId
    BY DEF ReplayInv
  <1> QED BY <1>1, ReplayInvariant, PTL
=============================================================================
