-------------------------- MODULE NetNotifyProofs ---------------------------
(***************************************************************************)
(* Proofs about NetNotify, for every policy, every set of calls and any    *)
(* number of notifications, relinks, refills and failing appends.          *)
(***************************************************************************)
EXTENDS NetNotify, TLAPS

Asked == {"ask", "prompt", "audit", "revalidate"}
InLoop == {"check", "decide"} \cup Asked

Places == {"poll", "check", "decide", "ask", "prompt", "audit", "revalidate", "deny",
           "respond", "continue"}
Marks == [at : Nat, key : Keys \cup {<<>>}]
Works ==
    [pc : Places,
     id : Ids \cup {NoId}, call : Calls \cup {Idle.call}, at : Nat,
     key : Keys \cup {<<>>}, answer : Answers \cup {"none"}, record : BOOLEAN,
     settled : SUBSET Marks]

UsedOK == used \in [refills : Nat, relinks : Nat, failures : Nat]

TypeInv == TypeOK /\ work \in Works /\ UsedOK

\* Where the loop over the destinations is, and what it holds there.
AtDestination ==
    /\ work.pc # "poll" => work.id \in Ids /\ work.call \in Calls
    /\ work.pc \in InLoop => work.at \in 1 .. Len(work.call.dests)
    /\ work.pc = "check" => work.at = 1
    /\ work.pc \in {"check", "decide"} => work.key = <<>>
    /\ work.pc \in Asked => work.key \in Keys
    /\ work.pc \in {"audit", "revalidate"} => work.answer \in Answers

Granted(k) == \E a \in Granting : [key |-> k, answer |-> a] \in audit

\* Every destination the loop has passed was let through.
PassedSettled ==
    /\ work.pc \in InLoop => \A n \in 1 .. work.at - 1 : Settled(n)
    /\ work.pc = "continue" => \A n \in 1 .. Len(work.call.dests) : Settled(n)

\* An answer that counts is in the audit log.
AnswersAudited ==
    /\ work.pc = "revalidate" /\ work.answer \in Granting => Granted(work.key)
    /\ \A k \in Keys : decisions[k] # "none" => [key |-> k, answer |-> decisions[k]] \in audit
    /\ work.pc \in {"prompt", "audit"} => decisions[work.key] = "none"

\* A refusal that will not have an event of its own is counted already; the
\* loop ends between two notifications, with nothing left to report.
DenialsCounted ==
    /\ denied <= events.single + events.summed + suppressed
    /\ work.pc = "respond" /\ ~work.record => denied < events.single + events.summed + suppressed
    /\ loop \in {"flushing", "ended"} => work.pc = "poll"
    /\ loop = "ended" => suppressed = 0

NetInv == TypeInv /\ AtDestination /\ PassedSettled /\ AnswersAudited /\ DenialsCounted

-----------------------------------------------------------------------------
(* Facts about the operators *)

\* An empty hand is a hand.
LEMMA IdleFacts ==
    /\ Idle \in Works /\ Idle.pc = "poll" /\ Idle.key = <<>> /\ Idle.at = 1 /\ Idle.settled = {}
  BY DEF Idle, Works, Places, NoId

\* The destinations of a call are addresses.
LEMMA DestFacts ==
  ASSUME TypeInv, AtDestination, work.pc \in InLoop
  PROVE  /\ Dest \in UnixAddrs \cup InetAddrs /\ work.call.nr \in Ops
         /\ work.call.dests \in Seq(UnixAddrs \cup InetAddrs)
         /\ Len(work.call.dests) \in Nat
  <1>1. work.call \in [nr : Ops, dests : Seq(UnixAddrs \cup InetAddrs), readable : BOOLEAN]
    BY NetConstants DEF AtDestination, InLoop, Asked
  <1>2. work.call.dests \in Seq(UnixAddrs \cup InetAddrs) /\ work.call.nr \in Ops
    BY <1>1
  <1>3. work.at \in 1 .. Len(work.call.dests)
    BY DEF AtDestination
  <1> QED BY <1>2, <1>3 DEF Dest

\* The policy allows, denies or asks, and it asks about existing sockets only.
LEMMA DecisionTotal ==
  ASSUME NEW a \in UnixAddrs \cup InetAddrs, NEW op \in Ops, TypeInv
  PROVE  LET d == decide_network_notification(a, op)
         IN  /\ d \in {"allow", "deny", "ask"}
             /\ d = "ask" => <<link[a.name], op>> \in Keys
  <1>1. CASE network_notification_out_of_scope(a)
    BY <1>1 DEF decide_network_notification
  <1>2. CASE ~network_notification_out_of_scope(a) /\ a \in InetAddrs
    <2>1. a.family = "inet"
      BY <1>2 DEF InetAddrs
    <2> QED BY <1>2, <2>1 DEF decide_network_notification
  <1>3. CASE ~network_notification_out_of_scope(a) /\ a \in UnixAddrs
    <2>1. a.family = "unix"
      BY <1>3 DEF UnixAddrs
    <2>2. CASE a.kind = "pathname"
      <3>1. a.name \in Names
        BY <1>3, <2>2 DEF UnixAddrs
      <3>2. link[a.name] \in Objects \cup {Missing}
        BY <3>1 DEF TypeInv, TypeOK
      <3>3. decide_network_notification(a, op) = decide_af_unix_pathname(a, op)
        BY <1>3, <2>1, <2>2 DEF decide_network_notification
      <3>4. CASE link[a.name] = Missing
        BY <3>3, <3>4 DEF decide_af_unix_pathname
      <3>5. CASE link[a.name] # Missing
        BY <3>2, <3>3, <3>5 DEF decide_af_unix_pathname, Keys
      <3> QED BY <3>4, <3>5
    <2>3. CASE a.kind # "pathname"
      BY <1>3, <2>1, <2>3 DEF decide_network_notification
    <2> QED BY <2>2, <2>3
  <1> QED BY <1>1, <1>2, <1>3

\* The log only grows, and so does what was let through on its strength.
LEMMA SettledStays ==
  ASSUME NEW n, Settled(n), work.settled \subseteq work'.settled, audit \subseteq audit'
  PROVE  Settled(n)'
  BY DEF Settled

\* The loop goes on with the same destination.
LEMMA SameDestination ==
  ASSUME PassedSettled, work.pc \in InLoop, work'.pc # "continue", work'.at = work.at,
         work'.settled = work.settled, audit \subseteq audit'
  PROVE  PassedSettled'
  BY SettledStays DEF PassedSettled

\* The loop goes on with the next destination, or is done with all of them.
LEMMA NextDestination ==
  ASSUME TypeInv, AtDestination, PassedSettled, work.pc \in InLoop, work' = NextDest,
         UNCHANGED audit, work.key # <<>> => Granted(work.key)
  PROVE  /\ work' \in Works /\ AtDestination' /\ PassedSettled'
         /\ work'.pc \in {"continue", "decide"}
  <1> DEFINE b == [at |-> work.at, key |-> work.key]
  <1>0. work \in Works /\ work.call.dests \in Seq(UnixAddrs \cup InetAddrs) /\ Len(work.call.dests) \in Nat
    BY DestFacts DEF TypeInv
  <1>1. /\ work'.at = work.at + 1 /\ work'.key = <<>> /\ work'.call = work.call
        /\ work'.settled = work.settled \cup {b} /\ work'.id = work.id
        /\ work'.pc = IF work.at = Len(work.call.dests) THEN "continue" ELSE "decide"
    BY <1>0 DEF NextDest, Works
  <1>2. work' \in Works
    <2>1. b \in Marks
      BY <1>0 DEF Works, Marks
    <2>2. work.settled \cup {b} \in SUBSET Marks
      BY <1>0, <2>1 DEF Works
    <2> DEFINE p == IF work.at = Len(work.call.dests) THEN "continue" ELSE "decide"
               n == work.at + 1
               S == work.settled \cup {b}
    <2>3. p \in Places /\ n \in Nat /\ S \in SUBSET Marks
      BY <1>0, <2>2 DEF Works, Places
    <2>4. work' = [pc |-> p, id |-> work.id, call |-> work.call, at |-> n, key |-> <<>>,
                   answer |-> "none", record |-> work.record, settled |-> S]
      BY <1>0 DEF NextDest, Works
    <2> HIDE DEF p, n, S
    <2> QED BY <1>0, <2>3, <2>4 DEF Works
  <1>3. work.at \in 1 .. Len(work.call.dests)
    BY DEF AtDestination
  <1>4. AtDestination'
    BY <1>0, <1>1, <1>3 DEF AtDestination, InLoop, Asked
  <1>5. ASSUME NEW n \in Nat, n = work.at PROVE Settled(n)'
    <2>1. b \in work'.settled /\ b.at = n /\ b.key = work.key
      BY <1>1, <1>5
    <2> HIDE DEF b
    <2> QED BY <2>1 DEF Settled, Granted
  <1>6. \A n \in 1 .. work.at - 1 : Settled(n)'
    BY <1>1, SettledStays DEF PassedSettled
  <1>7. \A n \in 1 .. work.at : Settled(n)'
    BY <1>0, <1>3, <1>5, <1>6
  <1>8. PassedSettled'
    BY <1>0, <1>1, <1>3, <1>7 DEF PassedSettled
  <1> QED BY <1>1, <1>2, <1>4, <1>8

-----------------------------------------------------------------------------
(* Type correctness *)

RestOK ==
    /\ notif \in [Ids -> {"unused", "pending", "received", "gone", "eperm", "eacces", "continued"}]
    /\ link \in [Names -> Objects \cup {Missing}]
    /\ loop \in {"running", "draining", "flushing", "ended"}
    /\ tokens \in 0 .. Burst /\ throttle \in 0 .. DenialBurst /\ suppressed \in Nat
    /\ decisions \in [Keys -> SessionScoped \cup {"none"}]
    /\ audit \subseteq [key : Keys, answer : Answers]
    /\ events \in [single : Nat, summed : Nat]
    /\ denied \in Nat

\* The type invariant is typing of the hand and of everything else.
LEMMA TypeParts == ASSUME RestOK', work' \in Works, UsedOK' PROVE TypeInv'
  BY DEF TypeInv, TypeOK, RestOK, Works, Places

\* The bounds are natural numbers.
LEMMA BoundsAreNat ==
    /\ Burst \in Nat /\ DenialBurst \in Nat /\ MaxRefills \in Nat /\ MaxRelinks \in Nat
    /\ MaxAuditFailures \in Nat /\ MaxNotifications \in Nat
  BY NetConstants

\* An answer of the kernel leaves the notifications typed.
LEMMA RespondTyped ==
  ASSUME TypeInv, NEW i, NEW a \in {"eacces", "continued"}
  PROVE  Respond(i, a) \in [Ids -> {"unused", "pending", "received", "gone", "eperm",
                                    "eacces", "continued"}]
  BY DEF Respond, TypeInv, TypeOK

\* The steps of the child and the kernel are typed.
LEMMA ChildTyped ==
  ASSUME TypeInv,
         \/ \E i \in Ids : Trap(i) \/ Interrupt(i)
         \/ \E n \in Names, o \in Objects \cup {Missing} : Relink(n, o)
  PROVE  TypeInv'
  <1>1. RestOK'
    BY DEF TypeInv, TypeOK, RestOK, Trap, Interrupt, Relink
  <1>2. work' \in Works
    BY DEF TypeInv, Trap, Interrupt, Relink
  <1>3. UsedOK'
    BY DEF TypeInv, UsedOK, Trap, Interrupt, Relink
  <1> QED BY <1>1, <1>2, <1>3, TypeParts

\* Receiving a notification is typed.
LEMMA RecvTyped ==
  ASSUME TypeInv, NEW i \in Ids, NEW c \in Calls, RecvNotif(i, c) PROVE TypeInv'
  <1>1. RestOK'
    BY DEF TypeInv, TypeOK, RestOK, RecvNotif
  <1>2. work' \in Works
    <2>1. CASE UNCHANGED work
      BY <2>1 DEF TypeInv
    <2>2. CASE work' = [Idle EXCEPT !.pc = "check", !.id = i, !.call = c]
      BY <2>2, IdleFacts DEF Works, Places
    <2> QED BY <2>1, <2>2 DEF RecvNotif
  <1>3. UsedOK'
    BY DEF TypeInv, UsedOK, RecvNotif
  <1> QED BY <1>1, <1>2, <1>3, TypeParts

\* So are the steps that only move the hand.
LEMMA MovesTyped ==
  ASSUME TypeInv, AtDestination, PassedSettled, AnswersAudited,
         NotifIdValid \/ Decide \/ Revalidate \/ \E a \in Answers : BackendAnswers(a)
  PROVE  TypeInv'
  <1>1. RestOK' /\ UsedOK'
    BY DEF TypeInv, TypeOK, RestOK, UsedOK, NotifIdValid, Decide, Revalidate,
           BackendAnswers,
           child
  <1> SUFFICES work' \in Works
    BY <1>1, TypeParts
  <1>2. ASSUME work' = NextDest, work.pc \in InLoop, work.key # <<>> => Granted(work.key)
        PROVE  work' \in Works
    <2>1. UNCHANGED audit
      BY DEF NotifIdValid, Decide, Revalidate, BackendAnswers
    <2> QED BY <1>2, <2>1, NextDestination
  <1>3. CASE NotifIdValid
    BY <1>3, IdleFacts DEF NotifIdValid, TypeInv, Works, Places
  <1>4. CASE Decide
    <2>1. work.pc \in InLoop /\ work.key = <<>>
      BY <1>4 DEF Decide, At, AtDestination, InLoop
    <2> DEFINE d == decide_network_notification(Dest, work.call.nr)
    <2>2. d \in {"allow", "deny", "ask"} /\ (d = "ask" => <<link[Dest.name], work.call.nr>> \in Keys)
      BY <2>1, DestFacts, DecisionTotal
    <2>3. CASE d = "allow"
      BY <1>4, <2>1, <2>3, <1>2 DEF Decide
    <2>4. CASE d = "deny"
      <3>1. work' = [work EXCEPT !.pc = "deny"]
        BY <1>4, <2>4 DEF Decide
      <3> QED BY <3>1 DEF TypeInv, Works, Places
    <2>5. CASE d = "ask"
      <3>1. work' = [work EXCEPT !.pc = "ask", !.key = <<link[Dest.name], work.call.nr>>]
        BY <1>4, <2>5 DEF Decide
      <3> QED BY <3>1, <2>2, <2>5 DEF TypeInv, Works, Places
    <2> QED BY <2>2, <2>3, <2>4, <2>5
  <1>5. CASE Revalidate
    <2>1. work.pc \in InLoop /\ (work.answer \in Granting => Granted(work.key))
      BY <1>5 DEF Revalidate, At, InLoop, Asked, AnswersAudited
    <2>2. CASE ~Alive(work.id)
      BY <1>5, <2>2, IdleFacts DEF Revalidate
    <2>3. CASE Alive(work.id) /\ work.answer \in Granting
      BY <1>5, <2>1, <2>3, <1>2 DEF Revalidate
    <2>4. CASE Alive(work.id) /\ work.answer \notin Granting
      <3>1. work' = [work EXCEPT !.pc = "deny"]
        BY <1>5, <2>4 DEF Revalidate
      <3> QED BY <3>1 DEF TypeInv, Works, Places
    <2> QED BY <2>2, <2>3, <2>4
  <1>6. CASE \E a \in Answers : BackendAnswers(a)
    BY <1>6 DEF BackendAnswers, TypeInv, Works, Places
  <1> QED BY <1>3, <1>4, <1>5, <1>6

\* The steps up to the prompt and its record are typed.
LEMMA ApprovalTyped ==
  ASSUME TypeInv, AtDestination,
         RecordAudit \/ \E k \in 0 .. MaxRefills : LookUpDecision(k)
  PROVE  TypeInv'
  <1>1. CASE RecordAudit
    <2>1. work.key \in Keys /\ work.answer \in Answers
      BY <1>1 DEF RecordAudit, At, AtDestination, Asked
    <2>2. work' \in Works
      BY <1>1, IdleFacts DEF RecordAudit, TypeInv, Works, Places
    <2>3. UsedOK'
      BY <1>1 DEF RecordAudit, TypeInv, UsedOK
    <2>4. decisions' \in [Keys -> SessionScoped \cup {"none"}]
      BY <1>1, <2>1 DEF RecordAudit, TypeInv, TypeOK, SessionScoped
    <2>5. notif' \in [Ids -> {"unused", "pending", "received", "gone", "eperm", "eacces",
                              "continued"}]
      BY <1>1, RespondTyped DEF RecordAudit, TypeInv, TypeOK
    <2>6. loop' \in {"running", "draining", "flushing", "ended"}
      BY <1>1 DEF RecordAudit, AfterError, TypeInv, TypeOK
    <2>7. audit' \subseteq [key : Keys, answer : Answers]
      BY <1>1, <2>1 DEF RecordAudit, TypeInv, TypeOK, AtDestination, At
    <2>8. RestOK'
      BY <1>1, <2>4, <2>5, <2>6, <2>7 DEF RecordAudit, TypeInv, TypeOK, RestOK
    <2> QED BY <2>2, <2>3, <2>8, TypeParts
  <1>2. ASSUME NEW k \in 0 .. MaxRefills, LookUpDecision(k) PROVE TypeInv'
    <2>0. k \in Nat /\ Burst \in Nat /\ tokens \in 0 .. Burst
      BY BoundsAreNat DEF TypeInv, TypeOK
    <2>1. k \in Nat /\ Refill(tokens, Burst, k) \in 0 .. Burst
      BY <2>0 DEF Refill
    <2>2. tokens' \in 0 .. Burst
      BY <1>2, <2>1, BoundsAreNat DEF LookUpDecision, TypeInv, TypeOK
    <2>3. RestOK'
      BY <1>2, <2>2 DEF LookUpDecision, child, TypeInv, TypeOK, RestOK
    <2>4. UsedOK'
      BY <1>2, <2>1 DEF LookUpDecision, TypeInv, UsedOK
    <2>5. work.key \in Keys
      BY <1>2 DEF LookUpDecision, At, AtDestination, Asked
    <2>6. decisions[work.key] \in Answers \cup {"none"}
      BY <2>5 DEF TypeInv, TypeOK, SessionScoped, Answers
    <2>7. \/ work' = [work EXCEPT !.pc = "revalidate", !.answer = "denied"]
          \/ work' = [work EXCEPT !.pc = "revalidate", !.answer = decisions[work.key]]
          \/ work' = [work EXCEPT !.pc = "prompt"]
      BY <1>2 DEF LookUpDecision
    <2>8. work' \in Works
      BY <2>6, <2>7 DEF TypeInv, Works, Places, Answers
    <2> QED BY <2>3, <2>4, <2>8, TypeParts
  <1> QED BY <1>1, <1>2

\* So are the answers, and the end of the loop.
LEMMA AnswersTyped ==
  ASSUME TypeInv, \/ RespondDenied \/ ContinueNotif \/ DrainEnds \/ FlushSuppressed
                  \/ \E next \in {"draining", "flushing"} : LoopEnds(next)
                  \/ \E k \in 0 .. MaxRefills : Admit(k)
  PROVE  TypeInv'
  <1>1. CASE RespondDenied \/ ContinueNotif
    <2>1. notif' \in [Ids -> {"unused", "pending", "received", "gone", "eperm", "eacces",
                              "continued"}]
      BY <1>1, RespondTyped DEF RespondDenied, ContinueNotif
    <2>2. loop' \in {"running", "draining", "flushing", "ended"}
      BY <1>1 DEF RespondDenied, ContinueNotif, LoopAfter, AfterError, TypeInv, TypeOK
    <2>3. events' \in [single : Nat, summed : Nat] /\ denied' \in Nat
      BY <1>1 DEF RespondDenied, ContinueNotif, TypeInv, TypeOK
    <2>4. RestOK'
      BY <1>1, <2>1, <2>2, <2>3 DEF RespondDenied, ContinueNotif, TypeInv, TypeOK,
                                    RestOK
    <2>5. work' \in Works /\ UsedOK'
      BY <1>1, IdleFacts DEF RespondDenied, ContinueNotif, TypeInv, UsedOK
    <2> QED BY <2>4, <2>5, TypeParts
  <1>2. CASE \/ DrainEnds \/ FlushSuppressed
             \/ \E next \in {"draining", "flushing"} : LoopEnds(next)
    <2>1. RestOK'
      BY <1>2 DEF DrainEnds, FlushSuppressed, LoopEnds, child, TypeInv, TypeOK, RestOK
    <2>2. work' \in Works /\ UsedOK'
      BY <1>2 DEF DrainEnds, FlushSuppressed, LoopEnds, TypeInv, UsedOK
    <2> QED BY <2>1, <2>2, TypeParts
  <1>3. ASSUME NEW k \in 0 .. MaxRefills, Admit(k) PROVE TypeInv'
    <2>0. k \in Nat /\ DenialBurst \in Nat /\ throttle \in 0 .. DenialBurst
      BY BoundsAreNat DEF TypeInv, TypeOK
    <2>1. k \in Nat /\ Refill(throttle, DenialBurst, k) \in 0 .. DenialBurst
      BY <2>0 DEF Refill
    <2>2. throttle' \in 0 .. DenialBurst
      BY <1>3, <2>1, BoundsAreNat DEF Admit
    <2>3. events' \in [single : Nat, summed : Nat] /\ suppressed' \in Nat
      BY <1>3 DEF Admit, TypeInv, TypeOK
    <2>4. RestOK'
      BY <1>3, <2>2, <2>3 DEF Admit, child, TypeInv, TypeOK, RestOK
    <2>5. work' \in Works
      BY <1>3 DEF Admit, TypeInv, Works, Places
    <2>6. UsedOK'
      BY <1>3, <2>1 DEF Admit, TypeInv, UsedOK
    <2> QED BY <2>4, <2>5, <2>6, TypeParts
  <1> QED BY <1>1, <1>2, <1>3
-----------------------------------------------------------------------------
(* Every step keeps the rest of the invariant *)

Kept == AtDestination /\ PassedSettled /\ AnswersAudited /\ DenialsCounted

ledgers == <<audit, decisions, events, suppressed, denied>>

\* The conjuncts about the hand hold of an empty one.
LEMMA EmptyHandKept ==
  ASSUME work' = Idle, audit' = audit, decisions' = decisions, AnswersAudited
  PROVE  AtDestination' /\ PassedSettled' /\ AnswersAudited'
  <1>1. work'.pc = "poll"
    BY IdleFacts
  <1>2. AnswersAudited'
    BY <1>1 DEF AnswersAudited
  <1>3. AtDestination' /\ PassedSettled'
    BY <1>1 DEF AtDestination, PassedSettled, InLoop, Asked
  <1> QED BY <1>2, <1>3

\* Refusals are counted as before by a step that neither refuses nor reports.
LEMMA CountsKept ==
  ASSUME DenialsCounted, UNCHANGED <<events, suppressed, denied, loop>>,
         work.pc # "poll", work'.pc # "respond"
  PROVE  DenialsCounted'
  BY DEF DenialsCounted

\* The steps of the child and the kernel, and those that stop the loop, leave
\* the hand and the books alone.
LEMMA QuietKept ==
  ASSUME NetInv,
         \/ \E i \in Ids : Trap(i) \/ Interrupt(i)
         \/ \E n \in Names, o \in Objects \cup {Missing} : Relink(n, o)
         \/ \E next \in {"draining", "flushing"} : LoopEnds(next)
         \/ DrainEnds
  PROVE  Kept'
  <1>1. UNCHANGED work /\ UNCHANGED ledgers
    BY DEF ledgers, Trap, Interrupt, Relink, LoopEnds, DrainEnds
  <1>2. AtDestination' /\ PassedSettled'
    BY <1>1, SettledStays DEF NetInv, AtDestination, PassedSettled, ledgers
  <1>3. AnswersAudited'
    BY <1>1 DEF NetInv, AnswersAudited, Granted, ledgers
  <1>4. loop' = loop \/ (work.pc = "poll" /\ loop' \in {"draining", "flushing"})
    BY DEF Trap, Interrupt, Relink, LoopEnds, DrainEnds, At
  <1>5. DenialsCounted'
    BY <1>1, <1>4 DEF NetInv, DenialsCounted, ledgers
  <1> QED BY <1>2, <1>3, <1>5 DEF Kept

\* A received call starts with the first of its destinations.
LEMMA RecvKept ==
  ASSUME NetInv, NEW i \in Ids, NEW c \in Calls, RecvNotif(i, c)
  PROVE  Kept'
  <1>1. UNCHANGED ledgers /\ UNCHANGED loop /\ loop \notin {"flushing", "ended"}
    BY DEF ledgers, RecvNotif
  <1>2. CASE UNCHANGED work
    <2>1. AtDestination' /\ PassedSettled'
      BY <1>1, <1>2, SettledStays DEF NetInv, AtDestination, PassedSettled, ledgers
    <2>2. AnswersAudited' /\ DenialsCounted'
      BY <1>1, <1>2 DEF NetInv, AnswersAudited, DenialsCounted, Granted, ledgers
    <2> QED BY <2>1, <2>2 DEF Kept
  <1>3. CASE /\ work' = [Idle EXCEPT !.pc = "check", !.id = i, !.call = c]
             /\ ~ \A n \in DOMAIN c.dests : network_notification_out_of_scope(c.dests[n])
    <2>1. /\ work'.pc = "check" /\ work'.id = i /\ work'.call = c /\ work'.at = 1
          /\ work'.key = <<>>
      BY <1>3 DEF Idle
    <2>2. c \in [nr : Ops, dests : Seq(UnixAddrs \cup InetAddrs), readable : BOOLEAN]
      BY NetConstants
    <2>3. c.dests \in Seq(UnixAddrs \cup InetAddrs)
      BY <2>2
    <2>4. 1 \in 1 .. Len(c.dests)
      BY <1>3, <2>3
    <2>5. AtDestination'
      BY <2>1, <2>4 DEF AtDestination, InLoop, Asked
    <2>6. PassedSettled'
      BY <2>1 DEF PassedSettled
    <2>7. AnswersAudited'
      BY <1>1, <2>1 DEF NetInv, AnswersAudited, ledgers
    <2>8. DenialsCounted'
      BY <1>1, <2>1 DEF NetInv, DenialsCounted, ledgers
    <2> QED BY <2>5, <2>6, <2>7, <2>8 DEF Kept
  <1> QED BY <1>2, <1>3 DEF RecvNotif

\* The check that the caller still waits gives the call up or goes on to the
\* first destination.
LEMMA CheckKept == ASSUME NetInv, NotifIdValid PROVE Kept'
  <1>1. UNCHANGED ledgers /\ UNCHANGED loop /\ work.pc = "check"
    BY DEF ledgers, NotifIdValid, At
  <1>2. CASE work' = Idle
    BY <1>1, <1>2, EmptyHandKept, IdleFacts, CountsKept DEF NetInv, Kept, ledgers
  <1>3. CASE work' = [work EXCEPT !.pc = "decide"]
    <2>1. /\ work'.pc = "decide" /\ work'.at = work.at /\ work'.settled = work.settled
          /\ work'.key = work.key /\ work'.call = work.call /\ work'.id = work.id
      BY <1>3 DEF NetInv, TypeInv, Works
    <2>2. AtDestination'
      BY <1>1, <2>1 DEF NetInv, AtDestination, InLoop, Asked
    <2>3. PassedSettled'
      BY <1>1, <2>1, SameDestination DEF NetInv, InLoop, ledgers
    <2>4. AnswersAudited'
      BY <1>1, <2>1 DEF NetInv, AnswersAudited, ledgers
    <2> QED BY <1>1, <2>1, <2>2, <2>3, <2>4, CountsKept DEF NetInv, Kept, ledgers
  <1> QED BY <1>2, <1>3 DEF NotifIdValid

\* The policy allows the destination in hand, refuses it, or has the user asked.
LEMMA DecideKept == ASSUME NetInv, Decide PROVE Kept'
  <1>1. /\ UNCHANGED ledgers /\ UNCHANGED loop /\ work.pc = "decide"
        /\ work.pc \in InLoop /\ work.key = <<>>
    BY DEF ledgers, Decide, At, InLoop, NetInv, AtDestination
  <1> DEFINE d == decide_network_notification(Dest, work.call.nr)
  <1>2. d \in {"allow", "deny", "ask"} /\ (d = "ask" => <<link[Dest.name], work.call.nr>> \in Keys)
    BY <1>1, DestFacts, DecisionTotal DEF NetInv
  <1>3. CASE d = "allow"
    <2>1. work' = NextDest
      BY <1>3 DEF Decide
    <2>2. AtDestination' /\ PassedSettled' /\ work'.pc \in {"continue", "decide"}
      BY <1>1, <2>1, NextDestination DEF NetInv, ledgers
    <2>3. AnswersAudited'
      BY <1>1, <2>2 DEF NetInv, AnswersAudited, ledgers
    <2> QED BY <1>1, <2>2, <2>3, CountsKept DEF NetInv, Kept, ledgers
  <1>4. CASE d = "deny"
    <2>1. work' = [work EXCEPT !.pc = "deny"]
      BY <1>4 DEF Decide
    <2>2. work'.pc = "deny" /\ work'.call = work.call /\ work'.id = work.id
      BY <2>1 DEF NetInv, TypeInv, Works
    <2>3. AtDestination' /\ PassedSettled' /\ AnswersAudited'
      BY <1>1, <2>2 DEF NetInv, AtDestination, PassedSettled, AnswersAudited, InLoop,
                        Asked,
                        ledgers
    <2> QED BY <1>1, <2>2, <2>3, CountsKept DEF NetInv, Kept, ledgers
  <1>5. CASE d = "ask"
    <2>1. work' = [work EXCEPT !.pc = "ask", !.key = <<link[Dest.name], work.call.nr>>]
      BY <1>5 DEF Decide
    <2>2. /\ work'.pc = "ask" /\ work'.at = work.at /\ work'.settled = work.settled
          /\ work'.key \in Keys /\ work'.call = work.call /\ work'.id = work.id
      BY <1>2, <1>5, <2>1 DEF NetInv, TypeInv, Works
    <2>3. AtDestination'
      BY <1>1, <2>2 DEF NetInv, AtDestination, InLoop, Asked
    <2>4. PassedSettled'
      BY <1>1, <2>2, SameDestination DEF NetInv, ledgers
    <2>5. AnswersAudited'
      BY <1>1, <2>2 DEF NetInv, AnswersAudited, ledgers
    <2> QED BY <1>1, <2>2, <2>3, <2>4, <2>5, CountsKept DEF NetInv, Kept, ledgers
  <1> QED BY <1>2, <1>3, <1>4, <1>5

\* A prompt is shown only without an answer for the session; with one, it is
\* the recorded answer that is used.
LEMMA LookUpKept == ASSUME NetInv, NEW k \in 0 .. MaxRefills, LookUpDecision(k) PROVE Kept'
  <1>1. /\ UNCHANGED ledgers /\ UNCHANGED loop /\ work.pc = "ask" /\ work.pc \in InLoop
        /\ work.key \in Keys
    BY DEF ledgers, LookUpDecision, At, InLoop, Asked, NetInv, AtDestination
  <1>2. \/ work' = [work EXCEPT !.pc = "revalidate", !.answer = "denied"]
        \/ /\ work' = [work EXCEPT !.pc = "revalidate", !.answer = decisions[work.key]]
           /\ decisions[work.key] # "none"
        \/ work' = [work EXCEPT !.pc = "prompt"] /\ decisions[work.key] = "none"
    BY DEF LookUpDecision
  <1>3. decisions[work.key] \in SessionScoped \cup {"none"}
    BY <1>1 DEF NetInv, TypeInv, TypeOK
  <1>4. /\ work'.pc \in {"revalidate", "prompt"} /\ work'.at = work.at
        /\ work'.settled = work.settled /\ work'.key = work.key /\ work'.call = work.call
        /\ work'.id = work.id
    BY <1>2 DEF NetInv, TypeInv, Works
  <1>5. /\ work'.pc = "revalidate" =>
             work'.answer = "denied" \/ (work'.answer = decisions[work.key]
                                           /\ decisions[work.key] # "none")
        /\ work'.pc = "prompt" => decisions[work.key] = "none"
    BY <1>2 DEF NetInv, TypeInv, Works
  <1>6. AtDestination'
    <2>1. work'.pc = "revalidate" => work'.answer \in Answers
      BY <1>3, <1>5 DEF SessionScoped, Answers
    <2> QED BY <1>1, <1>4, <2>1 DEF NetInv, AtDestination, InLoop, Asked
  <1>7. PassedSettled'
    BY <1>1, <1>4, SameDestination DEF NetInv, ledgers
  <1>8. AnswersAudited'
    <2>1. decisions[work.key] # "none" => [key |-> work.key, answer |-> decisions[work.key]] \in audit
      BY <1>1 DEF NetInv, AnswersAudited
    <2>2. work'.pc = "revalidate" /\ work'.answer \in Granting => Granted(work'.key)
      BY <1>4, <1>5, <2>1 DEF Granted, Granting
    <2>3. UNCHANGED <<audit, decisions>>
      BY <1>1 DEF ledgers
    <2> QED BY <1>4, <1>5, <2>2, <2>3 DEF NetInv, AnswersAudited, Granted
  <1> QED BY <1>1, <1>4, <1>6, <1>7, <1>8, CountsKept DEF NetInv, Kept, ledgers

\* The backend's answer is not used before it is in the log.
LEMMA BackendKept == ASSUME NetInv, NEW a \in Answers, BackendAnswers(a) PROVE Kept'
  <1>1. /\ UNCHANGED ledgers /\ UNCHANGED loop /\ work.pc = "prompt" /\ work.pc \in InLoop
    BY DEF ledgers, BackendAnswers, At, InLoop, Asked
  <1>2. /\ work'.pc = "audit" /\ work'.at = work.at /\ work'.answer = a
        /\ work'.settled = work.settled /\ work'.key = work.key /\ work'.call = work.call
        /\ work'.id = work.id
    BY DEF BackendAnswers, NetInv, TypeInv, Works
  <1>3. AtDestination'
    BY <1>1, <1>2 DEF NetInv, AtDestination, InLoop, Asked
  <1>4. PassedSettled'
    BY <1>1, <1>2, SameDestination DEF NetInv, ledgers
  <1>5. AnswersAudited'
    BY <1>1, <1>2 DEF NetInv, AnswersAudited, ledgers
  <1> QED BY <1>1, <1>2, <1>3, <1>4, <1>5, CountsKept DEF NetInv, Kept, ledgers

\* The record of an answer comes with the answer for the session; without the
\* record the call is refused.
LEMMA RecordKept == ASSUME NetInv, RecordAudit PROVE Kept'
  <1>1. /\ UNCHANGED <<events, suppressed, denied>> /\ work.pc = "audit" /\ work.pc \in InLoop
        /\ work.key \in Keys /\ work.answer \in Answers /\ loop \notin {"flushing", "ended"}
    BY DEF RecordAudit, At, InLoop, Asked, NetInv, AtDestination, DenialsCounted
  <1>2. CASE /\ audit' = audit \cup {[key |-> work.key, answer |-> work.answer]}
             /\ decisions' = IF work.answer \in SessionScoped
                             THEN [decisions EXCEPT ![work.key] = work.answer] ELSE decisions
             /\ work' = [work EXCEPT !.pc = "revalidate"]
             /\ UNCHANGED loop
    <2>1. /\ work'.pc = "revalidate" /\ work'.at = work.at /\ work'.answer = work.answer
          /\ work'.settled = work.settled /\ work'.key = work.key /\ work'.call = work.call
          /\ work'.id = work.id
      BY <1>2 DEF NetInv, TypeInv, Works
    <2>2. AtDestination'
      BY <1>1, <2>1 DEF NetInv, AtDestination, InLoop, Asked
    <2>3. PassedSettled'
      BY <1>1, <1>2, <2>1, SameDestination DEF NetInv
    <2>4. ASSUME NEW k \in Keys, decisions'[k] # "none"
          PROVE  [key |-> k, answer |-> decisions'[k]] \in audit'
      <3>1. decisions \in [Keys -> SessionScoped \cup {"none"}]
        BY DEF NetInv, TypeInv, TypeOK
      <3>2. CASE k = work.key /\ work.answer \in SessionScoped
        BY <1>1, <1>2, <3>1, <3>2
      <3>3. CASE ~(k = work.key /\ work.answer \in SessionScoped)
        <4>1. decisions'[k] = decisions[k]
          BY <1>1, <1>2, <3>1, <3>3
        <4> QED BY <1>2, <2>4, <4>1 DEF NetInv, AnswersAudited
      <3> QED BY <3>2, <3>3
    <2>5. AnswersAudited'
      BY <1>2, <2>1, <2>4 DEF AnswersAudited, Granted
    <2> QED BY <1>1, <1>2, <2>1, <2>2, <2>3, <2>5, CountsKept DEF NetInv, Kept
  <1>3. CASE work' = Idle /\ loop' = AfterError /\ UNCHANGED <<audit, decisions>>
    <2>1. AtDestination' /\ PassedSettled' /\ AnswersAudited'
      BY <1>3, EmptyHandKept DEF NetInv
    <2>2. DenialsCounted'
      BY <1>1, <1>3, IdleFacts DEF AfterError, NetInv, DenialsCounted
    <2> QED BY <2>1, <2>2 DEF Kept
  <1> QED BY <1>2, <1>3 DEF RecordAudit

\* An answer that grants lets the destination pass, with its record.
LEMMA RevalidateKept == ASSUME NetInv, Revalidate PROVE Kept'
  <1>1. /\ UNCHANGED ledgers /\ UNCHANGED loop /\ work.pc = "revalidate" /\ work.pc \in InLoop
        /\ work.answer \in Granting => Granted(work.key)
    BY DEF ledgers, Revalidate, At, InLoop, Asked, NetInv, AnswersAudited
  <1>2. CASE work' = Idle
    BY <1>1, <1>2, EmptyHandKept, IdleFacts, CountsKept DEF NetInv, Kept, ledgers
  <1>3. CASE work.answer \in Granting /\ work' = NextDest
    <2>2. AtDestination' /\ PassedSettled' /\ work'.pc \in {"continue", "decide"}
      BY <1>1, <1>3, NextDestination DEF NetInv, ledgers
    <2>3. AnswersAudited'
      BY <1>1, <2>2 DEF NetInv, AnswersAudited, ledgers
    <2> QED BY <1>1, <2>2, <2>3, CountsKept DEF NetInv, Kept, ledgers
  <1>4. CASE work' = [work EXCEPT !.pc = "deny"]
    <2>2. work'.pc = "deny" /\ work'.call = work.call /\ work'.id = work.id
      BY <1>4 DEF NetInv, TypeInv, Works
    <2>3. AtDestination' /\ PassedSettled' /\ AnswersAudited'
      BY <1>1, <2>2 DEF NetInv, AtDestination, PassedSettled, AnswersAudited, InLoop,
                        Asked,
                        ledgers
    <2> QED BY <1>1, <2>2, <2>3, CountsKept DEF NetInv, Kept, ledgers
  <1>5. \/ work' = Idle
        \/ work.answer \in Granting /\ work' = NextDest
        \/ work' = [work EXCEPT !.pc = "deny"]
    BY DEF Revalidate
  <1> QED BY <1>2, <1>3, <1>4, <1>5

\* A denial is admitted for an event of its own, after the summary of those
\* before it, or counted for the next summary.
LEMMA AdmitKept == ASSUME NetInv, NEW k \in 0 .. MaxRefills, Admit(k) PROVE Kept'
  <1>1. /\ UNCHANGED <<audit, decisions, denied, loop>> /\ work.pc = "deny"
        /\ loop \notin {"flushing", "ended"}
    BY DEF Admit, At, NetInv, DenialsCounted
  <1>2. /\ work'.pc = "respond" /\ work'.call = work.call /\ work'.id = work.id
    BY DEF Admit, NetInv, TypeInv, Works
  <1>3. AtDestination' /\ PassedSettled' /\ AnswersAudited'
    BY <1>1, <1>2 DEF NetInv, AtDestination, PassedSettled, AnswersAudited, InLoop,
                      Asked
  <1>4. \/ /\ events'.single = events.single /\ events'.summed = events.summed + suppressed
           /\ suppressed' = 0 /\ work'.record = TRUE
        \/ UNCHANGED events /\ suppressed' = suppressed + 1
    BY DEF Admit, NetInv, TypeInv, TypeOK, Works
  <1>5. events \in [single : Nat, summed : Nat] /\ denied \in Nat /\ suppressed \in Nat
    BY DEF NetInv, TypeInv, TypeOK
  <1>6. DenialsCounted'
    BY <1>1, <1>2, <1>4, <1>5 DEF NetInv, DenialsCounted
  <1> QED BY <1>3, <1>6 DEF Kept

\* A refusal that reaches its caller is counted once, by the event or by the
\* summary to come.
LEMMA RespondKept == ASSUME NetInv, RespondDenied PROVE Kept'
  <1>1. work.pc = "respond" /\ work' = Idle /\ loop' \in {loop, "flushing"}
        /\ UNCHANGED <<audit, decisions, suppressed>> /\ loop \notin {"flushing", "ended"}
    BY DEF RespondDenied, At, LoopAfter, AfterError, NetInv, DenialsCounted
  <1>2. AtDestination' /\ PassedSettled' /\ AnswersAudited'
    BY <1>1, EmptyHandKept DEF NetInv
  <1>3. events \in [single : Nat, summed : Nat] /\ denied \in Nat /\ suppressed \in Nat
    BY DEF NetInv, TypeInv, TypeOK
  <1>4. \/ UNCHANGED <<denied, events>>
        \/ ~work.record /\ denied' = denied + 1 /\ UNCHANGED events
        \/ /\ denied' = denied + 1
           /\ events'.single = events.single + 1 /\ events'.summed = events.summed
    BY <1>3 DEF RespondDenied
  <1>5. DenialsCounted'
    BY <1>1, <1>3, <1>4, IdleFacts DEF NetInv, DenialsCounted
  <1> QED BY <1>2, <1>5 DEF Kept

\* Continuing a call empties the hand.
LEMMA ContinueKept == ASSUME NetInv, ContinueNotif PROVE Kept'
  <1>1. work.pc = "continue" /\ work' = Idle /\ loop' \in {loop, "flushing"}
        /\ UNCHANGED ledgers /\ loop \notin {"flushing", "ended"}
    BY DEF ContinueNotif, At, LoopAfter, AfterError, NetInv, DenialsCounted, ledgers
  <1>2. AtDestination' /\ PassedSettled' /\ AnswersAudited'
    BY <1>1, EmptyHandKept DEF NetInv, ledgers
  <1>3. DenialsCounted'
    BY <1>1, IdleFacts DEF NetInv, DenialsCounted, ledgers
  <1> QED BY <1>2, <1>3 DEF Kept

\* The flush at the end reports whatever was suppressed.
LEMMA FlushKept == ASSUME NetInv, FlushSuppressed PROVE Kept'
  <1>1. work.pc = "poll" /\ UNCHANGED <<work, audit, decisions, denied>> /\ suppressed' = 0
    BY DEF FlushSuppressed, At
  <1>2. events \in [single : Nat, summed : Nat] /\ denied \in Nat /\ suppressed \in Nat
    BY DEF NetInv, TypeInv, TypeOK
  <1>3. events'.single = events.single /\ events'.summed = events.summed + suppressed
    BY <1>2 DEF FlushSuppressed
  <1>4. AtDestination' /\ PassedSettled' /\ AnswersAudited'
    BY <1>1 DEF NetInv, AtDestination, PassedSettled, AnswersAudited, InLoop, Asked
  <1>5. DenialsCounted'
    BY <1>1, <1>2, <1>3 DEF NetInv, DenialsCounted
  <1> QED BY <1>4, <1>5 DEF Kept

-----------------------------------------------------------------------------
(* The theorems *)

\* The invariant holds before the first notification.
LEMMA InitHolds == ASSUME Init PROVE NetInv
  <1>1. work \in Works /\ work.pc = "poll"
    BY IdleFacts DEF Init
  <1>2. UsedOK
    BY DEF Init, UsedOK
  <1>3. TypeOK
    BY <1>1, BoundsAreNat DEF Init, TypeOK, Works, Places
  <1>4. AtDestination /\ PassedSettled /\ AnswersAudited /\ DenialsCounted
    BY <1>1 DEF Init, AtDestination, PassedSettled, AnswersAudited, DenialsCounted,
                InLoop, Asked
  <1> QED BY <1>1, <1>2, <1>3, <1>4 DEF NetInv, TypeInv

\* Every step keeps the invariant: one case for each action.
LEMMA StepKeepsInv == ASSUME NetInv, Next PROVE NetInv'
  <1>0. TypeInv /\ AtDestination /\ PassedSettled /\ AnswersAudited
    BY DEF NetInv
  <1> SUFFICES TypeInv' /\ Kept'
    BY DEF NetInv, Kept
  <1>1. CASE \/ \E i \in Ids : Trap(i) \/ Interrupt(i)
             \/ \E n \in Names, o \in Objects \cup {Missing} : Relink(n, o)
    BY <1>0, <1>1, ChildTyped, QuietKept
  <1>2. CASE DrainEnds \/ \E next \in {"draining", "flushing"} : LoopEnds(next)
    BY <1>0, <1>2, AnswersTyped, QuietKept
  <1>3. CASE \E i \in Ids, c \in Calls : RecvNotif(i, c)
    BY <1>0, <1>3, RecvTyped, RecvKept
  <1>4. CASE NotifIdValid
    BY <1>0, <1>4, MovesTyped, CheckKept
  <1>5. CASE Decide
    BY <1>0, <1>5, MovesTyped, DecideKept
  <1>6. CASE RecordAudit
    BY <1>0, <1>6, ApprovalTyped, RecordKept
  <1>7. CASE Revalidate
    BY <1>0, <1>7, MovesTyped, RevalidateKept
  <1>8. CASE RespondDenied
    BY <1>0, <1>8, AnswersTyped, RespondKept
  <1>9. CASE ContinueNotif
    BY <1>0, <1>9, AnswersTyped, ContinueKept
  <1>10. CASE \E k \in 0 .. MaxRefills : LookUpDecision(k)
    BY <1>0, <1>10, ApprovalTyped, LookUpKept
  <1>11. CASE \E k \in 0 .. MaxRefills : Admit(k)
    BY <1>0, <1>11, AnswersTyped, AdmitKept
  <1>12. CASE \E a \in Answers : BackendAnswers(a)
    BY <1>0, <1>12, MovesTyped, BackendKept
  <1>13. CASE FlushSuppressed
    BY <1>0, <1>13, AnswersTyped, FlushKept
  <1> QED BY <1>1, <1>2, <1>3, <1>4, <1>5, <1>6, <1>7, <1>8, <1>9, <1>10, <1>11, <1>12,
             <1>13
          DEF Next, SupervisorStep

\* So does a step that changes nothing.
LEMMA StutterKeepsInv == ASSUME NetInv, UNCHANGED vars PROVE NetInv'
  <1>1. TypeInv'
    BY DEF NetInv, TypeInv, TypeOK, UsedOK, vars
  <1>2. AtDestination' /\ PassedSettled'
    BY SettledStays DEF NetInv, AtDestination, PassedSettled, vars
  <1>3. AnswersAudited' /\ DenialsCounted'
    BY DEF NetInv, AnswersAudited, Granted, DenialsCounted, vars
  <1> QED BY <1>1, <1>2, <1>3 DEF NetInv

\* The inductive invariant: what is in hand, which destinations it has passed,
\* which answers are recorded and which refusals are counted.
THEOREM NetInvariant == Spec => []NetInv
  <1>1. NetInv /\ [Next]_vars => NetInv'
    BY StepKeepsInv, StutterKeepsInv
  <1> QED BY <1>1, InitHolds, PTL DEF Spec

\* Every variable has its type, whatever the child does.
THEOREM NetTyped == Spec => []TypeOK
  <1>1. NetInv => TypeOK
    BY DEF NetInv, TypeInv
  <1> QED BY <1>1, NetInvariant, PTL

\* Whatever the child relinks, whichever answers the user gives and however
\* many destinations a call has, the kernel is told to continue only after each
\* of them was allowed, or granted by an answer that is in the audit log.
THEOREM ContinuedArePermitted == Spec => []ContinuedWasPermitted
  <1>1. NetInv => ContinuedWasPermitted
    <2> SUFFICES ASSUME NetInv, At("continue")
                 PROVE  \A n \in DOMAIN work.call.dests : Settled(n)
      BY DEF ContinuedWasPermitted
    <2>1. work.call \in [nr : Ops, dests : Seq(UnixAddrs \cup InetAddrs), readable : BOOLEAN]
      BY NetConstants DEF NetInv, AtDestination, At
    <2>2. DOMAIN work.call.dests = 1 .. Len(work.call.dests)
      BY <2>1
    <2> QED BY <2>2 DEF NetInv, PassedSettled, At
  <1> QED BY <1>1, NetInvariant, PTL

\* No refusal is lost from the audit trail, for any sizes of the buckets and
\* however the loop ends.
THEOREM NoDenialLost == Spec => []DenialsAccounted
  <1>1. NetInv => DenialsAccounted
    <2> SUFFICES ASSUME NetInv PROVE DenialsAccounted
      OBVIOUS
    <2>1. events \in [single : Nat, summed : Nat] /\ denied \in Nat /\ suppressed \in Nat
      BY DEF NetInv, TypeInv, TypeOK
    <2> QED BY <2>1 DEF NetInv, DenialsCounted, DenialsAccounted
  <1> QED BY <1>1, NetInvariant, PTL

\* An answer for the session is never replaced, and its socket and operation
\* are never put to the user again.
THEOREM SessionAnswersKept == Spec => SessionAnswersStand
  <1> DEFINE Stands == \A k \in Keys : decisions[k] # "none" =>
                 decisions'[k] = decisions[k] /\ ~(work'.pc = "prompt" /\ work'.key = k)
  <1>1. ASSUME NetInv, Next PROVE Stands
    <2> SUFFICES ASSUME NEW k \in Keys, decisions[k] # "none"
                 PROVE  decisions'[k] = decisions[k] /\ ~(work'.pc = "prompt" /\ work'.key = k)
      OBVIOUS
    <2>1. decisions'[k] = decisions[k]
      <3>1. CASE UNCHANGED decisions
        BY <3>1
      <3>2. CASE RecordAudit
        <4>1. k # work.key /\ work.key \in Keys
          BY <1>1, <3>2 DEF RecordAudit, At, NetInv, AnswersAudited, AtDestination,
                            Asked
        <4> QED BY <1>1, <3>2, <4>1 DEF RecordAudit, NetInv, TypeInv, TypeOK
      <3> QED BY <1>1, <3>1, <3>2
              DEF Next, SupervisorStep, Trap, Interrupt, Relink, LoopEnds, RecvNotif,
                  NotifIdValid, Decide, Revalidate, RespondDenied, ContinueNotif,
                  LookUpDecision, Admit, BackendAnswers, DrainEnds, FlushSuppressed
    <2>2. NetInv'
      BY <1>1, StepKeepsInv
    <2> QED BY <2>1, <2>2 DEF NetInv, AnswersAudited
  <1>2. ASSUME NetInv, NetInv', UNCHANGED vars PROVE Stands
    BY <1>2 DEF NetInv, AnswersAudited, vars
  <1>3. NetInv /\ NetInv' /\ [Next]_vars => [Stands]_vars
    BY <1>1, <1>2
  <1> QED BY <1>3, NetInvariant, PTL DEF Spec, SessionAnswersStand
=============================================================================
