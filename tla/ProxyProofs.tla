---------------------------- MODULE ProxyProofs ----------------------------
(***************************************************************************)
(* Proofs about the proxy, for every value of the constants.  HostApproval *)
(* first: what the log says, who reaches an upstream, and that the         *)
(* handlers implement HostArbiter.  Then the parts of Proxy, each through  *)
(* its instance: the accept loops, the reverse-proxy handler, the limiter, *)
(* the pool, the TLS handshake and the token cache.                        *)
(***************************************************************************)
EXTENDS HostApproval, Proxy, FiniteSetTheorems, SequenceTheorems, WellFoundedInduction, TLAPS


Leading == {"prompt", "settled"}
BeforeAnswer == {"new", "elect", "follow", "prompt", "cancelled"}
BeforeConnect == {"new", "elect", "follow", "prompt", "settled", "refused", "resolve"}
Asking == {"elect", "follow", "prompt", "settled", "resolve"}

\* A slot is open exactly while the connection it is named after leads.
SlotsLed ==
    /\ \A k \in Keys : in_flight[k] # NoConn =>
          key[in_flight[k]] = k /\ pc[in_flight[k]] \in Leading
    /\ \A c \in Conns : pc[c] \in Leading => in_flight[key[c]] = c

\* A follower waits for a leader with the same target.
SlotsShared ==
    \A c \in Conns :
        /\ slot[c] # NoConn => slot[c] \in Conns /\ key[slot[c]] = key[c]
        /\ pc[c] = "follow" => slot[c] # NoConn

\* Session answers are where the map says they are, and nobody is asked about a
\* target that has one.
AnswersKept ==
    \A c \in Conns :
        /\ pc[c] \in BeforeAnswer => decision[c] = "none"
        /\ pc[c] = "prompt" => session_decisions[key[c]] = "unset"
        /\ decision[c] = "GrantedForSession" => session_decisions[key[c]] = "allow"
        /\ published[c] = "GrantedForSession" => session_decisions[key[c]] = "allow"
        /\ is_granted(decision[c]) => ~late[c]

MayReach(c) ==
    \/ key[c] \in Allowlisted
    \/ /\ key[c] \notin HardDenied
       /\ session_decisions[key[c]] = "allow" \/ is_granted(decision[c])

\* Only unlisted targets are asked about, and a connection comes to its upstream
\* with authority.
Authority ==
    \A c \in Conns :
        /\ pc[c] \in Asking => key[c] \notin Allowlisted \cup HardDenied
        /\ pc[c] \in {"resolve", "connect", "answer"} \/ upstream[c] => MayReach(c)
        /\ pc[c] \in BeforeConnect \cup {"connect"} => ~upstream[c]

\* What the log holds at each step.
LogSoFar ==
    \A c \in Conns :
        /\ pc[c] \in BeforeConnect => audit[c] = {}
        /\ pc[c] \in {"connect", "answer"} => audit[c] \subseteq {"ApproveGranted"}
        /\ pc[c] \in {"connect", "answer"} /\ mode[c] = "connect" => audit[c] = {}


HostInv ==
    /\ TypeOK /\ SlotsLed /\ SlotsShared /\ AnswersKept /\ Authority /\ LogSoFar
    /\ LogMatchesOutcome

\* What the log says of one connection, as in LogMatchesOutcome.
LogSays(c) ==
    /\ pc[c] \in {"done", "relay"} => audit[c] # {}
    /\ upstream[c] => audit[c] \cap {"Denied", "ApproveDenied"} = {}
    /\ pc[c] = "relay" => audit[c] = {IF key[c] \in Allowlisted
                                      THEN "Allowed" ELSE "ApproveGranted"}

\* A step of one connection is judged by what the log says of that one.
LEMMA LogOfOthersStands ==
  ASSUME LogMatchesOutcome, NEW c \in Conns, UNCHANGED key, LogSays(c)',
         \A d \in Conns : d # c => /\ pc'[d] = pc[d] /\ audit'[d] = audit[d]
                                  /\ upstream'[d] = upstream[d]
  PROVE  LogMatchesOutcome'
  <1> SUFFICES ASSUME NEW d \in Conns PROVE LogSays(d)'
    BY DEF LogMatchesOutcome, LogSays
  <1>1. CASE d = c
    BY <1>1
  <1>2. CASE d # c
    BY <1>2 DEF LogMatchesOutcome, LogSays
  <1> QED BY <1>1, <1>2

\* Log adds the event and keeps the earlier ones.
LEMMA LogAdds ==
  ASSUME TypeOK, NEW c \in Conns, NEW e, Log(c, e)
  PROVE  audit'[c] = audit[c] \cup {e} /\ audit'[c] # {}
  BY DEF TypeOK, Log

\* The host filter keeps the invariant.
LEMMA CheckHostKeeps == ASSUME HostInv, NEW c \in Conns, CheckHost(c) PROVE HostInv'
  <1> USE TargetClasses DEF HostInv
  <1>1. TypeOK'
    BY DEF TypeOK, Decisions, CheckHost, GoTo, Log, promptVars
  <1>2. SlotsLed'
    BY DEF TypeOK, SlotsLed, Leading, CheckHost, GoTo, Log, promptVars
  <1>3. SlotsShared'
    BY DEF TypeOK, SlotsLed, SlotsShared, CheckHost, GoTo, Log, promptVars
  <1>4. AnswersKept'
    BY DEF TypeOK, Decisions, is_granted, SlotsLed, Leading, SlotsShared, AnswersKept,
           BeforeAnswer, CheckHost, GoTo, Log, promptVars
  <1>5. Authority'
    BY DEF TypeOK, Decisions, is_granted, SlotsShared, AnswersKept, BeforeAnswer,
           BeforeConnect, Asking, MayReach, Authority, CheckHost, GoTo, Log, promptVars
  <1>6. LogSoFar'
    BY DEF TypeOK, LogSoFar, BeforeConnect, CheckHost, GoTo, Log, promptVars
  <1>7. LogMatchesOutcome'
    <2>1. \A d \in Conns : d # c => /\ pc'[d] = pc[d] /\ audit'[d] = audit[d]
                                   /\ upstream'[d] = upstream[d]
      BY DEF TypeOK, CheckHost, GoTo, Log, promptVars
    <2>2. LogSays(c)'
      <3>1. ~upstream'[c] /\ pc'[c] # "relay"
        BY DEF TypeOK, Authority, BeforeConnect, CheckHost, GoTo, promptVars
      <3>2. pc'[c] = "done" => audit'[c] # {}
        BY LogAdds DEF TypeOK, CheckHost, GoTo
      <3> QED BY <3>1, <3>2 DEF LogSays
    <2> QED BY <2>1, <2>2, LogOfOthersStands DEF CheckHost, GoTo, Log, promptVars
  <1> QED BY <1>1, <1>2, <1>3, <1>4, <1>5, <1>6, <1>7

\* An election keeps the invariant: a slot is opened for the connection that leads.
LEMMA ElectKeeps == ASSUME HostInv, NEW c \in Conns, Elect(c) PROVE HostInv'
  <1> USE TargetClasses DEF HostInv
  <1>1. TypeOK'
    BY DEF TypeOK, Decisions, Elect, GoTo
  <1>2. SlotsLed'
    BY DEF TypeOK, SlotsLed, Leading, Elect, GoTo
  <1>3. SlotsShared'
    BY DEF TypeOK, SlotsLed, SlotsShared, Elect, GoTo
  <1>4. AnswersKept'
    BY DEF TypeOK, Decisions, is_granted, SlotsLed, Leading, SlotsShared, AnswersKept,
           BeforeAnswer, Elect, GoTo
  <1>5. Authority'
    BY DEF TypeOK, Decisions, is_granted, SlotsShared, AnswersKept, BeforeAnswer,
           BeforeConnect, Asking, MayReach, Authority, Elect, GoTo
  <1>6. LogSoFar'
    BY DEF TypeOK, LogSoFar, BeforeConnect, Elect, GoTo
  <1>7. LogMatchesOutcome'
    <2>1. \A d \in Conns : d # c => /\ pc'[d] = pc[d] /\ audit'[d] = audit[d]
                                   /\ upstream'[d] = upstream[d]
      BY DEF TypeOK, Elect, GoTo
    <2>2. LogSays(c)'
      BY DEF TypeOK, LogSoFar, LogMatchesOutcome, LogSays, Authority, BeforeConnect,
             Elect, GoTo
    <2> QED BY <2>1, <2>2, LogOfOthersStands DEF Elect, GoTo
  <1> QED BY <1>1, <1>2, <1>3, <1>4, <1>5, <1>6, <1>7

\* A worker that picks the prompt up touches nothing of it.
LEMMA PromptStartsKeeps == ASSUME HostInv, NEW c \in Conns, PromptStarts(c) PROVE HostInv'
  <1> USE TargetClasses DEF HostInv
  <1>1. TypeOK'
    BY DEF TypeOK, Decisions, PromptStarts
  <1>2. SlotsLed'
    BY DEF TypeOK, SlotsLed, Leading, PromptStarts
  <1>3. SlotsShared'
    BY DEF TypeOK, SlotsLed, SlotsShared, PromptStarts
  <1>4. AnswersKept'
    BY DEF TypeOK, Decisions, is_granted, SlotsLed, Leading, SlotsShared, AnswersKept,
           BeforeAnswer, PromptStarts
  <1>5. Authority'
    BY DEF TypeOK, Decisions, is_granted, SlotsShared, AnswersKept, BeforeAnswer,
           BeforeConnect, Asking, MayReach, Authority, PromptStarts
  <1>6. LogSoFar'
    BY DEF TypeOK, LogSoFar, BeforeConnect, PromptStarts
  <1>7. LogMatchesOutcome'
    <2>1. \A d \in Conns : d # c => /\ pc'[d] = pc[d] /\ audit'[d] = audit[d]
                                   /\ upstream'[d] = upstream[d]
      BY DEF TypeOK, PromptStarts
    <2>2. LogSays(c)'
      BY DEF TypeOK, LogSoFar, LogMatchesOutcome, LogSays, Authority, BeforeConnect,
             PromptStarts
    <2> QED BY <2>1, <2>2, LogOfOthersStands DEF PromptStarts
  <1> QED BY <1>1, <1>2, <1>3, <1>4, <1>5, <1>6, <1>7

\* The deadline passes only while nothing is decided.
LEMMA DeadlinePassesKeeps == ASSUME HostInv, NEW c \in Conns, DeadlinePasses(c) PROVE HostInv'
  <1> USE TargetClasses DEF HostInv
  <1>1. TypeOK'
    BY DEF TypeOK, Decisions, DeadlinePasses
  <1>2. SlotsLed'
    BY DEF TypeOK, SlotsLed, Leading, DeadlinePasses
  <1>3. SlotsShared'
    BY DEF TypeOK, SlotsLed, SlotsShared, DeadlinePasses
  <1>4. AnswersKept'
    BY DEF TypeOK, Decisions, is_granted, SlotsLed, Leading, SlotsShared, AnswersKept,
           BeforeAnswer, DeadlinePasses
  <1>5. Authority'
    BY DEF TypeOK, Decisions, is_granted, SlotsShared, AnswersKept, BeforeAnswer,
           BeforeConnect, Asking, MayReach, Authority, DeadlinePasses
  <1>6. LogSoFar'
    BY DEF TypeOK, LogSoFar, BeforeConnect, DeadlinePasses
  <1>7. LogMatchesOutcome'
    <2>1. \A d \in Conns : d # c => /\ pc'[d] = pc[d] /\ audit'[d] = audit[d]
                                   /\ upstream'[d] = upstream[d]
      BY DEF TypeOK, DeadlinePasses
    <2>2. LogSays(c)'
      BY DEF TypeOK, LogSoFar, LogMatchesOutcome, LogSays, Authority, BeforeConnect,
             DeadlinePasses
    <2> QED BY <2>1, <2>2, LogOfOthersStands DEF DeadlinePasses
  <1> QED BY <1>1, <1>2, <1>3, <1>4, <1>5, <1>6, <1>7

\* A timeout that fits no Instant settles as a denial.
LEMMA TimeoutTooLargeKeeps == ASSUME HostInv, NEW c \in Conns, TimeoutTooLarge(c) PROVE HostInv'
  <1> USE TargetClasses DEF HostInv
  <1>1. TypeOK'
    BY DEF TypeOK, Decisions, TimeoutTooLarge, Settle, GoTo
  <1>2. SlotsLed'
    BY DEF TypeOK, SlotsLed, Leading, TimeoutTooLarge, Settle, GoTo
  <1>3. SlotsShared'
    BY DEF TypeOK, SlotsLed, SlotsShared, TimeoutTooLarge, Settle, GoTo
  <1>4. AnswersKept'
    BY DEF TypeOK, Decisions, is_granted, SlotsLed, Leading, SlotsShared, AnswersKept,
           BeforeAnswer, TimeoutTooLarge, Settle, GoTo
  <1>5. Authority'
    BY DEF TypeOK, Decisions, is_granted, SlotsShared, AnswersKept, BeforeAnswer,
           BeforeConnect, Asking, MayReach, Authority, TimeoutTooLarge, Settle, GoTo
  <1>6. LogSoFar'
    BY DEF TypeOK, LogSoFar, BeforeConnect, TimeoutTooLarge, Settle, GoTo
  <1>7. LogMatchesOutcome'
    <2>1. \A d \in Conns : d # c => /\ pc'[d] = pc[d] /\ audit'[d] = audit[d]
                                   /\ upstream'[d] = upstream[d]
      BY DEF TypeOK, TimeoutTooLarge, Settle, GoTo
    <2>2. LogSays(c)'
      BY DEF TypeOK, LogSoFar, LogMatchesOutcome, LogSays, Authority, BeforeConnect,
             TimeoutTooLarge, Settle, GoTo
    <2> QED BY <2>1, <2>2, LogOfOthersStands DEF TimeoutTooLarge, Settle, GoTo
  <1> QED BY <1>1, <1>2, <1>3, <1>4, <1>5, <1>6, <1>7

\* An answer settles the leader that still waits; a late one is dropped.
LEMMA PromptReturnsKeeps == ASSUME HostInv, NEW c \in Conns, PromptReturns(c) PROVE HostInv'
  <1> USE TargetClasses DEF HostInv
  <1>1. TypeOK'
    BY DEF TypeOK, Decisions, PromptReturns, Settle, GoTo
  <1>2. SlotsLed'
    BY DEF TypeOK, SlotsLed, Leading, PromptReturns, Settle, GoTo
  <1>3. SlotsShared'
    BY DEF TypeOK, SlotsLed, SlotsShared, PromptReturns, Settle, GoTo
  <1>4. AnswersKept'
    BY DEF TypeOK, Decisions, is_granted, SlotsLed, Leading, SlotsShared, AnswersKept,
           BeforeAnswer, PromptReturns, Settle, GoTo
  <1>5. Authority'
    BY DEF TypeOK, Decisions, is_granted, SlotsShared, AnswersKept, BeforeAnswer,
           BeforeConnect, Asking, MayReach, Authority, PromptReturns, Settle, GoTo
  <1>6. LogSoFar'
    BY DEF TypeOK, LogSoFar, BeforeConnect, PromptReturns, Settle, GoTo
  <1>7. LogMatchesOutcome'
    <2>1. \A d \in Conns : d # c => /\ pc'[d] = pc[d] /\ audit'[d] = audit[d]
                                   /\ upstream'[d] = upstream[d]
      BY DEF TypeOK, PromptReturns, Settle, GoTo
    <2>2. LogSays(c)'
      BY DEF TypeOK, LogSoFar, LogMatchesOutcome, LogSays, Authority, BeforeConnect,
             PromptReturns, Settle, GoTo
    <2> QED BY <2>1, <2>2, LogOfOthersStands DEF PromptReturns, Settle, GoTo
  <1> QED BY <1>1, <1>2, <1>3, <1>4, <1>5, <1>6, <1>7

\* The backstop settles as a timeout.
LEMMA BackstopKeeps == ASSUME HostInv, NEW c \in Conns, Backstop(c) PROVE HostInv'
  <1> USE TargetClasses DEF HostInv
  <1>1. TypeOK'
    BY DEF TypeOK, Decisions, Backstop, Settle, GoTo
  <1>2. SlotsLed'
    BY DEF TypeOK, SlotsLed, Leading, Backstop, Settle, GoTo
  <1>3. SlotsShared'
    BY DEF TypeOK, SlotsLed, SlotsShared, Backstop, Settle, GoTo
  <1>4. AnswersKept'
    BY DEF TypeOK, Decisions, is_granted, SlotsLed, Leading, SlotsShared, AnswersKept,
           BeforeAnswer, Backstop, Settle, GoTo
  <1>5. Authority'
    BY DEF TypeOK, Decisions, is_granted, SlotsShared, AnswersKept, BeforeAnswer,
           BeforeConnect, Asking, MayReach, Authority, Backstop, Settle, GoTo
  <1>6. LogSoFar'
    BY DEF TypeOK, LogSoFar, BeforeConnect, Backstop, Settle, GoTo
  <1>7. LogMatchesOutcome'
    <2>1. \A d \in Conns : d # c => /\ pc'[d] = pc[d] /\ audit'[d] = audit[d]
                                   /\ upstream'[d] = upstream[d]
      BY DEF TypeOK, Backstop, Settle, GoTo
    <2>2. LogSays(c)'
      BY DEF TypeOK, LogSoFar, LogMatchesOutcome, LogSays, Authority, BeforeConnect,
             Backstop, Settle, GoTo
    <2> QED BY <2>1, <2>2, LogOfOthersStands DEF Backstop, Settle, GoTo
  <1> QED BY <1>1, <1>2, <1>3, <1>4, <1>5, <1>6, <1>7

\* The leader publishes what it has settled and closes its slot.
LEMMA LeaderResolvesKeeps == ASSUME HostInv, NEW c \in Conns, LeaderResolves(c) PROVE HostInv'
  <1> USE TargetClasses DEF HostInv
  <1>1. TypeOK'
    BY DEF TypeOK, Decisions, LeaderResolves, CloseSlot, GoTo
  <1>2. SlotsLed'
    BY DEF TypeOK, SlotsLed, Leading, LeaderResolves, CloseSlot, GoTo
  <1>3. SlotsShared'
    BY DEF TypeOK, SlotsLed, SlotsShared, LeaderResolves, CloseSlot, GoTo
  <1>4. AnswersKept'
    BY DEF TypeOK, Decisions, is_granted, SlotsLed, Leading, SlotsShared, AnswersKept,
           BeforeAnswer, LeaderResolves, CloseSlot, GoTo
  <1>5. Authority'
    BY DEF TypeOK, Decisions, is_granted, SlotsShared, AnswersKept, BeforeAnswer,
           BeforeConnect, Asking, MayReach, Authority, LeaderResolves, CloseSlot, GoTo
  <1>6. LogSoFar'
    BY DEF TypeOK, LogSoFar, BeforeConnect, LeaderResolves, CloseSlot, GoTo
  <1>7. LogMatchesOutcome'
    <2>1. \A d \in Conns : d # c => /\ pc'[d] = pc[d] /\ audit'[d] = audit[d]
                                   /\ upstream'[d] = upstream[d]
      BY DEF TypeOK, LeaderResolves, CloseSlot, GoTo
    <2>2. LogSays(c)'
      BY DEF TypeOK, LogSoFar, LogMatchesOutcome, LogSays, Authority, BeforeConnect,
             LeaderResolves, CloseSlot, GoTo
    <2> QED BY <2>1, <2>2, LogOfOthersStands DEF LeaderResolves, CloseSlot, GoTo
  <1> QED BY <1>1, <1>2, <1>3, <1>4, <1>5, <1>6, <1>7

\* A dropped leader closes its slot, a dropped follower leaves none.
LEMMA CancelKeeps == ASSUME HostInv, NEW c \in Conns, Cancel(c) PROVE HostInv'
  <1> USE TargetClasses DEF HostInv
  <1>1. TypeOK'
    BY DEF TypeOK, Decisions, Cancel, CloseSlot, GoTo
  <1>2. SlotsLed'
    BY DEF TypeOK, SlotsLed, Leading, Cancel, CloseSlot, GoTo
  <1>3. SlotsShared'
    BY DEF TypeOK, SlotsLed, SlotsShared, Cancel, CloseSlot, GoTo
  <1>4. AnswersKept'
    BY DEF TypeOK, Decisions, is_granted, SlotsLed, Leading, SlotsShared, AnswersKept,
           BeforeAnswer, Cancel, CloseSlot, GoTo
  <1>5. Authority'
    BY DEF TypeOK, Decisions, is_granted, SlotsShared, AnswersKept, BeforeAnswer,
           BeforeConnect, Asking, MayReach, Authority, Cancel, CloseSlot, GoTo
  <1>6. LogSoFar'
    BY DEF TypeOK, LogSoFar, BeforeConnect, Cancel, CloseSlot, GoTo
  <1>7. LogMatchesOutcome'
    <2>1. \A d \in Conns : d # c => /\ pc'[d] = pc[d] /\ audit'[d] = audit[d]
                                   /\ upstream'[d] = upstream[d]
      BY DEF TypeOK, Cancel, CloseSlot, GoTo
    <2>2. LogSays(c)'
      BY DEF TypeOK, LogSoFar, LogMatchesOutcome, LogSays, Authority, BeforeConnect,
             Cancel, CloseSlot, GoTo
    <2> QED BY <2>1, <2>2, LogOfOthersStands DEF Cancel, CloseSlot, GoTo
  <1> QED BY <1>1, <1>2, <1>3, <1>4, <1>5, <1>6, <1>7

\* A follower passes on a session answer only.
LEMMA FollowerWakesKeeps == ASSUME HostInv, NEW c \in Conns, FollowerWakes(c) PROVE HostInv'
  <1> USE TargetClasses DEF HostInv
  <1>1. TypeOK'
    BY DEF TypeOK, Decisions, FollowerWakes, await_decision, GoTo, promptVars
  <1>2. SlotsLed'
    BY DEF TypeOK, SlotsLed, Leading, FollowerWakes, await_decision, GoTo, promptVars
  <1>3. SlotsShared'
    BY DEF TypeOK, SlotsLed, SlotsShared, FollowerWakes, await_decision, GoTo,
           promptVars
  <1>4. AnswersKept'
    BY DEF TypeOK, Decisions, is_granted, SlotsLed, Leading, SlotsShared, AnswersKept,
           BeforeAnswer, FollowerWakes, await_decision, GoTo, promptVars
  <1>5. Authority'
    BY DEF TypeOK, Decisions, is_granted, SlotsShared, AnswersKept, BeforeAnswer,
           BeforeConnect, Asking, MayReach, Authority, FollowerWakes, await_decision,
           GoTo, promptVars
  <1>6. LogSoFar'
    BY DEF TypeOK, LogSoFar, BeforeConnect, FollowerWakes, await_decision, GoTo,
           promptVars
  <1>7. LogMatchesOutcome'
    <2>1. \A d \in Conns : d # c => /\ pc'[d] = pc[d] /\ audit'[d] = audit[d]
                                   /\ upstream'[d] = upstream[d]
      BY DEF TypeOK, FollowerWakes, await_decision, GoTo, promptVars
    <2>2. LogSays(c)'
      BY DEF TypeOK, LogSoFar, LogMatchesOutcome, LogSays, Authority, BeforeConnect,
             FollowerWakes, await_decision, GoTo, promptVars
    <2> QED BY <2>1, <2>2, LogOfOthersStands DEF FollowerWakes, await_decision, GoTo,
                                                 promptVars
  <1> QED BY <1>1, <1>2, <1>3, <1>4, <1>5, <1>6, <1>7

\* A refusal is logged.
LEMMA RefuseKeeps == ASSUME HostInv, NEW c \in Conns, Refuse(c) PROVE HostInv'
  <1> USE TargetClasses DEF HostInv
  <1>1. TypeOK'
    BY DEF TypeOK, Decisions, Refuse, GoTo, Log, promptVars
  <1>2. SlotsLed'
    BY DEF TypeOK, SlotsLed, Leading, Refuse, GoTo, Log, promptVars
  <1>3. SlotsShared'
    BY DEF TypeOK, SlotsLed, SlotsShared, Refuse, GoTo, Log, promptVars
  <1>4. AnswersKept'
    BY DEF TypeOK, Decisions, is_granted, SlotsLed, Leading, SlotsShared, AnswersKept,
           BeforeAnswer, Refuse, GoTo, Log, promptVars
  <1>5. Authority'
    BY DEF TypeOK, Decisions, is_granted, SlotsShared, AnswersKept, BeforeAnswer,
           BeforeConnect, Asking, MayReach, Authority, Refuse, GoTo, Log, promptVars
  <1>6. LogSoFar'
    BY DEF TypeOK, LogSoFar, BeforeConnect, Refuse, GoTo, Log, promptVars
  <1>7. LogMatchesOutcome'
    <2>1. \A d \in Conns : d # c => /\ pc'[d] = pc[d] /\ audit'[d] = audit[d]
                                   /\ upstream'[d] = upstream[d]
      BY DEF TypeOK, Refuse, GoTo, Log, promptVars
    <2>2. LogSays(c)'
      BY DEF TypeOK, LogSoFar, LogMatchesOutcome, LogSays, Authority, BeforeConnect,
             Refuse, GoTo, Log, promptVars
    <2> QED BY <2>1, <2>2, LogOfOthersStands DEF Refuse, GoTo, Log, promptVars
  <1> QED BY <1>1, <1>2, <1>3, <1>4, <1>5, <1>6, <1>7

\* The lookup of an approved host keeps the invariant.
LEMMA ResolveApprovedKeeps == ASSUME HostInv, NEW c \in Conns, ResolveApproved(c) PROVE HostInv'
  <1> USE TargetClasses DEF HostInv
  <1>1. TypeOK'
    BY DEF TypeOK, Decisions, ResolveApproved, GoTo, Log, promptVars
  <1>2. SlotsLed'
    BY DEF TypeOK, SlotsLed, Leading, ResolveApproved, GoTo, Log, promptVars
  <1>3. SlotsShared'
    BY DEF TypeOK, SlotsLed, SlotsShared, ResolveApproved, GoTo, Log, promptVars
  <1>4. AnswersKept'
    BY DEF TypeOK, Decisions, is_granted, SlotsLed, Leading, SlotsShared, AnswersKept,
           BeforeAnswer, ResolveApproved, GoTo, Log, promptVars
  <1>5. Authority'
    BY DEF TypeOK, Decisions, is_granted, SlotsShared, AnswersKept, BeforeAnswer,
           BeforeConnect, Asking, MayReach, Authority, ResolveApproved, GoTo, Log,
           promptVars
  <1>6. LogSoFar'
    BY DEF TypeOK, LogSoFar, BeforeConnect, ResolveApproved, GoTo, Log, promptVars
  <1>7. LogMatchesOutcome'
    <2>1. \A d \in Conns : d # c => /\ pc'[d] = pc[d] /\ audit'[d] = audit[d]
                                   /\ upstream'[d] = upstream[d]
      BY DEF TypeOK, ResolveApproved, GoTo, Log, promptVars
    <2>2. LogSays(c)'
      <3>1. ~upstream'[c] /\ pc'[c] # "relay"
        BY DEF TypeOK, Authority, BeforeConnect, ResolveApproved, GoTo, promptVars
      <3>2. pc'[c] = "done" => audit'[c] # {}
        BY LogAdds DEF TypeOK, ResolveApproved, GoTo
      <3> QED BY <3>1, <3>2 DEF LogSays
    <2> QED BY <2>1, <2>2, LogOfOthersStands DEF ResolveApproved, GoTo, Log, promptVars
  <1> QED BY <1>1, <1>2, <1>3, <1>4, <1>5, <1>6, <1>7

\* A rejected request never reached its upstream.
LEMMA RejectRequestKeeps == ASSUME HostInv, NEW c \in Conns, RejectRequest(c) PROVE HostInv'
  <1> USE TargetClasses DEF HostInv
  <1>1. TypeOK'
    BY DEF TypeOK, Decisions, RejectRequest, GoTo, Log, promptVars
  <1>2. SlotsLed'
    BY DEF TypeOK, SlotsLed, Leading, RejectRequest, GoTo, Log, promptVars
  <1>3. SlotsShared'
    BY DEF TypeOK, SlotsLed, SlotsShared, RejectRequest, GoTo, Log, promptVars
  <1>4. AnswersKept'
    BY DEF TypeOK, Decisions, is_granted, SlotsLed, Leading, SlotsShared, AnswersKept,
           BeforeAnswer, RejectRequest, GoTo, Log, promptVars
  <1>5. Authority'
    BY DEF TypeOK, Decisions, is_granted, SlotsShared, AnswersKept, BeforeAnswer,
           BeforeConnect, Asking, MayReach, Authority, RejectRequest, GoTo, Log,
           promptVars
  <1>6. LogSoFar'
    BY DEF TypeOK, LogSoFar, BeforeConnect, RejectRequest, GoTo, Log, promptVars
  <1>7. LogMatchesOutcome'
    <2>1. \A d \in Conns : d # c => /\ pc'[d] = pc[d] /\ audit'[d] = audit[d]
                                   /\ upstream'[d] = upstream[d]
      BY DEF TypeOK, RejectRequest, GoTo, Log, promptVars
    <2>2. LogSays(c)'
      <3>1. ~upstream'[c] /\ pc'[c] # "relay"
        BY DEF TypeOK, Authority, BeforeConnect, RejectRequest, GoTo, promptVars
      <3>2. pc'[c] = "done" => audit'[c] # {}
        BY LogAdds DEF TypeOK, RejectRequest, GoTo
      <3> QED BY <3>1, <3>2 DEF LogSays
    <2> QED BY <2>1, <2>2, LogOfOthersStands DEF RejectRequest, GoTo, Log, promptVars
  <1> QED BY <1>1, <1>2, <1>3, <1>4, <1>5, <1>6, <1>7

\* The connection to the upstream is made with authority.
LEMMA ConnectUpstreamKeeps == ASSUME HostInv, NEW c \in Conns, ConnectUpstream(c) PROVE HostInv'
  <1> USE TargetClasses DEF HostInv
  <1>1. TypeOK'
    <2>1. audit' \in [Conns -> SUBSET {"Denied", "Allowed", "ApproveGranted",
                                       "ApproveDenied", "UpstreamConnectFailed",
                                       "Request"}]
      BY DEF TypeOK, ConnectUpstream, Log
    <2>2. pc' \in [Conns -> {"new", "elect", "prompt", "settled", "follow",
                             "refused", "resolve", "connect", "answer", "relay",
                             "done", "rejected", "hungup", "cancelled"}]
      BY DEF TypeOK, ConnectUpstream, GoTo
    <2>3. upstream' \in [Conns -> BOOLEAN]
      BY DEF TypeOK, ConnectUpstream
    <2> QED BY <2>1, <2>2, <2>3 DEF TypeOK, ConnectUpstream, promptVars
  <1>2. SlotsLed'
    BY DEF TypeOK, SlotsLed, Leading, ConnectUpstream, GoTo, Log, promptVars
  <1>3. SlotsShared'
    BY DEF TypeOK, SlotsLed, SlotsShared, ConnectUpstream, GoTo, Log, promptVars
  <1>4. AnswersKept'
    BY DEF TypeOK, Decisions, is_granted, SlotsLed, Leading, SlotsShared, AnswersKept,
           BeforeAnswer, ConnectUpstream, GoTo, Log, promptVars
  <1>5. Authority'
    BY DEF TypeOK, Decisions, is_granted, SlotsShared, AnswersKept, BeforeAnswer,
           BeforeConnect, Asking, MayReach, Authority, ConnectUpstream, GoTo, Log,
           promptVars
  <1>6. LogSoFar'
    BY DEF TypeOK, LogSoFar, BeforeConnect, ConnectUpstream, GoTo, Log, promptVars
  <1>7. LogMatchesOutcome'
    <2>1. \A d \in Conns : d # c => /\ pc'[d] = pc[d] /\ audit'[d] = audit[d]
                                   /\ upstream'[d] = upstream[d]
      BY DEF TypeOK, ConnectUpstream, GoTo, Log, promptVars
    <2>2. LogSays(c)'
      <3>1. CASE upstream'[c]
        <4>1. audit'[c] \subseteq {"ApproveGranted"} /\ pc'[c] = "answer"
          BY <3>1 DEF TypeOK, Authority, LogSoFar, ConnectUpstream, GoTo
        <4> QED BY <4>1 DEF LogSays
      <3>2. CASE ~upstream'[c]
        <4>1. pc'[c] = "done" /\ audit'[c] # {}
          BY <3>2, LogAdds DEF TypeOK, ConnectUpstream, GoTo
        <4> QED BY <3>2, <4>1 DEF LogSays
      <3> QED BY <3>1, <3>2
    <2> QED BY <2>1, <2>2, LogOfOthersStands DEF ConnectUpstream, GoTo, Log, promptVars
  <1> QED BY <1>1, <1>2, <1>3, <1>4, <1>5, <1>6, <1>7

\* The answer logs who allowed the tunnel.
LEMMA AnswerKeeps == ASSUME HostInv, NEW c \in Conns, Answer(c) PROVE HostInv'
  <1> USE TargetClasses DEF HostInv
  <1>1. TypeOK'
    BY DEF TypeOK, Decisions, Answer, GoTo, Log, promptVars
  <1>2. SlotsLed'
    BY DEF TypeOK, SlotsLed, Leading, Answer, GoTo, Log, promptVars
  <1>3. SlotsShared'
    BY DEF TypeOK, SlotsLed, SlotsShared, Answer, GoTo, Log, promptVars
  <1>4. AnswersKept'
    BY DEF TypeOK, Decisions, is_granted, SlotsLed, Leading, SlotsShared, AnswersKept,
           BeforeAnswer, Answer, GoTo, Log, promptVars
  <1>5. Authority'
    BY DEF TypeOK, Decisions, is_granted, SlotsShared, AnswersKept, BeforeAnswer,
           BeforeConnect, Asking, MayReach, Authority, Answer, GoTo, Log, promptVars
  <1>6. LogSoFar'
    BY DEF TypeOK, LogSoFar, BeforeConnect, Answer, GoTo, Log, promptVars
  <1>7. LogMatchesOutcome'
    <2>1. \A d \in Conns : d # c => /\ pc'[d] = pc[d] /\ audit'[d] = audit[d]
                                   /\ upstream'[d] = upstream[d]
      BY DEF TypeOK, Answer, GoTo, Log, promptVars
    <2>2. LogSays(c)'
      <3>1. CASE mode[c] = "connect" /\ pc'[c] = "relay"
        <4>1. Log(c, IF key[c] \in Allowlisted THEN "Allowed" ELSE "ApproveGranted")
          BY <3>1 DEF TypeOK, Answer, GoTo
        <4>2. audit'[c] = {IF key[c] \in Allowlisted THEN "Allowed" ELSE "ApproveGranted"}
          BY <3>1, <4>1, LogAdds DEF LogSoFar, Answer
        <4> QED BY <3>1, <4>2 DEF LogSays, Answer
      <3>2. CASE mode[c] = "connect" /\ pc'[c] # "relay"
        <4>1. pc'[c] = "hungup" /\ audit'[c] = {}
          BY <3>2 DEF TypeOK, LogSoFar, Answer, GoTo
        <4> QED BY <4>1 DEF LogSays
      <3>3. CASE mode[c] # "connect"
        <4>1. PICK e \in {"Request", "UpstreamConnectFailed"} : Log(c, e)
          BY <3>3 DEF Answer
        <4>2. audit'[c] = audit[c] \cup {e} /\ audit[c] \subseteq {"ApproveGranted"}
          BY <4>1, LogAdds DEF LogSoFar, Answer
        <4>3. pc'[c] = "done"
          BY <3>3 DEF TypeOK, Answer, GoTo
        <4> QED BY <4>2, <4>3 DEF LogSays
      <3> QED BY <3>1, <3>2, <3>3
    <2> QED BY <2>1, <2>2, LogOfOthersStands DEF Answer, GoTo, Log, promptVars
  <1> QED BY <1>1, <1>2, <1>3, <1>4, <1>5, <1>6, <1>7

\* The end of a relay changes nothing but the place.
LEMMA RelayEndsKeeps == ASSUME HostInv, NEW c \in Conns, RelayEnds(c) PROVE HostInv'
  <1> USE TargetClasses DEF HostInv
  <1>1. TypeOK'
    BY DEF TypeOK, Decisions, RelayEnds, GoTo, promptVars
  <1>2. SlotsLed'
    BY DEF TypeOK, SlotsLed, Leading, RelayEnds, GoTo, promptVars
  <1>3. SlotsShared'
    BY DEF TypeOK, SlotsLed, SlotsShared, RelayEnds, GoTo, promptVars
  <1>4. AnswersKept'
    BY DEF TypeOK, Decisions, is_granted, SlotsLed, Leading, SlotsShared, AnswersKept,
           BeforeAnswer, RelayEnds, GoTo, promptVars
  <1>5. Authority'
    BY DEF TypeOK, Decisions, is_granted, SlotsShared, AnswersKept, BeforeAnswer,
           BeforeConnect, Asking, MayReach, Authority, RelayEnds, GoTo, promptVars
  <1>6. LogSoFar'
    BY DEF TypeOK, LogSoFar, BeforeConnect, RelayEnds, GoTo, promptVars
  <1>7. LogMatchesOutcome'
    <2>1. \A d \in Conns : d # c => /\ pc'[d] = pc[d] /\ audit'[d] = audit[d]
                                   /\ upstream'[d] = upstream[d]
      BY DEF TypeOK, RelayEnds, GoTo, promptVars
    <2>2. LogSays(c)'
      BY DEF TypeOK, LogSoFar, LogMatchesOutcome, LogSays, Authority, BeforeConnect,
             RelayEnds, GoTo, promptVars
    <2> QED BY <2>1, <2>2, LogOfOthersStands DEF RelayEnds, GoTo, promptVars
  <1> QED BY <1>1, <1>2, <1>3, <1>4, <1>5, <1>6, <1>7

\* The initial states satisfy the invariant.
LEMMA InitHostInv == Init => HostInv
  <1> SUFFICES ASSUME Init PROVE HostInv
    OBVIOUS
  <1> USE TargetClasses DEF Init
  <1>1. TypeOK
    BY DEF TypeOK
  <1>2. SlotsLed /\ SlotsShared
    BY DEF SlotsLed, SlotsShared, Leading
  <1>3. AnswersKept
    BY DEF AnswersKept, is_granted
  <1>4. Authority
    BY DEF Authority, Asking, MayReach
  <1>5. LogSoFar /\ LogMatchesOutcome
    BY DEF LogSoFar, LogMatchesOutcome
  <1> QED BY <1>1, <1>2, <1>3, <1>4, <1>5 DEF HostInv

\* So does every state a step leads to.
LEMMA NextHostInv == HostInv /\ [Next]_vars => HostInv'
  <1> SUFFICES ASSUME HostInv, [Next]_vars PROVE HostInv'
    OBVIOUS
  <1>1. ASSUME NEW c \in Conns, Step(c) PROVE HostInv'
    BY <1>1, CheckHostKeeps, ElectKeeps, PromptStartsKeeps, DeadlinePassesKeeps,
       TimeoutTooLargeKeeps, PromptReturnsKeeps, BackstopKeeps, LeaderResolvesKeeps,
       CancelKeeps, FollowerWakesKeeps, RefuseKeeps, ResolveApprovedKeeps,
       RejectRequestKeeps, ConnectUpstreamKeeps, AnswerKeeps, RelayEndsKeeps DEF Step
  <1>2. CASE UNCHANGED vars
    BY <1>2 DEF vars, HostInv, TypeOK, SlotsLed, SlotsShared, AnswersKept, MayReach,
                Authority, LogSoFar, LogMatchesOutcome
  <1> QED BY <1>1, <1>2 DEF Next, Terminated

\* The inductive invariant: slots, session answers, authority and the log of every
\* connection, at each step of the handlers.
THEOREM HostInvariant == Spec => []HostInv
  BY InitHostInv, NextHostInv, PTL DEF Spec

\* The log says of each connection what happened to it, for any number of
\* connections that lead, follow, time out and are dropped.
THEOREM LogIsTrue == Spec => []LogMatchesOutcome
  <1>1. HostInv => LogMatchesOutcome
    BY DEF HostInv
  <1> QED BY <1>1, HostInvariant, PTL

\* No connection reaches an upstream but on the allowlist, on a session answer,
\* or on an answer of its own that came before its deadline.
THEOREM ReachedAuthorised == Spec => []ReachedWithAuthority
  <1>1. HostInv => ReachedWithAuthority
    BY DEF HostInv, Authority, MayReach, AnswersKept, ReachedWithAuthority
  <1> QED BY <1>1, HostInvariant, PTL

\* Connections to one target never ask side by side.
THEOREM PromptsExclusive == Spec => []OnePromptPerTarget
  <1>1. HostInv => OnePromptPerTarget
    BY DEF HostInv, SlotsLed, Leading, OnePromptPerTarget
  <1> QED BY <1>1, HostInvariant, PTL
-----------------------------------------------------------------------------
(* The arbiter *)

\* What the arbiter sees of a step.
Asked == {c \in Conns : pc[c] = "prompt" /\ ~late[c]}
Seen == <<key, session_decisions, Asked, decision, upstream>>

\* A step that changes nothing the arbiter sees is a stuttering step of it.
LEMMA QuietStutters == UNCHANGED Seen => UNCHANGED Arbiter!vars
  BY DEF Seen, Asked, Arbiter!vars

\* A leader that leaves its prompt without an answer gives up a question that
\* stands, or does nothing the arbiter sees.
LEMMA LeavesPrompt ==
  ASSUME NEW c \in Conns, Asked' = Asked \ {c}, UNCHANGED <<key, session_decisions, decision, upstream>>
  PROVE  [Arbiter!Next]_(Arbiter!vars)
  <1>1. CASE c \in Asked
    <2>1. Arbiter!GiveUp(c)
      BY <1>1 DEF Arbiter!GiveUp, Asked
    <2> QED  BY <2>1 DEF Arbiter!Next
  <1>2. CASE c \notin Asked
    BY <1>2, QuietStutters DEF Seen
  <1> QED  BY <1>1, <1>2

\* An answer the leader takes in time is an answer of the arbiter, or gives up
\* the question; what it makes of a late one is nothing to the arbiter.
LEMMA SettleAnswers ==
  ASSUME HostInv, NEW c \in Conns, pc[c] = "prompt",
         NEW d \in Decisions, Settle(c, d), UNCHANGED <<key, late, upstream>>,
         late[c] => d \in {"Timeout", "Denied"}
  PROVE  [Arbiter!Next]_(Arbiter!vars)
  <1>1. /\ decision[c] = "none" /\ session_decisions[key[c]] = "unset"
        /\ key[c] \in Keys /\ key[c] \notin Allowlisted \cup HardDenied
    BY DEF HostInv, TypeOK, AnswersKept, BeforeAnswer, Authority, Asking
  <1>2. decision' = [decision EXCEPT ![c] = d] /\ decision \in [Conns -> Decisions \cup {"none"}]
    BY DEF HostInv, TypeOK, Settle
  <1>a. Asked' = Asked \ {c} /\ (~late[c] => c \in Asked)
    BY DEF HostInv, TypeOK, Settle, GoTo, Asked
  <1>3. CASE d = "Granted"
    <2>1. {x \in Conns : decision'[x] = "Granted"} = {x \in Conns : decision[x] = "Granted"} \cup {c}
      BY <1>2, <1>3
    <2>2. session_decisions' = session_decisions
      BY <1>1, <1>3 DEF HostInv, TypeOK, Settle
    <2>3. Arbiter!AnswerOnce(c)
      BY <1>1, <1>3, <1>a, <2>1, <2>2 DEF Arbiter!AnswerOnce, Arbiter!Open, Asked
    <2> QED BY <2>3 DEF Arbiter!Next
  <1>4. CASE d # "Granted"
    <2>1. {x \in Conns : decision'[x] = "Granted"} = {x \in Conns : decision[x] = "Granted"}
      BY <1>1, <1>2, <1>4
    <2>2. CASE d \in {"GrantedForSession", "DeniedForSession"}
      <3>1. PICK a \in {"allow", "deny"} :
               session_decisions' = [session_decisions EXCEPT ![key[c]] = a]
        BY <2>2 DEF Settle
      <3>2. Arbiter!AnswerForSession(c)
        BY <1>1, <1>a, <2>1, <2>2, <3>1 DEF Arbiter!AnswerForSession, Arbiter!Open, Asked
      <3> QED BY <1>1, <3>2 DEF Arbiter!Next
    <2>3. CASE d \notin {"GrantedForSession", "DeniedForSession"}
      <3>1. session_decisions' = session_decisions
        BY <2>3 DEF HostInv, TypeOK, Settle
      <3>2. CASE c \in Asked
        <4>1. Arbiter!GiveUp(c)
          BY <1>a, <2>1, <3>1, <3>2 DEF Arbiter!GiveUp, Asked
        <4> QED BY <4>1 DEF Arbiter!Next
      <3>3. CASE c \notin Asked
        <4>1. Asked' = Asked
          BY <1>a, <3>3
        <4> QED BY <2>1, <3>1, <4>1 DEF Arbiter!vars, Asked
      <3> QED BY <3>2, <3>3
    <2> QED BY <2>2, <2>3
  <1> QED BY <1>3, <1>4

\* A connection that is elected asks: no question about its target stands.
LEMMA ElectAsks ==
  ASSUME HostInv, NEW c \in Conns, Elect(c)
  PROVE  [Arbiter!Next]_(Arbiter!vars)
  <1>1. pc[c] = "elect" /\ UNCHANGED <<key, session_decisions, decision, late, upstream>>
    BY DEF Elect
  <1>2. CASE Asked' = Asked
    BY <1>1, <1>2, QuietStutters DEF Seen
  <1>3. CASE Asked' # Asked
    <2>1. /\ pc' = [pc EXCEPT ![c] = "prompt"]
          /\ session_decisions[key[c]] = "unset" /\ in_flight[key[c]] = NoConn
      BY <1>1, <1>3 DEF Elect, GoTo, Asked, HostInv, TypeOK
    <2>2. Asked' = Asked \cup {c}
      BY <1>1, <1>3, <2>1 DEF Asked, HostInv, TypeOK
    <2>3. \A x \in Asked : key[x] # key[c]
      BY <2>1, TargetClasses DEF Asked, HostInv, SlotsLed, Leading
    <2>4. key[c] \notin Allowlisted \cup HardDenied
      BY <1>1 DEF HostInv, Authority, Asking
    <2>5. Arbiter!Ask(c)
      BY <1>1, <2>1, <2>2, <2>3, <2>4 DEF Arbiter!Ask, Arbiter!Open, Asked
    <2> QED  BY <2>5 DEF Arbiter!Next
  <1> QED  BY <1>2, <1>3

\* A connection that opens its upstream reaches its target.
LEMMA ConnectReaches ==
  ASSUME HostInv, NEW c \in Conns, ConnectUpstream(c)
  PROVE  [Arbiter!Next]_(Arbiter!vars)
  <1>0. Asked' = Asked
    <2>1. pc[c] = "connect" /\ late' = late /\ \E l \in {"answer", "done"} : pc' = [pc EXCEPT ![c] = l]
      BY DEF ConnectUpstream, promptVars, GoTo
    <2> QED  BY <2>1 DEF Asked, HostInv, TypeOK
  <1>1. CASE UNCHANGED upstream
    BY <1>0, <1>1, QuietStutters DEF ConnectUpstream, promptVars, Seen
  <1>2. CASE upstream' = [upstream EXCEPT ![c] = TRUE]
    <2>1. {x \in Conns : upstream'[x]} = {x \in Conns : upstream[x]} \cup {c}
      BY <1>2 DEF HostInv, TypeOK
    <2>2. ~upstream[c] /\ MayReach(c)
      BY DEF HostInv, Authority, ConnectUpstream
    <2>3. \/ key[c] \in Allowlisted
          \/ session_decisions[key[c]] = "allow"
          \/ decision[c] = "Granted"
      BY <2>2 DEF MayReach, is_granted, HostInv, AnswersKept
    <2>4. Arbiter!Reach(c)
      BY <1>0, <2>1, <2>2, <2>3 DEF Arbiter!Reach, ConnectUpstream, promptVars, Asked
    <2> QED BY <2>4 DEF Arbiter!Next
  <1> QED BY <1>1, <1>2 DEF ConnectUpstream

\* Every step of the handlers is a step of the arbiter or a stuttering step.
LEMMA StepsImplement == HostInv /\ [Next]_vars => [Arbiter!Next]_(Arbiter!vars)
  <1> SUFFICES ASSUME HostInv, [Next]_vars PROVE [Arbiter!Next]_(Arbiter!vars)
    OBVIOUS
  <1>1. ASSUME NEW c \in Conns,
               \/ TimeoutTooLarge(c) \/ Backstop(c) \/ (PromptReturns(c) /\ pc[c] = "prompt")
        PROVE  [Arbiter!Next]_(Arbiter!vars)
    <2>1. PICK d \in Decisions : Settle(c, d) /\ (late[c] => d \in {"Timeout", "Denied"})
      BY <1>1 DEF TimeoutTooLarge, Backstop, PromptReturns, Decisions
    <2>2. pc[c] = "prompt" /\ UNCHANGED <<key, late, upstream>>
      BY <1>1 DEF TimeoutTooLarge, Backstop, PromptReturns
    <2> QED BY <2>1, <2>2, SettleAnswers
  <1>2. ASSUME NEW c \in Conns, DeadlinePasses(c) \/ Cancel(c)
        PROVE  [Arbiter!Next]_(Arbiter!vars)
    <2>1. Asked' = Asked \ {c}
      BY <1>2 DEF DeadlinePasses, Cancel, GoTo, Asked, HostInv, TypeOK
    <2> QED BY <1>2, <2>1, LeavesPrompt DEF DeadlinePasses, Cancel
  <1>3. ASSUME NEW c \in Conns, Step(c), ~ConnectUpstream(c), ~TimeoutTooLarge(c), ~Elect(c),
               ~Backstop(c), ~(PromptReturns(c) /\ pc[c] = "prompt"), ~DeadlinePasses(c), ~Cancel(c)
        PROVE  UNCHANGED Seen
    <2>1. \/ CheckHost(c) \/ PromptStarts(c) \/ (PromptReturns(c) /\ pc[c] # "prompt")
          \/ LeaderResolves(c) \/ FollowerWakes(c) \/ Refuse(c) \/ ResolveApproved(c)
          \/ RejectRequest(c) \/ Answer(c) \/ RelayEnds(c)
      BY <1>3 DEF Step
    <2>2. /\ UNCHANGED <<key, session_decisions, decision, upstream, late>>
          /\ \/ UNCHANGED pc
             \/ pc[c] # "prompt" /\ \E l : l # "prompt" /\ pc' = [pc EXCEPT ![c] = l]
      BY <2>1 DEF CheckHost, PromptStarts, PromptReturns, LeaderResolves, FollowerWakes, Refuse,
                  ResolveApproved, RejectRequest, Answer, RelayEnds, promptVars, GoTo
    <2>3. Asked' = Asked
      BY <2>2 DEF Asked, HostInv, TypeOK
    <2> QED BY <2>2, <2>3 DEF Seen
  <1>4. CASE UNCHANGED vars
    BY <1>4, QuietStutters DEF vars, Seen, Asked
  <1> QED BY <1>1, <1>2, <1>3, <1>4, ElectAsks, ConnectReaches, QuietStutters
          DEF Next, Terminated

\* The handlers, with their elections, prompts, timeouts and dropped tasks,
\* implement the arbiter.
THEOREM HandlersImplementArbiter == Spec => ImplementsArbiter
  <1>1. Init => Arbiter!Init
    BY DEF Init, Arbiter!Init
  <1>2. HostInv /\ [Next]_vars => [Arbiter!Next]_(Arbiter!vars)
    BY StepsImplement
  <1> QED BY <1>1, <1>2, HostInvariant, PTL DEF Spec, ImplementsArbiter, Arbiter!Spec

\* An answer for the session is never replaced.
THEOREM SessionAnswersFinal == Spec => SessionAnswerIsFinal
  <1>1. HostInv /\ [Next]_vars
          => [\A k \in Keys : session_decisions[k] # "unset"
                                 => session_decisions'[k] = session_decisions[k]]_vars
    <2> SUFFICES ASSUME HostInv, [Next]_vars, NEW k \in Keys, session_decisions[k] # "unset"
                 PROVE  session_decisions'[k] = session_decisions[k]
      BY DEF vars
    <2>1. CASE UNCHANGED session_decisions
      BY <2>1
    <2>2. ASSUME NEW c \in Conns, pc[c] = "prompt", NEW d \in Decisions, Settle(c, d)
          PROVE  session_decisions'[k] = session_decisions[k]
      BY <2>2 DEF HostInv, TypeOK, AnswersKept, Settle
    <2>3. ASSUME NEW c \in Conns, Step(c), session_decisions' # session_decisions
          PROVE  pc[c] = "prompt" /\ \E d \in Decisions : Settle(c, d)
      BY <2>3 DEF Step, CheckHost, Elect, PromptStarts, DeadlinePasses, PromptReturns,
                  TimeoutTooLarge, Backstop, LeaderResolves, Cancel, FollowerWakes, Refuse,
                  ResolveApproved, RejectRequest, ConnectUpstream, Answer, RelayEnds,
                  promptVars, Decisions
    <2> QED BY <2>1, <2>2, <2>3 DEF Next, Terminated, vars
  <1> QED BY <1>1, HostInvariant, PTL DEF Spec, SessionAnswerIsFinal

-----------------------------------------------------------------------------
\* The accept loops and the connection limit (AcceptLoop).

\* Cardinalities as the instance counts them.
LEMMA AcceptFinite == ASSUME NEW S PROVE Accept!IsFiniteSet(S) <=> IsFiniteSet(S)
  BY Zenon DEF Accept!IsFiniteSet, IsFiniteSet

LEMMA AcceptCounts == ASSUME NEW S PROVE Accept!Cardinality(S) = Cardinality(S)
  BY Zenon DEF Accept!Cardinality, Cardinality

LEMMA AcceptCardinalityType ==
  ASSUME NEW S, Accept!IsFiniteSet(S) PROVE Accept!Cardinality(S) \in Nat
  BY AcceptFinite, AcceptCounts, FS_CardinalityType

LEMMA AcceptEmptySet ==
  /\ Accept!IsFiniteSet({})
  /\ Accept!Cardinality({}) = 0
  /\ \A S : Accept!IsFiniteSet(S) => (Accept!Cardinality(S) = 0 <=> S = {})
  BY AcceptFinite, AcceptCounts, FS_EmptySet

LEMMA AcceptAddElement ==
  ASSUME NEW S, NEW x, Accept!IsFiniteSet(S)
  PROVE  /\ Accept!IsFiniteSet(S \cup {x})
         /\ Accept!Cardinality(S \cup {x}) =
               IF x \in S THEN Accept!Cardinality(S) ELSE Accept!Cardinality(S) + 1
  <1>1. IsFiniteSet(S)
    BY AcceptFinite
  <1>2. /\ IsFiniteSet(S \cup {x})
        /\ Cardinality(S \cup {x}) = IF x \in S THEN Cardinality(S) ELSE Cardinality(S) + 1
    BY <1>1, FS_AddElement
  <1> QED  BY <1>2, AcceptFinite, AcceptCounts, Zenon

LEMMA AcceptSubset ==
  ASSUME NEW S, Accept!IsFiniteSet(S), NEW T \in SUBSET S
  PROVE  Accept!IsFiniteSet(T) /\ Accept!Cardinality(T) <= Accept!Cardinality(S)
  <1>1. IsFiniteSet(S)
    BY AcceptFinite
  <1>2. IsFiniteSet(T) /\ Cardinality(T) <= Cardinality(S)
    BY <1>1, FS_Subset
  <1> QED  BY <1>2, AcceptFinite, AcceptCounts, Zenon

\* The loops between the load and the increment of the counter.
PastLoad == {l \in Loops : loopPc[l] = "counted"}

\* A loop that has accepted holds one connection, its own.
HoldsOne(l) ==
    loopPc[l] \in {"accepted", "counted"} =>
        \E c \in Clients : holds[l] = {c} /\ client_conn[c] = "held" /\ at[c] = l

\* Each loop past the load has seen a free slot, and takes one at most.
SlotsPromised ==
    max_connections > 0 =>
        active + Accept!Cardinality(PastLoad) <= max_connections + Accept!Cardinality(Loops) - 1

AcceptInv ==
    /\ active \in Int
    /\ loopPc \in [Loops -> {"absent", "select", "accepted", "counted", "stopped"}]
    /\ holds \in [Loops -> SUBSET Clients]
    /\ client_conn \in [Clients -> {"outside", "queued", "held", "refused", "running", "ended", "closed"}]
    /\ at \in [Clients -> Loops]
    /\ \A l \in Loops : HoldsOne(l)
    /\ Accept!IsFiniteSet(Accept!Counted) /\ Accept!SlotsAccounted
    /\ SlotsPromised

LEMMA PastBounded ==
  ASSUME Accept!ServerConfigured
  PROVE  /\ Accept!Cardinality(Loops) \in Nat /\ Accept!Cardinality(Loops) >= 1
         /\ Accept!IsFiniteSet(PastLoad) /\ Accept!Cardinality(PastLoad) \in Nat
         /\ Accept!Cardinality(PastLoad) <= Accept!Cardinality(Loops)
  <1>1. Accept!IsFiniteSet(Loops) /\ Primary \in Loops
    BY DEF Accept!ServerConfigured
  <1>2. Accept!Cardinality(Loops) \in Nat /\ Accept!Cardinality(Loops) # 0
    BY <1>1, AcceptCardinalityType, AcceptEmptySet
  <1>3. PastLoad \in SUBSET Loops
    BY DEF PastLoad
  <1>4. /\ Accept!IsFiniteSet(PastLoad)
        /\ Accept!Cardinality(PastLoad) <= Accept!Cardinality(Loops)
    BY <1>1, <1>3, AcceptSubset
  <1>5. Accept!Cardinality(PastLoad) \in Nat
    BY <1>4, AcceptCardinalityType
  <1> QED BY <1>1, <1>2, <1>4, <1>5

LEMMA AcceptBegins == ASSUME Accept!ServerConfigured, Accept!Init PROVE AcceptInv
  <1>1. Accept!Counted = {} /\ PastLoad = {}
    BY DEF Accept!Init, Accept!Counted, PastLoad
  <1>2. Accept!IsFiniteSet(Accept!Counted) /\ Accept!SlotsAccounted
    BY <1>1, AcceptEmptySet DEF Accept!SlotsAccounted, Accept!Init
  <1>3. SlotsPromised
    <2>1. Accept!Cardinality(PastLoad) = 0 /\ active = 0
      BY <1>1, AcceptEmptySet DEF Accept!Init
    <2> QED BY <2>1, PastBounded DEF Accept!ServerConfigured, SlotsPromised
  <1> QED BY <1>2, <1>3 DEF AcceptInv, Accept!Init, HoldsOne

\* A step that neither counts nor releases.
LEMMA AcceptSame ==
  ASSUME AcceptInv, UNCHANGED active, Accept!Counted' = Accept!Counted, PastLoad' = PastLoad
  PROVE  (Accept!IsFiniteSet(Accept!Counted) /\ Accept!SlotsAccounted /\ SlotsPromised)'
  BY DEF AcceptInv, Accept!SlotsAccounted, SlotsPromised

LEMMA ConnsMove ==
  ASSUME AcceptInv, UNCHANGED <<active, loopPc, holds, at>>,
         NEW c \in Clients, NEW s \in {"queued", "ended"},
         client_conn[c] # "held", (client_conn[c] = "running") <=> (s = "ended"), client_conn[c] # "ended",
         client_conn' = [client_conn EXCEPT ![c] = s]
  PROVE  AcceptInv'
  <1>1. Accept!Counted' = Accept!Counted /\ PastLoad' = PastLoad
    BY DEF AcceptInv, Accept!Counted, PastLoad
  <1>2. \A l \in Loops : HoldsOne(l)'
    BY DEF AcceptInv, HoldsOne
  <1> QED BY <1>1, <1>2, AcceptSame DEF AcceptInv

LEMMA AddListenerKeeps ==
  ASSUME AcceptInv, NEW l \in Loops, Accept!AddListener(l)
  PROVE  AcceptInv'
  <1>1. Accept!Counted' = Accept!Counted /\ PastLoad' = PastLoad
    BY DEF AcceptInv, Accept!Counted, PastLoad, Accept!AddListener
  <1>2. \A k \in Loops : HoldsOne(k)'
    BY DEF AcceptInv, HoldsOne, Accept!AddListener
  <1> QED BY <1>1, <1>2, AcceptSame DEF AcceptInv, Accept!AddListener

LEMMA AcceptKeeps ==
  ASSUME AcceptInv, NEW l \in Loops, NEW c \in Clients, Accept!Accept(l, c) PROVE AcceptInv'
  <1>1. Accept!Counted' = Accept!Counted /\ PastLoad' = PastLoad
    BY DEF AcceptInv, Accept!Counted, PastLoad, Accept!Accept
  <1>2. \A k \in Loops : HoldsOne(k)'
    BY DEF AcceptInv, HoldsOne, Accept!Accept
  <1> QED BY <1>1, <1>2, AcceptSame DEF AcceptInv, Accept!Accept

LEMMA StopKeeps == ASSUME AcceptInv, NEW l \in Loops, Accept!Stop(l) PROVE AcceptInv'
  <1>1. Accept!Counted' = Accept!Counted /\ PastLoad' = PastLoad
    BY DEF AcceptInv, Accept!Counted, PastLoad, Accept!Stop
  <1>2. \A k \in Loops : HoldsOne(k)'
    BY DEF AcceptInv, HoldsOne, Accept!Stop
  <1> QED BY <1>1, <1>2, AcceptSame DEF AcceptInv, Accept!Stop

\* The load: the loop goes on only below the limit.
LEMMA CheckLimitKeeps ==
  ASSUME Accept!ServerConfigured, AcceptInv, NEW l \in Loops, Accept!CheckLimit(l) PROVE AcceptInv'
  <1>1. Accept!Counted' = Accept!Counted
    BY DEF AcceptInv, HoldsOne, Accept!Counted, Accept!CheckLimit
  <1>2. \A k \in Loops : HoldsOne(k)'
    BY DEF AcceptInv, HoldsOne, Accept!CheckLimit
  <1>3. SlotsPromised'
    <2>1. CASE Accept!atLimit
      <3>1. PastLoad' = PastLoad
        BY <2>1 DEF AcceptInv, PastLoad, Accept!CheckLimit
      <3> QED BY <3>1, <2>1 DEF AcceptInv, SlotsPromised, Accept!CheckLimit
    <2>2. CASE ~Accept!atLimit
      <3>1. PastLoad' \in SUBSET Loops
        BY DEF PastLoad
      <3>2. /\ Accept!Cardinality(PastLoad') <= Accept!Cardinality(Loops)
            /\ Accept!Cardinality(PastLoad') \in Nat
        BY <3>1, AcceptSubset, AcceptCardinalityType DEF Accept!ServerConfigured
      <3>3. max_connections > 0 => active <= max_connections - 1
        BY <2>2 DEF Accept!atLimit, AcceptInv, Accept!ServerConfigured
      <3>4. active' = active
        BY DEF Accept!CheckLimit
      <3> QED BY <3>2, <3>3, <3>4, PastBounded
                 DEF SlotsPromised, AcceptInv, Accept!ServerConfigured
    <2> QED BY <2>1, <2>2
  <1> QED BY <1>1, <1>2, <1>3 DEF AcceptInv, Accept!CheckLimit, Accept!SlotsAccounted

\* The increment: the loop's promise becomes a counted connection.
LEMMA SpawnKeeps ==
  ASSUME Accept!ServerConfigured, AcceptInv, NEW l \in Loops, Accept!Spawn(l) PROVE AcceptInv'
  <1>1. PICK c \in Clients : holds[l] = {c} /\ client_conn[c] = "held" /\ at[c] = l
    BY DEF AcceptInv, HoldsOne, Accept!Spawn
  <1>2. client_conn' = [client_conn EXCEPT ![c] = "running"]
    BY <1>1 DEF AcceptInv, Accept!Spawn
  <1>3. Accept!Counted' = Accept!Counted \cup {c} /\ c \notin Accept!Counted
    BY <1>1, <1>2 DEF AcceptInv, Accept!Counted
  <1>4. /\ Accept!IsFiniteSet(Accept!Counted')
        /\ Accept!Cardinality(Accept!Counted') = Accept!Cardinality(Accept!Counted) + 1
    BY <1>3, AcceptAddElement DEF AcceptInv
  <1>5. PastLoad = PastLoad' \cup {l} /\ l \notin PastLoad'
    BY DEF AcceptInv, PastLoad, Accept!Spawn
  <1>6. Accept!IsFiniteSet(PastLoad')
    BY <1>5, PastBounded, AcceptSubset
  <1>7. /\ Accept!Cardinality(PastLoad) = Accept!Cardinality(PastLoad') + 1
        /\ Accept!Cardinality(PastLoad') \in Nat
    BY <1>5, <1>6, AcceptAddElement, AcceptCardinalityType
  <1>8. Accept!SlotsAccounted' /\ SlotsPromised'
    BY <1>4, <1>7, PastBounded
       DEF AcceptInv, Accept!SlotsAccounted, SlotsPromised, Accept!Spawn,
           Accept!ServerConfigured
  <1>9. \A k \in Loops : HoldsOne(k)'
    BY <1>1, <1>2 DEF AcceptInv, HoldsOne, Accept!Spawn
  <1> QED BY <1>2, <1>4, <1>8, <1>9 DEF AcceptInv, Accept!Spawn

LEMMA ReleaseKeeps ==
  ASSUME Accept!ServerConfigured, AcceptInv, NEW c \in Clients, Accept!Release(c) PROVE AcceptInv'
  <1>1. Accept!Counted = Accept!Counted' \cup {c} /\ c \notin Accept!Counted'
    BY DEF AcceptInv, Accept!Counted, Accept!Release
  <1>2. Accept!IsFiniteSet(Accept!Counted')
    BY <1>1, AcceptSubset DEF AcceptInv
  <1>3. /\ Accept!Cardinality(Accept!Counted) = Accept!Cardinality(Accept!Counted') + 1
        /\ Accept!Cardinality(Accept!Counted') \in Nat
    BY <1>1, <1>2, AcceptAddElement, AcceptCardinalityType
  <1>4. PastLoad' = PastLoad
    BY DEF PastLoad, Accept!Release
  <1>5. Accept!SlotsAccounted' /\ SlotsPromised'
    BY <1>3, <1>4, PastBounded
       DEF AcceptInv, Accept!SlotsAccounted, SlotsPromised, Accept!Release,
           Accept!ServerConfigured
  <1>6. \A k \in Loops : HoldsOne(k)'
    BY DEF AcceptInv, HoldsOne, Accept!Release
  <1> QED BY <1>2, <1>5, <1>6 DEF AcceptInv, Accept!Release

LEMMA AcceptStep ==
  ASSUME Accept!ServerConfigured, AcceptInv, [Accept!Next]_(Accept!vars) PROVE AcceptInv'
  <1>1. ASSUME UNCHANGED <<active, loopPc, holds, client_conn, at>> PROVE AcceptInv'
    <2>1. Accept!Counted' = Accept!Counted /\ PastLoad' = PastLoad
      BY <1>1 DEF Accept!Counted, PastLoad
    <2>2. \A k \in Loops : HoldsOne(k)'
      BY <1>1 DEF AcceptInv, HoldsOne
    <2> QED BY <1>1, <2>1, <2>2, AcceptSame DEF AcceptInv
  <1>2. ASSUME NEW c \in Clients, Accept!Arrive(c) PROVE AcceptInv'
    BY <1>2, ConnsMove DEF Accept!Arrive
  <1>3. ASSUME NEW c \in Clients, Accept!HandlerEnds(c) PROVE AcceptInv'
    BY <1>3, ConnsMove DEF Accept!HandlerEnds
  <1>4. CASE Accept!Shutdown \/ Accept!Terminated \/ UNCHANGED Accept!vars
    BY <1>1, <1>4 DEF Accept!Shutdown, Accept!Terminated, Accept!vars
  <1> QED
    BY <1>2, <1>3, <1>4, AddListenerKeeps, AcceptKeeps, StopKeeps, CheckLimitKeeps, SpawnKeeps,
       ReleaseKeeps DEF Accept!Next

\* AcceptInv is an invariant of the accept loops.
THEOREM AcceptInvariant ==
  Accept!ServerConfigured /\ Accept!Spec => [](Accept!ServerConfigured /\ AcceptInv)
  <1> DEFINE I == Accept!ServerConfigured /\ AcceptInv
  <1>1. Accept!ServerConfigured /\ Accept!Init => I
    BY AcceptBegins
  <1>2. I /\ [Accept!Next]_(Accept!vars) => I'
    BY AcceptStep
  <1> QED BY <1>1, <1>2, PTL DEF Accept!Spec

\* However the loops interleave, the limit is passed by at most one connection for
\* every loop besides the first.
THEOREM LimitNearlyKept == Accept!ServerConfigured /\ Accept!Spec => []OvershootBounded
  <1>1. Accept!ServerConfigured /\ AcceptInv => Accept!OvershootBounded
    <2> SUFFICES ASSUME Accept!ServerConfigured, AcceptInv PROVE Accept!OvershootBounded
      OBVIOUS
    <2>1. Accept!Cardinality(Accept!Counted) \in Nat
      BY AcceptCardinalityType DEF AcceptInv
    <2> QED BY <2>1, PastBounded
            DEF AcceptInv, Accept!SlotsAccounted, SlotsPromised, Accept!OvershootBounded,
            Accept!ServerConfigured
  <1>9. Accept!OvershootBounded => OvershootBounded
    BY DEF OvershootBounded
  <1> QED BY <1>9, <1>1, AcceptInvariant, PTL

-----------------------------------------------------------------------------
\* One request through the reverse-proxy handler (ReverseProxy).

Pending(stage) == \E i \in 1 .. Len(todo) : todo[i] = stage

Stages == {"start", "policy", "unsupported", "acquire", "auth", "limit", "capture", "check",
           "body", "send"}
LogEvents == {"upgrade_rejected", "credential_missing", "policy_allowed", "policy_denied",
              "approve_requested", "approve_granted", "approve_denied", "approve_timeout",
              "approve_error", "auth_failed", "rate_limited", "captured", "capture_failed",
              "host_denied", "connect_failed", "l7_request"}

Permits == {"policy_allowed", "approve_granted"}
Denials == {"policy_denied", "approve_denied", "approve_timeout",
            "auth_failed", "rate_limited", "host_denied"}

\* Sending is the last stage, and the stages before it are those of the route.
SendIsLast ==
    /\ Pending("send") => route.kind # "aws"
    /\ \A i \in 1 .. Len(todo) : todo[i] = "send" => i = Len(todo)

\* While the handler runs, what it has got past has left its mark.
PastPolicy == todo # <<>> /\ ~Pending("policy") => Reverse!Range(log) \intersect Permits # {}
PastAuth == Pending("send") /\ ~Pending("auth") => token \/ ~Reverse!MustAuthenticate
NothingDenied == todo # <<>> => Reverse!Range(log) \intersect Denials = {}

\* The upstream is sent to in the last stage.
SentLast == reached => todo = <<>> \/ Reverse!At("send")

ReverseInv ==
    /\ todo \in Seq(Stages) /\ log \in Seq(LogEvents) /\ reached \in BOOLEAN
    /\ SendIsLast /\ PastPolicy /\ PastAuth /\ NothingDenied /\ SentLast
    /\ route.kind \in DOMAIN Reverse!Path
    /\ Reverse!ForwardedAreAuthorised

LEMMA PathStages ==
  ASSUME NEW k \in DOMAIN Reverse!Path
  PROVE  /\ Reverse!Path[k] \in Seq(Stages)
         /\ \A i \in 1 .. Len(Reverse!Path[k]) : Reverse!Path[k][i] = "send" => i = Len(Reverse!Path[k])
         /\ (\E i \in 1 .. Len(Reverse!Path[k]) : Reverse!Path[k][i] = "send")
              => k # "aws" /\ \E i \in 1 .. Len(Reverse!Path[k]) : Reverse!Path[k][i] = "auth"
  <1>1. k \in {"static", "plain", "cmd", "oauth2", "assertion", "spiffe", "aws"}
    BY DEF Reverse!Path
  <1>2. CASE k \in {"static", "plain"}
    <2>1. Reverse!Path[k] = <<"auth", "limit", "check", "body", "send">>
      BY <1>2 DEF Reverse!Path
    <2>2. <<"auth", "limit", "check", "body", "send">> \in Seq(Stages)
      BY DEF Stages
    <2>3. Len(Reverse!Path[k]) = 5
      BY <2>1
    <2>4. 1 .. 5 = {1, 2, 3, 4, 5}
      OBVIOUS
    <2>5. /\ Reverse!Path[k][1] = "auth"
          /\ Reverse!Path[k][2] = "limit"
          /\ Reverse!Path[k][3] = "check"
          /\ Reverse!Path[k][4] = "body"
          /\ Reverse!Path[k][5] = "send"
      BY <2>1
    <2> QED  BY <1>2, <2>1, <2>2, <2>3, <2>4, <2>5
  <1>3. CASE k = "cmd"
    <2>1. Reverse!Path[k] = <<"auth", "limit", "capture", "check", "body", "send">>
      BY <1>3 DEF Reverse!Path
    <2>2. <<"auth", "limit", "capture", "check", "body", "send">> \in Seq(Stages)
      BY DEF Stages
    <2>3. Len(Reverse!Path[k]) = 6
      BY <2>1
    <2>4. 1 .. 6 = {1, 2, 3, 4, 5, 6}
      OBVIOUS
    <2>5. /\ Reverse!Path[k][1] = "auth"
          /\ Reverse!Path[k][2] = "limit"
          /\ Reverse!Path[k][3] = "capture"
          /\ Reverse!Path[k][4] = "check"
          /\ Reverse!Path[k][5] = "body"
          /\ Reverse!Path[k][6] = "send"
      BY <2>1
    <2> QED  BY <1>3, <2>1, <2>2, <2>3, <2>4, <2>5
  <1>4. CASE k \in {"oauth2", "assertion"}
    <2>1. Reverse!Path[k] = <<"acquire", "auth", "check", "body", "send">>
      BY <1>4 DEF Reverse!Path
    <2>2. <<"acquire", "auth", "check", "body", "send">> \in Seq(Stages)
      BY DEF Stages
    <2>3. Len(Reverse!Path[k]) = 5
      BY <2>1
    <2>4. 1 .. 5 = {1, 2, 3, 4, 5}
      OBVIOUS
    <2>5. /\ Reverse!Path[k][1] = "acquire"
          /\ Reverse!Path[k][2] = "auth"
          /\ Reverse!Path[k][3] = "check"
          /\ Reverse!Path[k][4] = "body"
          /\ Reverse!Path[k][5] = "send"
      BY <2>1
    <2> QED  BY <1>4, <2>1, <2>2, <2>3, <2>4, <2>5
  <1>5. CASE k = "spiffe"
    <2>1. Reverse!Path[k] = <<"auth", "acquire", "check", "body", "send">>
      BY <1>5 DEF Reverse!Path
    <2>2. <<"auth", "acquire", "check", "body", "send">> \in Seq(Stages)
      BY DEF Stages
    <2>3. Len(Reverse!Path[k]) = 5
      BY <2>1
    <2>4. 1 .. 5 = {1, 2, 3, 4, 5}
      OBVIOUS
    <2>5. /\ Reverse!Path[k][1] = "auth"
          /\ Reverse!Path[k][2] = "acquire"
          /\ Reverse!Path[k][3] = "check"
          /\ Reverse!Path[k][4] = "body"
          /\ Reverse!Path[k][5] = "send"
      BY <2>1
    <2> QED  BY <1>5, <2>1, <2>2, <2>3, <2>4, <2>5
  <1>6. CASE k = "aws"
    <2>1. Reverse!Path[k] = <<"unsupported">>
      BY <1>6 DEF Reverse!Path
    <2>2. <<"unsupported">> \in Seq(Stages)
      BY DEF Stages
    <2>3. Len(Reverse!Path[k]) = 1
      BY <2>1
    <2>4. 1 .. 1 = {1}
      OBVIOUS
    <2>5. Reverse!Path[k][1] = "unsupported"
      BY <2>1
    <2> QED  BY <1>6, <2>1, <2>2, <2>3, <2>4, <2>5
  <1> QED  BY <1>1, <1>2, <1>3, <1>4, <1>5, <1>6

LEMMA AfterTwo ==
  ASSUME NEW T, NEW s \in Seq(T), NEW p \in Seq(T), Len(s) = 2
  PROVE  /\ s \o p \in Seq(T) /\ Len(s \o p) = Len(p) + 2 /\ Len(p) \in Nat
         /\ \A i \in 1 .. Len(s \o p) : (s \o p)[i] = IF i <= 2 THEN s[i] ELSE p[i - 2]
  <1>0. Len(p) \in Nat
    OBVIOUS
  <1>1. s \o p \in Seq(T) /\ Len(s \o p) = Len(s) + Len(p)
    BY ConcatProperties, Zenon
  <1>2. \A i \in 1 .. Len(s) + Len(p) : (s \o p)[i] = IF i <= Len(s) THEN s[i] ELSE p[i - Len(s)]
    BY ConcatProperties
  <1>3. \A i \in 1 .. Len(s \o p) : (s \o p)[i] = IF i <= 2 THEN s[i] ELSE p[i - 2]
    BY <1>1, <1>2, Zenon
  <1>4. Len(s \o p) = Len(p) + 2
    BY <1>0, <1>1
  <1> QED  BY <1>0, <1>1, <1>3, <1>4

LEMMA ReverseInit == ASSUME Reverse!KindsHavePaths, Reverse!Init PROVE ReverseInv
  <1> DEFINE p == Reverse!Path[route.kind]
             s == <<"start", "policy">>
  <1>1. route.kind \in DOMAIN Reverse!Path
    BY DEF Reverse!Init, Reverse!KindsHavePaths
  <1>2. /\ p \in Seq(Stages)
        /\ \A i \in 1 .. Len(p) : p[i] = "send" => i = Len(p)
        /\ (\E i \in 1 .. Len(p) : p[i] = "send") => route.kind # "aws" /\ \E i \in 1 .. Len(p) : p[i] = "auth"
    BY <1>1, PathStages
  <1>3. todo = s \o p
    BY DEF Reverse!Init
  <1> HIDE DEF p
  <1>4. s \in Seq(Stages) /\ Len(s) = 2 /\ s[1] = "start" /\ s[2] = "policy"
    BY DEF Stages
  <1> HIDE DEF s
  <1>5. /\ todo \in Seq(Stages) /\ Len(todo) = Len(p) + 2 /\ Len(p) \in Nat
        /\ \A i \in 1 .. Len(todo) : todo[i] = IF i <= 2 THEN s[i] ELSE p[i - 2]
    BY <1>2, <1>3, <1>4, AfterTwo
  <1>6. \A i \in 1 .. Len(todo) : todo[i] = "send" => i = Len(todo)
    <2> SUFFICES ASSUME NEW i \in 1 .. Len(todo), todo[i] = "send" PROVE i = Len(todo)
      OBVIOUS
    <2>1. i # 1 /\ i # 2
      BY <1>4, <1>5
    <2>2. i - 2 \in 1 .. Len(p) /\ p[i - 2] = "send"
      BY <1>5, <2>1
    <2> QED  BY <1>2, <1>5, <2>2
  <1>7. Pending("policy")
    BY <1>4, <1>5 DEF Pending
  <1>8. Pending("send") => Pending("auth") /\ route.kind # "aws"
    <2> SUFFICES ASSUME NEW i \in 1 .. Len(todo), todo[i] = "send"
                 PROVE  Pending("auth") /\ route.kind # "aws"
      BY DEF Pending
    <2>1. i # 1 /\ i # 2
      BY <1>4, <1>5
    <2>2. i - 2 \in 1 .. Len(p) /\ p[i - 2] = "send"
      BY <1>5, <2>1
    <2>3. PICK j \in 1 .. Len(p) : p[j] = "auth"
      BY <1>2, <2>2
    <2>4. j + 2 \in 1 .. Len(todo) /\ todo[j + 2] = "auth"
      BY <1>5, <2>3
    <2> QED  BY <1>2, <2>2, <2>4 DEF Pending
  <1>9. log \in Seq(LogEvents) /\ Reverse!Range(log) = {} /\ reached = FALSE
    BY DEF Reverse!Init, Reverse!Range
  <1> QED
    BY <1>1, <1>5, <1>6, <1>7, <1>8, <1>9
       DEF ReverseInv, SendIsLast, PastPolicy, PastAuth, NothingDenied, SentLast,
       Reverse!ForwardedAreAuthorised

\* What the tail of the stages still holds.
LEMMA TailStages ==
  ASSUME NEW T, NEW s \in Seq(T), s # <<>>, NEW x
  PROVE  /\ Tail(s) \in Seq(T)
         /\ (\E i \in 1 .. Len(s) : s[i] = x)
              <=> (Head(s) = x \/ \E i \in 1 .. Len(Tail(s)) : Tail(s)[i] = x)
  <1>1. Len(s) \in Nat \ {0} /\ Head(s) = s[1] /\ Len(Tail(s)) = Len(s) - 1
        /\ \A i \in 1 .. Len(Tail(s)) : Tail(s)[i] = s[i + 1]
    OBVIOUS
  <1>2. ASSUME NEW i \in 1 .. Len(s), s[i] = x, i # 1
        PROVE  \E j \in 1 .. Len(Tail(s)) : Tail(s)[j] = x
    <2>1. i - 1 \in 1 .. Len(Tail(s)) /\ (i - 1) + 1 = i
      BY <1>1, <1>2
    <2> QED  BY <1>1, <1>2, <2>1
  <1>3. ASSUME NEW i \in 1 .. Len(Tail(s)), Tail(s)[i] = x
        PROVE  \E j \in 1 .. Len(s) : s[j] = x
    <2>1. i + 1 \in 1 .. Len(s)
      BY <1>1
    <2> QED  BY <1>1, <1>3, <2>1
  <1>4. 1 \in 1 .. Len(s)
    BY <1>1
  <1> QED  BY <1>1, <1>2, <1>3, <1>4

LEMMA TailIndex ==
  ASSUME NEW T, NEW s \in Seq(T), s # <<>>, NEW i \in 1 .. Len(Tail(s))
  PROVE  /\ i \in Int /\ i + 1 \in 1 .. Len(s) /\ Tail(s)[i] = s[i + 1]
         /\ Len(s) \in Int /\ Len(Tail(s)) \in Int /\ Len(Tail(s)) = Len(s) - 1
  OBVIOUS

LEMMA OneLess == \A i, m, n \in Int : i + 1 = n /\ m = n - 1 => i = m
  OBVIOUS

LEMMA TailSendLast ==
  ASSUME NEW T, NEW s \in Seq(T), s # <<>>, \A i \in 1 .. Len(s) : s[i] = "send" => i = Len(s)
  PROVE  \A i \in 1 .. Len(Tail(s)) : Tail(s)[i] = "send" => i = Len(Tail(s))
  <1> SUFFICES ASSUME NEW i \in 1 .. Len(Tail(s)), Tail(s)[i] = "send" PROVE i = Len(Tail(s))
    OBVIOUS
  <1>1. /\ i \in Int /\ i + 1 \in 1 .. Len(s) /\ Tail(s)[i] = s[i + 1]
        /\ Len(s) \in Int /\ Len(Tail(s)) \in Int /\ Len(Tail(s)) = Len(s) - 1
    BY TailIndex, Zenon
  <1>2. i + 1 = Len(s)
    BY <1>1
  <1> QED  BY <1>1, <1>2, OneLess, Zenon

LEMMA RangeAppend ==
  ASSUME NEW T, NEW s \in Seq(T), NEW e \in T
  PROVE  Append(s, e) \in Seq(T) /\ Reverse!Range(Append(s, e)) = Reverse!Range(s) \union {e}
  <1>1. /\ Append(s, e) \in Seq(T) /\ Len(Append(s, e)) = Len(s) + 1 /\ Len(s) \in Nat
        /\ \A i \in 1 .. Len(s) : Append(s, e)[i] = s[i]
        /\ Append(s, e)[Len(s) + 1] = e
        /\ DOMAIN s = 1 .. Len(s) /\ DOMAIN Append(s, e) = 1 .. (Len(s) + 1)
    OBVIOUS
  <1>2. ASSUME NEW x \in Reverse!Range(Append(s, e)) PROVE x \in Reverse!Range(s) \union {e}
    <2>1. PICK i \in 1 .. (Len(s) + 1) : x = Append(s, e)[i]
      BY <1>1, <1>2 DEF Reverse!Range
    <2> QED  BY <1>1, <2>1 DEF Reverse!Range
  <1>3. ASSUME NEW x \in Reverse!Range(s) PROVE x \in Reverse!Range(Append(s, e))
    <2>1. PICK i \in 1 .. Len(s) : x = s[i]
      BY <1>1, <1>3 DEF Reverse!Range
    <2>2. i \in 1 .. (Len(s) + 1) /\ Append(s, e)[i] = x
      BY <1>1, <2>1
    <2> QED  BY <1>1, <2>2 DEF Reverse!Range
  <1>4. e \in Reverse!Range(Append(s, e))
    <2>1. Len(s) + 1 \in 1 .. (Len(s) + 1)
      BY <1>1
    <2> QED  BY <1>1, <2>1 DEF Reverse!Range
  <1> QED  BY <1>1, <1>2, <1>3, <1>4

\* The handler returns: nothing is pending and nothing more is sent.
LEMMA ReverseEnds ==
  ASSUME ReverseInv, todo' = <<>>, log' \in Seq(LogEvents), UNCHANGED <<route, token, reached>>,
         ~reached \/ \E e \in {"l7_request", "connect_failed"} : log' = Append(log, e)
                  \/ UNCHANGED log
  PROVE  ReverseInv'
  <1>1. Reverse!ForwardedAreAuthorised'
    <2> SUFFICES ASSUME reached PROVE Reverse!ForwardedAreAuthorised'
      BY DEF Reverse!ForwardedAreAuthorised
    <2>1. log \in Seq(LogEvents) /\ "l7_request" \in LogEvents /\ "connect_failed" \in LogEvents
      BY DEF ReverseInv, LogEvents
    <2>2. \/ Reverse!Range(log') = Reverse!Range(log)
          \/ \E e \in {"l7_request", "connect_failed"} : Reverse!Range(log') = Reverse!Range(log) \union {e}
      <3>1. PICK e \in {"l7_request", "connect_failed"} : log' = Append(log, e) \/ UNCHANGED log
        OBVIOUS
      <3>2. Reverse!Range(Append(log, e)) = Reverse!Range(log) \union {e}
        BY <2>1, RangeAppend
      <3> QED  BY <3>1, <3>2
    <2> QED  BY <2>2 DEF ReverseInv, Reverse!ForwardedAreAuthorised
  <1> QED  BY <1>1
              DEF ReverseInv, SendIsLast, PastPolicy, PastAuth, NothingDenied, SentLast, Pending

\* A stage before the last is passed.
LEMMA ReverseProceeds ==
  ASSUME ReverseInv, todo # <<>>, ~reached, todo' = Tail(todo), log' \in Seq(LogEvents),
         Reverse!Range(log') \intersect Denials = {}, Reverse!Range(log) \subseteq Reverse!Range(log'),
         Reverse!At("policy") => Reverse!Range(log') \intersect Permits # {},
         Reverse!At("auth") => token \/ ~Reverse!MustAuthenticate,
         UNCHANGED <<route, token, reached>>
  PROVE  ReverseInv'
  <1>1. todo' \in Seq(Stages)
    BY TailStages DEF ReverseInv
  <1>2. \A x : Pending(x) <=> (Reverse!At(x) \/ Pending(x)')
    BY TailStages DEF ReverseInv, Pending, Reverse!At
  <1>3. SendIsLast'
    BY <1>2, TailSendLast DEF ReverseInv, SendIsLast
  <1>4. PastPolicy'
    BY <1>2 DEF PastPolicy, ReverseInv
  <1>5. PastAuth'
    BY <1>2 DEF PastAuth, ReverseInv, Reverse!MustAuthenticate, Reverse!OAuth2Like
  <1> QED  BY <1>1, <1>3, <1>4, <1>5
              DEF ReverseInv, NothingDenied, SentLast, Reverse!ForwardedAreAuthorised

\* The handler stays where it is.
LEMMA ReverseStays ==
  ASSUME ReverseInv, UNCHANGED <<route, token, todo, log, reached>>
  PROVE  ReverseInv'
  BY DEF ReverseInv, SendIsLast, PastPolicy, PastAuth, NothingDenied, SentLast, Pending,
         Reverse!At,
         Reverse!MustAuthenticate, Reverse!OAuth2Like, Reverse!ForwardedAreAuthorised

\* Before the last stage nothing has been sent.
LEMMA NotYetSent ==
  ASSUME ReverseInv, NEW x, Reverse!At(x), x # "send"
  PROVE  ~reached /\ todo # <<>>
  BY DEF ReverseInv, SentLast, Reverse!At

LEMMA ReverseStages ==
  ASSUME ReverseInv,
         NEW x \in {"start", "unsupported", "acquire", "auth", "limit", "capture", "check", "body"},
         Reverse!At(x), UNCHANGED <<route, token, reached>>,
         \/ todo' = Tail(todo) /\ UNCHANGED log /\ (x = "auth" => token \/ ~Reverse!MustAuthenticate)
         \/ todo' = Tail(todo) /\ log' = Append(log, "captured") /\ x # "auth"
         \/ todo' = <<>> /\ log' \in Seq(LogEvents)
  PROVE  ReverseInv'
  <1>1. ~reached /\ todo # <<>> /\ ~Reverse!At("policy") /\ (Reverse!At("auth") => x = "auth")
    BY NotYetSent DEF Reverse!At
  <1>2. log \in Seq(LogEvents) /\ Reverse!Range(log) \intersect Denials = {}
    BY <1>1 DEF ReverseInv, NothingDenied
  <1>3. CASE todo' = <<>> /\ log' \in Seq(LogEvents)
    BY <1>1, <1>3, ReverseEnds
  <1>4. CASE todo' = Tail(todo) /\ UNCHANGED log /\ (x = "auth" => token \/ ~Reverse!MustAuthenticate)
    BY <1>1, <1>2, <1>4, ReverseProceeds
  <1>5. CASE todo' = Tail(todo) /\ log' = Append(log, "captured") /\ x # "auth"
    <2>1. /\ log' \in Seq(LogEvents)
          /\ Reverse!Range(log') = Reverse!Range(log) \union {"captured"}
      BY <1>2, <1>5, RangeAppend DEF LogEvents
    <2>2. /\ Reverse!Range(log') \intersect Denials = {}
          /\ Reverse!Range(log) \subseteq Reverse!Range(log')
      BY <1>2, <2>1 DEF Denials
    <2> QED  BY <1>1, <1>5, <2>1, <2>2, ReverseProceeds
  <1> QED  BY <1>3, <1>4, <1>5

LEMMA ReverseNext == ASSUME ReverseInv, [Reverse!Next]_(Reverse!vars) PROVE ReverseInv'
  <1> USE DEF Reverse!Stage, Reverse!Proceed, Reverse!Drop, Reverse!Answer, Reverse!Log, Reverse!Refuse, Reverse!RefuseThenLog, Reverse!RefuseSilently
  <1>0. log \in Seq(LogEvents) /\ \A e \in LogEvents : Append(log, e) \in Seq(LogEvents)
    BY DEF ReverseInv
  <1>1. CASE Reverse!Start
    BY <1>0, <1>1, ReverseStages DEF Reverse!Start, LogEvents
  <1>2. CASE Reverse!Unsupported
    BY <1>0, <1>2, ReverseStages DEF Reverse!Unsupported
  <1>3. CASE Reverse!Acquire
    BY <1>0, <1>3, ReverseStages DEF Reverse!Acquire, LogEvents
  <1>4. CASE Reverse!Auth
    BY <1>0, <1>4, ReverseStages DEF Reverse!Auth, Reverse!Challenge, LogEvents
  <1>5. CASE Reverse!Limit
    BY <1>0, <1>5, ReverseStages DEF Reverse!Limit, LogEvents
  <1>6. CASE Reverse!Capture
    <2>1. log \o <<"capture_failed", "credential_missing">> \in Seq(LogEvents)
      BY <1>0 DEF LogEvents
    <2>2. "credential_missing" \in LogEvents /\ "captured" \in LogEvents
      BY DEF LogEvents
    <2> QED  BY <1>0, <1>6, <2>1, <2>2, ReverseStages DEF Reverse!Capture
  <1>7. CASE Reverse!Check
    BY <1>0, <1>7, ReverseStages DEF Reverse!Check, LogEvents
  <1>8. CASE Reverse!Body
    BY <1>0, <1>8, ReverseStages DEF Reverse!Body
  <1>9. ASSUME Reverse!At("policy"), UNCHANGED <<route, token, reached>>,
               NEW e \in {"policy_allowed", "approve_granted"}, log' = Append(log, e), todo' = Tail(todo)
        PROVE  ReverseInv'
    <2>1. ~reached /\ todo # <<>> /\ ~Reverse!At("auth")
      BY <1>9, NotYetSent DEF Reverse!At
    <2>2. Reverse!Range(log) \intersect Denials = {}
      BY <2>1 DEF ReverseInv, NothingDenied
    <2>3. log' \in Seq(LogEvents) /\ Reverse!Range(log') = Reverse!Range(log) \union {e}
      BY <1>0, <1>9, RangeAppend DEF LogEvents
    <2>4. /\ Reverse!Range(log') \intersect Denials = {}
          /\ Reverse!Range(log) \subseteq Reverse!Range(log')
          /\ Reverse!Range(log') \intersect Permits # {}
      BY <2>2, <2>3 DEF Denials, Permits
    <2> QED  BY <1>9, <2>1, <2>3, <2>4, ReverseProceeds
  <1>10. ASSUME Reverse!At("policy"), UNCHANGED <<route, token, reached>>, log' \in Seq(LogEvents), todo' = <<>>
         PROVE  ReverseInv'
    BY <1>10, NotYetSent, ReverseEnds
  <1>11. CASE Reverse!Policy
    <2>1. CASE log' = Append(log, "approve_requested") /\ UNCHANGED todo
      <3>1. Reverse!At("policy") /\ UNCHANGED <<route, token, reached>>
        BY <1>11 DEF Reverse!Policy
      <3>2. ~reached /\ todo # <<>>
        BY <3>1, NotYetSent
      <3>3. /\ log' \in Seq(LogEvents)
            /\ Reverse!Range(log') = Reverse!Range(log) \union {"approve_requested"}
        BY <1>0, <2>1, RangeAppend DEF LogEvents
      <3>4. Reverse!Range(log) \intersect Denials = {}
        BY <3>2 DEF ReverseInv, NothingDenied
      <3>5. Reverse!Range(log') \intersect Denials = {}
        BY <3>3, <3>4 DEF Denials
      <3> QED  BY <2>1, <3>1, <3>2, <3>3, <3>5
               DEF ReverseInv, SendIsLast, PastPolicy, PastAuth, NothingDenied, SentLast,
               Pending, Reverse!At,
                   Reverse!MustAuthenticate, Reverse!OAuth2Like, Reverse!ForwardedAreAuthorised
    <2> QED  BY <1>0, <1>9, <1>10, <1>11, <2>1 DEF Reverse!Policy, LogEvents
  <1>12. CASE Reverse!Decide
    BY <1>0, <1>9, <1>10, <1>12 DEF Reverse!Decide, LogEvents
  <1>13. CASE Reverse!DeadlinePasses
    BY <1>0, <1>10, <1>13 DEF Reverse!DeadlinePasses, LogEvents
  <1>14. CASE Reverse!Send
    <2>1. Reverse!At("send") /\ ~reached /\ UNCHANGED <<route, token>> /\ todo # <<>>
      BY <1>14 DEF Reverse!Send, Reverse!At
    <2>2. CASE UNCHANGED reached /\ todo' = <<>> /\ log' \in Seq(LogEvents)
      BY <2>1, <2>2, ReverseEnds
    <2>3. CASE reached' = TRUE /\ UNCHANGED <<todo, log>>
      <3>1. Len(todo) = 1 /\ todo[1] = "send"
        <4>1. Len(todo) \in Nat \ {0} /\ todo[1] = "send"
          BY <2>1 DEF Reverse!At, ReverseInv
        <4>2. 1 \in 1 .. Len(todo)
          BY <4>1
        <4> QED  BY <4>1, <4>2 DEF ReverseInv, SendIsLast
      <3>2. Pending("send") /\ ~Pending("policy") /\ ~Pending("auth")
        BY <3>1 DEF Pending
      <3>3. /\ Reverse!Range(log) \intersect Permits # {}
            /\ Reverse!Range(log) \intersect Denials = {}
        BY <2>1, <3>2 DEF ReverseInv, PastPolicy, NothingDenied
      <3>4. token \/ ~Reverse!MustAuthenticate
        BY <3>2 DEF ReverseInv, PastAuth
      <3>5. route.kind \in {"static", "plain", "cmd", "oauth2", "assertion", "spiffe", "aws"}
        BY DEF ReverseInv, Reverse!Path
      <3>6. route.kind # "aws"
        BY <3>2 DEF ReverseInv, SendIsLast
      <3> QED  BY <2>1, <2>3, <3>3, <3>4, <3>5, <3>6
               DEF ReverseInv, SendIsLast, PastPolicy, PastAuth, NothingDenied, SentLast,
               Pending, Reverse!At,
                   Reverse!MustAuthenticate, Reverse!OAuth2Like,
                   Reverse!ForwardedAreAuthorised, Permits, Denials
    <2> QED  BY <1>0, <1>14, <2>2, <2>3 DEF Reverse!Send, LogEvents
  <1>15. CASE Reverse!Respond
    BY <1>0, <1>15, ReverseEnds DEF Reverse!Respond, LogEvents
  <1>16. CASE Reverse!BackendAnswers \/ Reverse!HangUp \/ Reverse!Done \/ UNCHANGED Reverse!vars
    BY <1>16, ReverseStays
       DEF Reverse!BackendAnswers, Reverse!HangUp, Reverse!Done, Reverse!vars
  <1> QED
    BY <1>1, <1>2, <1>3, <1>4, <1>5, <1>6, <1>7, <1>8, <1>11, <1>12, <1>13, <1>14, <1>15, <1>16
       DEF Reverse!Next

\* ReverseInv is an invariant of the reverse-proxy handler.
THEOREM ReverseInvariant == Reverse!KindsHavePaths /\ Reverse!Spec => []ReverseInv
  <1>1. Reverse!KindsHavePaths /\ Reverse!Init => ReverseInv
    BY ReverseInit
  <1>2. ReverseInv /\ [Reverse!Next]_(Reverse!vars) => ReverseInv'
    BY ReverseNext
  <1> QED  BY <1>1, <1>2, PTL DEF Reverse!Spec

\* Whatever the order of the backend, its deadline and a client that hangs up:
\* nothing reaches an upstream that the policy did not allow, whose token was not
\* checked where the route needs it, or of which a denial was logged.
THEOREM ForwardedWereAuthorised ==
  Reverse!KindsHavePaths /\ Reverse!Spec => []ForwardedAreAuthorised
  <1>1. ReverseInv => Reverse!ForwardedAreAuthorised
    BY DEF ReverseInv
  <1>9. Reverse!ForwardedAreAuthorised => ForwardedAreAuthorised
    BY DEF ForwardedAreAuthorised
  <1> QED  BY <1>9, <1>1, ReverseInvariant, PTL

-----------------------------------------------------------------------------
\* The token bucket of a route (RouteRateLimiter).

\* Cardinalities as the instance counts them.
LEMMA LimiterFinite == ASSUME NEW S PROVE Limiter!IsFiniteSet(S) <=> IsFiniteSet(S)
  BY Zenon DEF Limiter!IsFiniteSet, IsFiniteSet

LEMMA LimiterCounts == ASSUME NEW S PROVE Limiter!Cardinality(S) = Cardinality(S)
  BY Zenon DEF Limiter!Cardinality, Cardinality

LEMMA LimiterCardinalityType ==
  ASSUME NEW S, Limiter!IsFiniteSet(S) PROVE Limiter!Cardinality(S) \in Nat
  BY LimiterFinite, LimiterCounts, FS_CardinalityType

LEMMA LimiterEmptySet ==
  /\ Limiter!IsFiniteSet({})
  /\ Limiter!Cardinality({}) = 0
  /\ \A S : Limiter!IsFiniteSet(S) => (Limiter!Cardinality(S) = 0 <=> S = {})
  BY LimiterFinite, LimiterCounts, FS_EmptySet

LEMMA LimiterAddElement ==
  ASSUME NEW S, NEW x, Limiter!IsFiniteSet(S)
  PROVE  /\ Limiter!IsFiniteSet(S \cup {x})
         /\ Limiter!Cardinality(S \cup {x}) =
               IF x \in S THEN Limiter!Cardinality(S) ELSE Limiter!Cardinality(S) + 1
  <1>1. IsFiniteSet(S)
    BY LimiterFinite
  <1>2. /\ IsFiniteSet(S \cup {x})
        /\ Cardinality(S \cup {x}) = IF x \in S THEN Cardinality(S) ELSE Cardinality(S) + 1
    BY <1>1, FS_AddElement
  <1> QED  BY <1>2, LimiterFinite, LimiterCounts, Zenon

LEMMA LimiterSubset ==
  ASSUME NEW S, Limiter!IsFiniteSet(S), NEW T \in SUBSET S
  PROVE  Limiter!IsFiniteSet(T) /\ Limiter!Cardinality(T) <= Limiter!Cardinality(S)
  <1>1. IsFiniteSet(S)
    BY LimiterFinite
  <1>2. IsFiniteSet(T) /\ Cardinality(T) <= Cardinality(S)
    BY <1>1, FS_Subset
  <1> QED  BY <1>2, LimiterFinite, LimiterCounts, Zenon

\* No reading is from the future.
ReadingsPast == last_refill <= limiterClock /\ \A r \in LimitedRequests : now[r] <= limiterClock

\* Among any admitted requests one is released no earlier than the time that
\* pays for them all.
ReleasesPay ==
    \A S \in SUBSET Limiter!Admitted :
        S # {} => \E r \in S : Token * Limiter!Cardinality(S) <= Limiter!capacity + release[r] + setback

\* Who has been forwarded has waited.
ForwardedReleased == \A r \in LimitedRequests : limiterPc[r] = "forwarded" => release[r] <= limiterClock

LimiterInv ==
    /\ Limiter!TypeOK
    /\ ReadingsPast
    /\ Limiter!IsFiniteSet(Limiter!Admitted)
    /\ Limiter!AdmissionsPaid
    /\ ReleasesPay
    /\ ForwardedReleased

LEMMA CapacityPositive ==
  ASSUME Limiter!LimiterConfigured
  PROVE  Limiter!capacity \in Nat /\ Limiter!capacity >= Token
  <1>1. \A b \in Nat \ {0} : Token * b \in Nat /\ Token * b >= Token
    <2> SUFFICES ASSUME NEW b \in Nat \ {0} PROVE Token * b \in Nat /\ Token * b >= Token
      OBVIOUS
    <2>1. Token \in Nat /\ b - 1 \in Nat
      BY DEF Limiter!LimiterConfigured
    <2>2. Token * (b - 1) \in Nat
      BY <2>1
    <2>3. Token * b = Token * (b - 1) + Token
      BY <2>1
    <2> QED  BY <2>1, <2>2, <2>3
  <1> QED  BY <1>1 DEF Limiter!capacity, Limiter!LimiterConfigured

LEMMA TimesGrows ==
  ASSUME Limiter!LimiterConfigured, NEW m \in Nat, NEW n \in Nat, m <= n
  PROVE  Token * m \in Nat /\ Token * n \in Nat /\ Token * m <= Token * n
         /\ Token * (n + 1) = Token * n + Token
  <1>1. Token \in Nat /\ n - m \in Nat
    BY DEF Limiter!LimiterConfigured
  <1>2. Token * (n - m) \in Nat /\ Token * m \in Nat
    BY <1>1
  <1>3. Token * n = Token * m + Token * (n - m)
    BY <1>1
  <1>4. Token * (n + 1) = Token * n + Token
    BY <1>1
  <1> QED  BY <1>2, <1>3, <1>4

LEMMA LimiterInit == ASSUME Limiter!LimiterConfigured, Limiter!Init PROVE LimiterInv
  <1>1. Limiter!Admitted = {}
    BY DEF Limiter!Init, Limiter!Admitted
  <1>2. Limiter!IsFiniteSet(Limiter!Admitted) /\ Limiter!Cardinality(Limiter!Admitted) = 0
    BY <1>1, LimiterEmptySet
  <1>3. Limiter!TypeOK
    BY CapacityPositive
       DEF Limiter!Init, Limiter!TypeOK, Limiter!LastTick, Limiter!LimiterConfigured
  <1>4. Limiter!AdmissionsPaid
    BY <1>2, CapacityPositive
       DEF Limiter!AdmissionsPaid, Limiter!Init, Limiter!LimiterConfigured
  <1> QED  BY <1>1, <1>2, <1>3, <1>4
              DEF LimiterInv, ReadingsPast, ReleasesPay, ForwardedReleased, Limiter!Init

\* A step that leaves the bucket alone and admits nobody.
LEMMA LimiterSame ==
  ASSUME LimiterInv, Limiter!Admitted' = Limiter!Admitted, UNCHANGED <<tokens, last_refill, release, setback>>
  PROVE  Limiter!IsFiniteSet(Limiter!Admitted)' /\ Limiter!AdmissionsPaid' /\ ReleasesPay'
  BY DEF LimiterInv, Limiter!AdmissionsPaid, ReleasesPay

LEMMA LimiterTick ==
  ASSUME Limiter!LimiterConfigured, LimiterInv, Limiter!Tick
  PROVE  LimiterInv'
  <1>1. Limiter!Admitted' = Limiter!Admitted
    BY DEF Limiter!Tick, Limiter!Admitted
  <1>2. Limiter!IsFiniteSet(Limiter!Admitted)' /\ Limiter!AdmissionsPaid' /\ ReleasesPay'
    BY <1>1, LimiterSame DEF Limiter!Tick
  <1>3. Limiter!TypeOK'
    BY DEF Limiter!Tick, LimiterInv, Limiter!TypeOK, Limiter!LastTick, Limiter!LimiterConfigured
  <1>4. ReadingsPast' /\ ForwardedReleased'
    BY DEF Limiter!Tick, LimiterInv, Limiter!TypeOK, ReadingsPast, ForwardedReleased,
           Limiter!LastTick, Limiter!LimiterConfigured
  <1> QED  BY <1>2, <1>3, <1>4 DEF LimiterInv

LEMMA LimiterRead ==
  ASSUME Limiter!LimiterConfigured, LimiterInv, NEW r \in LimitedRequests, Limiter!ReadClock(r)
  PROVE  LimiterInv'
  <1>1. Limiter!Admitted' = Limiter!Admitted
    BY DEF Limiter!ReadClock, Limiter!Admitted, LimiterInv, Limiter!TypeOK
  <1>2. Limiter!IsFiniteSet(Limiter!Admitted)' /\ Limiter!AdmissionsPaid' /\ ReleasesPay'
    BY <1>1, LimiterSame DEF Limiter!ReadClock
  <1>3. Limiter!TypeOK'
    BY DEF Limiter!ReadClock, LimiterInv, Limiter!TypeOK, Limiter!LastTick,
           Limiter!LimiterConfigured
  <1>4. ReadingsPast' /\ ForwardedReleased'
    BY DEF Limiter!ReadClock, LimiterInv, Limiter!TypeOK, ReadingsPast, ForwardedReleased
  <1> QED  BY <1>2, <1>3, <1>4 DEF LimiterInv

LEMMA LimiterForward ==
  ASSUME LimiterInv, NEW r \in LimitedRequests, Limiter!Forward(r)
  PROVE  LimiterInv'
  <1>1. Limiter!Admitted' = Limiter!Admitted
    BY DEF Limiter!Forward, Limiter!Admitted, LimiterInv, Limiter!TypeOK
  <1>2. Limiter!IsFiniteSet(Limiter!Admitted)' /\ Limiter!AdmissionsPaid' /\ ReleasesPay'
    BY <1>1, LimiterSame DEF Limiter!Forward
  <1>3. Limiter!TypeOK'
    BY DEF Limiter!Forward, LimiterInv, Limiter!TypeOK
  <1>4. ReadingsPast' /\ ForwardedReleased'
    BY DEF Limiter!Forward, LimiterInv, Limiter!TypeOK, ReadingsPast, ForwardedReleased
  <1> QED  BY <1>2, <1>3, <1>4 DEF LimiterInv

\* What a refill adds, the reading or the setback pays for.
LEMMA RefillPaid ==
  ASSUME Limiter!LimiterConfigured, LimiterInv, NEW r \in LimitedRequests, Limiter!AcquireAt(r)
  PROVE  /\ Limiter!refilled(r) \in Int /\ Limiter!refilled(r) <= Limiter!capacity /\ Limiter!refilled(r) >= tokens
         /\ Limiter!refilled(r) - tokens <= last_refill' - last_refill + (setback' - setback)
         /\ setback' \in Nat /\ setback' >= setback /\ last_refill' = now[r]
  BY CapacityPositive
     DEF Limiter!AcquireAt, Limiter!refilled, Limiter!elapsed, LimiterInv, Limiter!TypeOK,
         Limiter!LimiterConfigured

LEMMA LimiterReject ==
  ASSUME Limiter!LimiterConfigured, LimiterInv, NEW r \in LimitedRequests, Limiter!AcquireAt(r),
         tokens' = Limiter!refilled(r), limiterPc' = [limiterPc EXCEPT ![r] = "rejected"], UNCHANGED release
  PROVE  LimiterInv'
  <1>1. /\ limiterPc[r] = "read" /\ UNCHANGED <<limiterClock, now>> /\ last_refill' = now[r]
    BY DEF Limiter!AcquireAt
  <1>2. Limiter!Admitted' = Limiter!Admitted
    BY <1>1 DEF Limiter!Admitted, LimiterInv, Limiter!TypeOK
  <1>3. Limiter!TypeOK'
    BY <1>1, RefillPaid, CapacityPositive
       DEF LimiterInv, Limiter!TypeOK, Limiter!LimiterConfigured
  <1>4. Limiter!Cardinality(Limiter!Admitted) \in Nat
    BY LimiterCardinalityType DEF LimiterInv
  <1>5. Token * Limiter!Cardinality(Limiter!Admitted) \in Nat
    BY <1>4, TimesGrows
  <1>6. Limiter!AdmissionsPaid'
    BY <1>2, <1>5, RefillPaid, CapacityPositive
       DEF LimiterInv, Limiter!AdmissionsPaid, Limiter!TypeOK
  <1>7. ReleasesPay'
    <2> SUFFICES ASSUME NEW S \in SUBSET Limiter!Admitted, S # {}
                 PROVE  \E q \in S : Token * Limiter!Cardinality(S) <= Limiter!capacity + release[q] + setback'
      BY <1>2 DEF ReleasesPay
    <2>1. PICK q \in S : Token * Limiter!Cardinality(S) <= Limiter!capacity + release[q] + setback
      BY DEF LimiterInv, ReleasesPay
    <2>2. Limiter!Cardinality(S) \in Nat
      BY LimiterSubset, LimiterCardinalityType DEF LimiterInv
    <2>3. Token * Limiter!Cardinality(S) \in Nat
      BY <2>2, TimesGrows
    <2>4. release[q] \in Nat
      BY DEF LimiterInv, Limiter!TypeOK, Limiter!Admitted
    <2> QED  BY <2>1, <2>3, <2>4, RefillPaid, CapacityPositive DEF LimiterInv, Limiter!TypeOK
  <1>8. ReadingsPast' /\ ForwardedReleased'
    BY <1>1 DEF LimiterInv, Limiter!TypeOK, ReadingsPast, ForwardedReleased
  <1> QED  BY <1>2, <1>3, <1>6, <1>7, <1>8 DEF LimiterInv

LEMMA LimiterAdmit ==
  ASSUME Limiter!LimiterConfigured, LimiterInv, NEW r \in LimitedRequests, Limiter!AcquireAt(r),
         tokens' = Limiter!refilled(r) - Token, limiterPc' = [limiterPc EXCEPT ![r] = "sleep"],
         NEW d \in Nat, d >= Token - Limiter!refilled(r), d <= MaxDelay \/ Limiter!refilled(r) >= Token,
         release' = [release EXCEPT ![r] = limiterClock + d]
  PROVE  LimiterInv'
  <1>1. /\ limiterPc[r] = "read" /\ UNCHANGED <<limiterClock, now>> /\ last_refill' = now[r]
    BY DEF Limiter!AcquireAt
  <1>2. Limiter!Admitted' = Limiter!Admitted \union {r} /\ r \notin Limiter!Admitted
    BY <1>1 DEF Limiter!Admitted, LimiterInv, Limiter!TypeOK
  <1>3. /\ Limiter!IsFiniteSet(Limiter!Admitted')
        /\ Limiter!Cardinality(Limiter!Admitted') = Limiter!Cardinality(Limiter!Admitted) + 1
        /\ Limiter!Cardinality(Limiter!Admitted) \in Nat
    BY <1>2, LimiterAddElement, LimiterCardinalityType DEF LimiterInv
  <1>4. Limiter!TypeOK'
    BY <1>1, RefillPaid, CapacityPositive
       DEF LimiterInv, Limiter!TypeOK, Limiter!LimiterConfigured
  <1>5. /\ Token * Limiter!Cardinality(Limiter!Admitted) \in Nat
        /\ Token * Limiter!Cardinality(Limiter!Admitted') = Token * Limiter!Cardinality(Limiter!Admitted) + Token
    BY <1>3, TimesGrows
  <1>6. Token * Limiter!Cardinality(Limiter!Admitted') + tokens' <= Limiter!capacity + last_refill' + setback'
    BY <1>5, RefillPaid, CapacityPositive
       DEF LimiterInv, Limiter!AdmissionsPaid, Limiter!TypeOK, Limiter!LimiterConfigured
  <1>7. Limiter!AdmissionsPaid'
    BY <1>6 DEF Limiter!AdmissionsPaid, Limiter!capacity
  <1>8. release'[r] = limiterClock + d /\ \A q \in Limiter!Admitted : release'[q] = release[q] /\ release[q] \in Nat
    BY <1>2 DEF LimiterInv, Limiter!TypeOK, Limiter!Admitted
  <1>9. Token * Limiter!Cardinality(Limiter!Admitted') <= Limiter!capacity + release'[r] + setback'
    BY <1>1, <1>5, <1>6, <1>8, RefillPaid, CapacityPositive
       DEF LimiterInv, Limiter!TypeOK, ReadingsPast, Limiter!LimiterConfigured
  <1>10. ReleasesPay'
    <2> SUFFICES ASSUME NEW S \in SUBSET (Limiter!Admitted'), S # {}
                 PROVE  \E q \in S : Token * Limiter!Cardinality(S) <= Limiter!capacity + release'[q] + setback'
      BY DEF ReleasesPay, Limiter!capacity
    <2>1. /\ Limiter!IsFiniteSet(S)
          /\ Limiter!Cardinality(S) <= Limiter!Cardinality(Limiter!Admitted')
          /\ Limiter!Cardinality(S) \in Nat
      BY <1>3, LimiterSubset, LimiterCardinalityType
    <2>2. /\ Token * Limiter!Cardinality(S) \in Nat
          /\ Token * Limiter!Cardinality(S) <= Token * Limiter!Cardinality(Limiter!Admitted')
      BY <1>3, <2>1, TimesGrows
    <2>3. CASE r \in S
      BY <2>2, <2>3, <1>5, <1>8, <1>9, RefillPaid, CapacityPositive
         DEF LimiterInv, Limiter!TypeOK, Limiter!LimiterConfigured
    <2>4. CASE r \notin S
      <3>1. S \in SUBSET Limiter!Admitted
        BY <2>4, <1>2
      <3>2. PICK q \in S : Token * Limiter!Cardinality(S) <= Limiter!capacity + release[q] + setback
        BY <3>1 DEF LimiterInv, ReleasesPay
      <3>3. release'[q] = release[q] /\ release[q] \in Nat
        BY <1>8, <3>1
      <3> QED  BY <2>2, <3>2, <3>3, RefillPaid, CapacityPositive DEF LimiterInv, Limiter!TypeOK
    <2> QED  BY <2>3, <2>4
  <1>11. ReadingsPast' /\ ForwardedReleased'
    BY <1>1 DEF LimiterInv, Limiter!TypeOK, ReadingsPast, ForwardedReleased
  <1> QED  BY <1>3, <1>4, <1>7, <1>10, <1>11 DEF LimiterInv

LEMMA LimiterAcquire ==
  ASSUME Limiter!LimiterConfigured, LimiterInv, NEW r \in LimitedRequests, Limiter!AcquireAt(r)
  PROVE  LimiterInv'
  <1>1. Limiter!refilled(r) \in Int /\ Token \in Nat /\ limiterClock \in Nat /\ MaxDelay \in Nat
    BY RefillPaid DEF Limiter!LimiterConfigured, LimiterInv, Limiter!TypeOK
  <1>2. CASE Limiter!refilled(r) >= Token /\ tokens' = Limiter!refilled(r) - Token
             /\ release' = [release EXCEPT ![r] = limiterClock] /\ limiterPc' = [limiterPc EXCEPT ![r] = "sleep"]
    <2>1. release' = [release EXCEPT ![r] = limiterClock + 0]
      BY <1>1, <1>2
    <2>2. 0 \in Nat /\ 0 >= Token - Limiter!refilled(r)
      BY <1>1, <1>2
    <2> QED  BY <1>2, <2>1, <2>2, LimiterAdmit
  <1>3. CASE Limiter!refilled(r) < Token /\ Limiter!wait(r) <= MaxDelay /\ tokens' = Limiter!refilled(r) - Token
             /\ release' = [release EXCEPT ![r] = limiterClock + Limiter!wait(r)] /\ limiterPc' = [limiterPc EXCEPT ![r] = "sleep"]
    <2>1. Limiter!wait(r) \in Nat /\ Limiter!wait(r) >= Token - Limiter!refilled(r)
      BY <1>1, <1>3 DEF Limiter!wait
    <2> QED  BY <1>3, <2>1, LimiterAdmit
  <1>4. CASE tokens' = Limiter!refilled(r) /\ limiterPc' = [limiterPc EXCEPT ![r] = "rejected"] /\ UNCHANGED release
    BY <1>4, LimiterReject
  <1> QED  BY <1>2, <1>3, <1>4 DEF Limiter!AcquireAt

LEMMA LimiterNext ==
  ASSUME Limiter!LimiterConfigured, LimiterInv, [Limiter!Next]_(Limiter!vars)
  PROVE  LimiterInv'
  <1>1. CASE UNCHANGED Limiter!vars
    <2>1. Limiter!Admitted' = Limiter!Admitted
      BY <1>1 DEF Limiter!Admitted, Limiter!vars
    <2> QED  BY <1>1, <2>1, LimiterSame
                DEF LimiterInv, Limiter!TypeOK, ReadingsPast, ForwardedReleased, Limiter!vars
  <1> QED  BY <1>1, LimiterTick, LimiterRead, LimiterAcquire, LimiterForward
              DEF Limiter!Next, Limiter!Terminated

\* LimiterInv is an invariant of the limiter.
THEOREM LimiterInvariant ==
  Limiter!LimiterConfigured /\ Limiter!Spec => [](Limiter!LimiterConfigured /\ LimiterInv)
  <1> DEFINE I == Limiter!LimiterConfigured /\ LimiterInv
  <1>1. Limiter!LimiterConfigured /\ Limiter!Init => I
    BY LimiterInit
  <1>2. I /\ [Limiter!Next]_(Limiter!vars) => I'
    BY LimiterNext DEF Limiter!LimiterConfigured
  <1> QED  BY <1>1, <1>2, PTL DEF Limiter!Spec

\* For every rate, burst, delay and lag: what the limiter admits is paid for with
\* the burst, the time the bucket has seen and what late readings set it back by.
THEOREM LimiterPaid == Limiter!LimiterConfigured /\ Limiter!Spec => []AdmissionsPaid
  <1>1. LimiterInv => Limiter!AdmissionsPaid
    BY DEF LimiterInv
  <1>9. Limiter!AdmissionsPaid => AdmissionsPaid
    BY DEF AdmissionsPaid
  <1> QED  BY <1>9, <1>1, LimiterInvariant, PTL

\* What has been forwarded is paid for by the time it is: the delays handed out
\* spread the reservations, in whatever order the requests reached the lock.
THEOREM LimiterPaced == Limiter!LimiterConfigured /\ Limiter!Spec => []Limiter!ForwardingPaced
  <1> DEFINE I == Limiter!LimiterConfigured /\ LimiterInv
  <1>1. I => Limiter!ForwardingPaced
    <2> SUFFICES ASSUME Limiter!LimiterConfigured, LimiterInv PROVE Limiter!ForwardingPaced
      OBVIOUS
    <2>1. Limiter!Forwarded \in SUBSET Limiter!Admitted
      BY DEF Limiter!Forwarded, Limiter!Admitted
    <2>2. /\ Limiter!IsFiniteSet(Limiter!Forwarded)
          /\ Limiter!Cardinality(Limiter!Forwarded) \in Nat
      BY <2>1, LimiterSubset, LimiterCardinalityType DEF LimiterInv
    <2>3. Token * Limiter!Cardinality(Limiter!Forwarded) \in Nat
      BY <2>2, TimesGrows
    <2>4. CASE Limiter!Forwarded = {}
      <3>1. Token * Limiter!Cardinality(Limiter!Forwarded) = 0
        BY <2>4, LimiterEmptySet DEF Limiter!LimiterConfigured
      <3> QED  BY <3>1, CapacityPositive DEF Limiter!ForwardingPaced, LimiterInv, Limiter!TypeOK
    <2>5. CASE Limiter!Forwarded # {}
      <3>1. PICK r \in Limiter!Forwarded : Token * Limiter!Cardinality(Limiter!Forwarded) <= Limiter!capacity + release[r] + setback
        BY <2>1, <2>5 DEF LimiterInv, ReleasesPay
      <3>2. release[r] \in Nat /\ release[r] <= limiterClock
        BY DEF LimiterInv, ForwardedReleased, Limiter!Forwarded, Limiter!TypeOK
      <3> QED  BY <2>3, <3>1, <3>2, CapacityPositive
                  DEF Limiter!ForwardingPaced, LimiterInv, Limiter!TypeOK
    <2> QED  BY <2>4, <2>5
  <1> QED  BY <1>1, LimiterInvariant, PTL

-----------------------------------------------------------------------------
\* The pool and its pins (PinnedPool).

CleanConn(c) ==
    /\ c \in Pool!Connection
    /\ c.to.addr \notin Denied
    /\ c.tls = c.key.client

PoolInv ==
    /\ poolPc \in [PooledRequests -> {"new", "refused", "checked", "pinned", "sent", "done", "failed"}]
    /\ checked \in [PooledRequests -> SUBSET Pool!Endpoint]
    /\ \A r \in PooledRequests : \A e \in checked[r] : e.addr \notin Denied
    /\ \A h \in DOMAIN pins : pins[h] \subseteq Pool!Endpoint /\ \A e \in pins[h] : e.addr \notin Denied
    /\ DOMAIN pins \subseteq Pool!Hosts
    /\ \A c \in idle : CleanConn(c) /\ c.fresh = FALSE
    /\ conn \in [PooledRequests -> Pool!Connection \union {Pool!NoConn}]
    /\ \A r \in PooledRequests : conn[r] # Pool!NoConn => CleanConn(conn[r]) /\ conn[r].key = Pool!Key(r)
    /\ \A r \in PooledRequests : poolPc[r] = "sent" => conn[r] # Pool!NoConn
    /\ \A r \in PooledRequests : poolPc[r] = "pinned" => UpstreamOf[r].host \in DOMAIN pins

LEMMA PoolInit == Pool!Init => PoolInv
  BY DEF Pool!Init, PoolInv

LEMMA NoConnIsNone == Pool!NoConn \notin Pool!Connection
  BY DEF Pool!NoConn, Pool!Connection

LEMMA PoolCheck ==
  ASSUME Pool!AddressClasses, PoolInv, NEW r \in PooledRequests, Pool!Check(r)
  PROVE  PoolInv'
  <1> USE DEF PoolInv
  <1>1. PICK answer \in SUBSET Addrs :
          IF Pool!Allowed(answer) /\ (UpstreamOf[r].scheme = "http" => Pool!LocalOnly(answer))
            THEN /\ checked' = [checked EXCEPT
                                  ![r] = {[addr |-> a, port |-> UpstreamOf[r].port] : a \in answer}]
                 /\ poolPc' = [poolPc EXCEPT ![r] = "checked"]
            ELSE /\ poolPc' = [poolPc EXCEPT ![r] = "refused"]
                 /\ UNCHANGED checked
    BY DEF Pool!Check
  <1> DEFINE new == {[addr |-> a, port |-> UpstreamOf[r].port] : a \in answer}
  <1>2. UNCHANGED <<pins, idle, conn>> /\ poolPc[r] = "new"
    BY DEF Pool!Check
  <1>3. new \in SUBSET Pool!Endpoint
    BY DEF Pool!Endpoint
  <1>4. Pool!Allowed(answer) => \A e \in new : e.addr \notin Denied
    BY DEF Pool!Allowed
  <1> HIDE DEF new
  <1>5. CASE checked' = [checked EXCEPT ![r] = new] /\ poolPc' = [poolPc EXCEPT ![r] = "checked"] /\ Pool!Allowed(answer)
    BY <1>2, <1>3, <1>4, <1>5
       DEF CleanConn, Pool!Connection, Pool!Endpoint, Pool!Key, Pool!client_for, Pool!Authority
  <1>6. CASE poolPc' = [poolPc EXCEPT ![r] = "refused"] /\ UNCHANGED checked
    BY <1>2, <1>6
       DEF CleanConn, Pool!Connection, Pool!Endpoint, Pool!Key, Pool!client_for, Pool!Authority
  <1> QED  BY <1>1, <1>5, <1>6 DEF new

LEMMA PoolPin == ASSUME PoolInv, NEW r \in PooledRequests, Pool!Pin(r) PROVE PoolInv'
  <1> USE DEF PoolInv
  <1>1. /\ poolPc[r] = "checked" /\ poolPc' = [poolPc EXCEPT ![r] = "pinned"]
        /\ UNCHANGED <<checked, idle, conn>>
        /\ pins' = [h \in DOMAIN pins \union {UpstreamOf[r].host} |->
                  IF h = UpstreamOf[r].host THEN checked[r] ELSE pins[h]]
    BY DEF Pool!Pin
  <1>2. DOMAIN pins' = DOMAIN pins \union {UpstreamOf[r].host}
    BY <1>1
  <1>3. UpstreamOf[r].host \in Pool!Hosts
    BY DEF Pool!Hosts
  <1>4. \A h \in DOMAIN pins' : pins'[h] \subseteq Pool!Endpoint /\ \A e \in pins'[h] : e.addr \notin Denied
    BY <1>1, <1>2
  <1> QED  BY <1>1, <1>2, <1>3, <1>4

LEMMA DialClean == ASSUME NEW r \in PooledRequests, NEW e \in Pool!Endpoint
                   PROVE Pool!Dial(r, e) \in Pool!Endpoint /\ Pool!Dial(r, e).addr = e.addr
  BY DEF Pool!Dial, Pool!Endpoint

LEMMA PoolConnect == ASSUME PoolInv, NEW r \in PooledRequests, Pool!Connect(r) PROVE PoolInv'
  <1> USE DEF PoolInv
  <1>1. PICK e \in pins[UpstreamOf[r].host] :
          conn' = [conn EXCEPT ![r] =
                     [key |-> Pool!Key(r), to |-> Pool!Dial(r, e), tls |-> UpstreamOf[r].tls, fresh |-> TRUE]]
    BY DEF Pool!Connect
  <1>2. /\ poolPc[r] = "pinned"
        /\ poolPc' = [poolPc EXCEPT ![r] = "sent"]
        /\ UNCHANGED <<checked, pins, idle>>
    BY DEF Pool!Connect
  <1>3. e \in Pool!Endpoint /\ e.addr \notin Denied
    BY <1>1, <1>2
  <1> DEFINE c == [key |-> Pool!Key(r), to |-> Pool!Dial(r, e), tls |-> UpstreamOf[r].tls, fresh |-> TRUE]
  <1>4. c \in Pool!Connection
    BY <1>3, DialClean DEF Pool!Connection
  <1>5. c.to.addr \notin Denied /\ c.tls = c.key.client /\ c.key = Pool!Key(r)
    BY <1>3, DialClean DEF Pool!Key, Pool!client_for
  <1>6. CleanConn(c) /\ c # Pool!NoConn /\ c.key = Pool!Key(r)
    BY <1>4, <1>5, NoConnIsNone DEF CleanConn
  <1>7. conn' = [conn EXCEPT ![r] = c]
    BY <1>1
  <1> HIDE DEF c
  <1> QED  BY <1>2, <1>4, <1>6, <1>7

LEMMA PoolReuse == ASSUME PoolInv, NEW r \in PooledRequests, Pool!Reuse(r) PROVE PoolInv'
  <1> USE DEF PoolInv
  <1>1. PICK c \in idle : c.key = Pool!Key(r) /\ conn' = [conn EXCEPT ![r] = c] /\ idle' = idle \ {c}
    BY DEF Pool!Reuse
  <1>2. /\ poolPc[r] = "pinned"
        /\ poolPc' = [poolPc EXCEPT ![r] = "sent"]
        /\ UNCHANGED <<checked, pins>>
    BY DEF Pool!Reuse
  <1>3. CleanConn(c) /\ c # Pool!NoConn /\ c \in Pool!Connection
    BY NoConnIsNone DEF CleanConn
  <1> QED  BY <1>1, <1>2, <1>3

LEMMA PoolFinish == ASSUME PoolInv, NEW r \in PooledRequests, Pool!Finish(r) PROVE PoolInv'
  <1> USE DEF PoolInv
  <1> DEFINE c == [conn[r] EXCEPT !.fresh = FALSE]
  <1>1. /\ poolPc[r] = "sent"
        /\ poolPc' = [poolPc EXCEPT ![r] = "done"]
        /\ UNCHANGED <<checked, pins, conn>>
        /\ idle' \in {idle, idle \union {c}}
    BY DEF Pool!Finish
  <1>2. CleanConn(conn[r])
    BY <1>1
  <1>3. CleanConn(c) /\ c.fresh = FALSE
    BY <1>2 DEF CleanConn, Pool!Connection
  <1> HIDE DEF c
  <1> QED  BY <1>1, <1>3

LEMMA PoolNext == ASSUME Pool!AddressClasses, PoolInv, [Pool!Next]_(Pool!vars) PROVE PoolInv'
  <1>1. CASE UNCHANGED Pool!vars
    BY <1>1
       DEF PoolInv, Pool!vars, CleanConn, Pool!Connection, Pool!Endpoint, Pool!Key,
           Pool!client_for, Pool!Authority
  <1>2. ASSUME NEW r \in PooledRequests, Pool!CannotConnect(r) PROVE PoolInv'
    BY <1>2 DEF Pool!CannotConnect, PoolInv
  <1>3. CASE Pool!IdleExpires
    BY <1>3 DEF Pool!IdleExpires, PoolInv
  <1> QED
    BY <1>1, <1>2, <1>3, PoolCheck, PoolPin, PoolConnect, PoolReuse, PoolFinish
       DEF Pool!Next, Pool!Done

\* PoolInv is an invariant of the pool.
THEOREM PoolInvariant == Pool!AddressClasses /\ Pool!Spec => []PoolInv
  <1> DEFINE I == Pool!AddressClasses /\ PoolInv
  <1>1. Pool!AddressClasses /\ Pool!Init => I
    BY PoolInit
  <1>2. I /\ [Pool!Next]_(Pool!vars) => I'
    BY PoolNext DEF Pool!AddressClasses
  <1>3. I => PoolInv
    OBVIOUS
  <1> HIDE DEF I
  <1> QED  BY <1>1, <1>2, <1>3, PTL DEF Pool!Spec

\* No request runs on a connection to a denied address, whoever pinned the host
\* last and whoever opened the connection.
THEOREM DeniedNeverReached == Pool!AddressClasses /\ Pool!Spec => []NeverToDenied
  <1>1. PoolInv => Pool!NeverToDenied
    BY DEF PoolInv, Pool!NeverToDenied, CleanConn
  <1>9. Pool!NeverToDenied => NeverToDenied
    BY DEF NeverToDenied
  <1> QED  BY <1>9, <1>1, PoolInvariant, PTL

\* A connection verified under one TLS configuration carries no request of another:
\* the key of the pool contains the client of the configuration.
THEOREM ConnectionsKeepTheirRoots == Pool!AddressClasses /\ Pool!Spec => []Pool!TlsIsolated
  <1>1. PoolInv => Pool!TlsIsolated
    <2> SUFFICES ASSUME PoolInv, NEW r \in PooledRequests, conn[r] # Pool!NoConn
                 PROVE  conn[r].tls = UpstreamOf[r].tls
      BY DEF Pool!TlsIsolated
    <2>1. conn[r].tls = conn[r].key.client /\ conn[r].key = Pool!Key(r)
      BY DEF PoolInv, CleanConn
    <2>2. Pool!Key(r).client = UpstreamOf[r].tls
      BY DEF Pool!Key, Pool!client_for
    <2> QED  BY <2>1, <2>2
  <1> QED  BY <1>1, PoolInvariant, PTL

-----------------------------------------------------------------------------
\* The intercepted handshake (InterceptHandshake).

\* The write lock is held by the connection that probes, and by no other.
LockHeldToProbe ==
    /\ \A c \in TlsConns : tlsPc[c] = "probe" <=> prober = {c}
    /\ prober = {} \/ \E c \in TlsConns : prober = {c}

\* A host whose answer is not known is being probed or was never probed.
ProbesCounted ==
    \A h \in TlsHosts :
        /\ probes[h] <= 1
        /\ probes[h] = 1 /\ h2[h] = "unknown" => \E c \in TlsConns : tlsPc[c] = "probe" /\ target[c] = h

\* What is known of a host, it said.
YesIsSupported == \A h \in TlsHosts : h2[h] = "yes" => h \in Supports

TlsInv ==
    /\ Tls!TypeOK
    /\ LockHeldToProbe
    /\ ProbesCounted
    /\ YesIsSupported
    /\ Tls!OfferedH2IsSupported

LEMMA TlsInit == Tls!HandshakeConfigured /\ Tls!Init => TlsInv
  <1> SUFFICES ASSUME Tls!HandshakeConfigured, Tls!Init PROVE TlsInv
    OBVIOUS
  <1> USE DEF Tls!Init, Tls!HandshakeConfigured
  <1>1. Tls!TypeOK
    BY DEF Tls!TypeOK, Tls!Done
  <1>2. LockHeldToProbe
    BY DEF LockHeldToProbe
  <1>3. ProbesCounted /\ YesIsSupported /\ Tls!OfferedH2IsSupported
    BY DEF ProbesCounted, YesIsSupported, Tls!OfferedH2IsSupported
  <1> QED  BY <1>1, <1>2, <1>3 DEF TlsInv

LEMMA TlsTick == Tls!HandshakeConfigured /\ TlsInv /\ Tls!Tick => TlsInv'
  BY DEF Tls!Tick, TlsInv, Tls!TypeOK, LockHeldToProbe, ProbesCounted, YesIsSupported,
         Tls!OfferedH2IsSupported, Tls!HandshakeConfigured

LEMMA TlsSkip == ASSUME TlsInv, NEW c \in TlsConns, Tls!SkipProbe(c) PROVE TlsInv'
  BY DEF Tls!SkipProbe, Tls!Offer, TlsInv, Tls!TypeOK, LockHeldToProbe, ProbesCounted,
         YesIsSupported,
         Tls!OfferedH2IsSupported

LEMMA TlsLookUp == ASSUME TlsInv, NEW c \in TlsConns, Tls!LookUp(c) PROVE TlsInv'
  BY DEF Tls!LookUp, Tls!Offer, TlsInv, Tls!TypeOK, LockHeldToProbe, ProbesCounted,
         YesIsSupported,
         Tls!OfferedH2IsSupported

LEMMA TlsLock == ASSUME TlsInv, NEW c \in TlsConns, Tls!LockForProbe(c) PROVE TlsInv'
  <1> USE DEF TlsInv
  <1>1. CASE h2[target[c]] # "unknown"
    BY <1>1 DEF Tls!LockForProbe, Tls!Offer, Tls!TypeOK, LockHeldToProbe, ProbesCounted,
                YesIsSupported, Tls!OfferedH2IsSupported
  <1>2. CASE h2[target[c]] = "unknown"
    <2>1. /\ prober' = {c} /\ probes' = [probes EXCEPT ![target[c]] = @ + 1]
          /\ tlsPc' = [tlsPc EXCEPT ![c] = "probe"] /\ prober = {} /\ tlsPc[c] = "write"
          /\ UNCHANGED <<offered, tlsClock, h2, leaf, target, presented>>
      BY <1>2 DEF Tls!LockForProbe, Tls!BeginProbe
    <2>2. \A d \in TlsConns : tlsPc[d] # "probe"
      BY <2>1 DEF LockHeldToProbe
    <2>3. probes[target[c]] = 0 /\ target[c] \in TlsHosts
      BY <1>2, <2>2 DEF ProbesCounted, Tls!TypeOK
    <2>4. Tls!TypeOK'
      BY <2>1 DEF Tls!TypeOK
    <2>5. LockHeldToProbe'
      BY <2>1, <2>2 DEF LockHeldToProbe, Tls!TypeOK
    <2>6. ProbesCounted'
      BY <2>1, <2>2, <2>3 DEF ProbesCounted, Tls!TypeOK
    <2>7. YesIsSupported' /\ Tls!OfferedH2IsSupported'
      BY <2>1 DEF YesIsSupported, Tls!OfferedH2IsSupported
    <2> QED  BY <2>4, <2>5, <2>6, <2>7
  <1> QED  BY <1>1, <1>2

LEMMA TlsProbeEnds == ASSUME TlsInv, NEW c \in TlsConns, Tls!ProbeEnds(c) PROVE TlsInv'
  <1> USE DEF TlsInv
  <1>1. PICK yes \in {FALSE, target[c] \in Supports} :
          /\ h2' = [h2 EXCEPT ![target[c]] = IF yes THEN "yes" ELSE "no"]
          /\ Tls!Offer(c, yes)
    BY DEF Tls!ProbeEnds
  <1>2. /\ tlsPc[c] = "probe" /\ prober' = {} /\ tlsPc' = [tlsPc EXCEPT ![c] = "handshake"]
        /\ UNCHANGED <<tlsClock, leaf, target, presented, probes>>
        /\ offered' = IF yes THEN offered \cup {c} ELSE offered
    BY <1>1 DEF Tls!ProbeEnds, Tls!Offer
  <1>3. \A d \in TlsConns : tlsPc[d] = "probe" => d = c
    BY <1>2 DEF LockHeldToProbe
  <1>4. target[c] \in TlsHosts /\ (yes => target[c] \in Supports)
    BY <1>1 DEF Tls!TypeOK
  <1>5. Tls!TypeOK'
    BY <1>1, <1>2 DEF Tls!TypeOK
  <1>6. LockHeldToProbe'
    BY <1>2, <1>3 DEF LockHeldToProbe, Tls!TypeOK
  <1>7. ProbesCounted'
    BY <1>1, <1>2, <1>3, <1>4 DEF ProbesCounted, Tls!TypeOK
  <1>8. YesIsSupported' /\ Tls!OfferedH2IsSupported'
    BY <1>1, <1>2, <1>4 DEF YesIsSupported, Tls!OfferedH2IsSupported, Tls!TypeOK
  <1> QED  BY <1>5, <1>6, <1>7, <1>8

LEMMA TlsResolve ==
  ASSUME Tls!HandshakeConfigured, TlsInv, NEW c \in TlsConns, NEW name \in TlsHosts \cup {NoName},
         Tls!Resolve(c, name)
  PROVE  TlsInv'
  <1> USE DEF TlsInv
  <1>1. /\ tlsPc[c] = "handshake" /\ UNCHANGED <<tlsClock, h2, prober, target, offered, probes>>
        /\ \E end \in {"accepted", "failed"} : tlsPc' = [tlsPc EXCEPT ![c] = end]
    BY DEF Tls!Resolve
  <1>2. Tls!notAfter \in 0 .. CaNotAfter
    BY DEF Tls!notAfter, Tls!HandshakeConfigured, Tls!TypeOK
  <1>3. leaf' \in [TlsHosts -> 0 .. CaNotAfter]
    BY <1>2 DEF Tls!Resolve, Tls!TypeOK
  <1>4. presented' \in [TlsConns -> {"none", "valid", "expired"}]
    BY DEF Tls!Resolve, Tls!TypeOK
  <1>5. Tls!TypeOK'
    BY <1>1, <1>3, <1>4 DEF Tls!TypeOK, Tls!Done
  <1>6. LockHeldToProbe' /\ ProbesCounted' /\ YesIsSupported' /\ Tls!OfferedH2IsSupported'
    BY <1>1
       DEF LockHeldToProbe, ProbesCounted, YesIsSupported, Tls!OfferedH2IsSupported, Tls!TypeOK
  <1> QED  BY <1>5, <1>6

LEMMA TlsNext == ASSUME Tls!HandshakeConfigured, TlsInv, [Tls!Next]_(Tls!vars) PROVE TlsInv'
  <1>1. CASE UNCHANGED Tls!vars
    BY <1>1 DEF TlsInv, Tls!vars, Tls!TypeOK, LockHeldToProbe, ProbesCounted, YesIsSupported,
                Tls!OfferedH2IsSupported
  <1> QED
    BY <1>1, TlsTick, TlsSkip, TlsLookUp, TlsLock, TlsProbeEnds, TlsResolve
       DEF Tls!Next, Tls!Terminated

\* TlsInv is an invariant of the intercepted handshakes.
THEOREM TlsInvariant == Tls!HandshakeConfigured /\ Tls!Spec => []TlsInv
  <1> DEFINE I == Tls!HandshakeConfigured /\ TlsInv
  <1>1. Tls!HandshakeConfigured /\ Tls!Init => I
    BY TlsInit
  <1>2. I /\ [Tls!Next]_(Tls!vars) => I'
    BY TlsNext DEF Tls!HandshakeConfigured
  <1>3. I => TlsInv
    OBVIOUS
  <1> HIDE DEF I
  <1> QED  BY <1>1, <1>2, <1>3, PTL DEF Tls!Spec

\* However many connections ask for a host, it is probed once: the second look is
\* taken under the lock that is held across the probe.
THEOREM HostsProbedOnce == Tls!HandshakeConfigured /\ Tls!Spec => []OneProbePerHost
  <1>1. TlsInv => Tls!OneProbePerHost
    BY DEF TlsInv, ProbesCounted, Tls!OneProbePerHost
  <1>9. Tls!OneProbePerHost => OneProbePerHost
    BY DEF OneProbePerHost
  <1> QED  BY <1>9, <1>1, TlsInvariant, PTL

\* h2 is offered to the agent only for an upstream that negotiated it.
THEOREM H2OfferedWhereSpoken ==
  Tls!HandshakeConfigured /\ Tls!Spec => []Tls!OfferedH2IsSupported
  <1>1. TlsInv => Tls!OfferedH2IsSupported
    BY DEF TlsInv
  <1> QED  BY <1>1, TlsInvariant, PTL

-----------------------------------------------------------------------------
\* The token caches (TokenCache).

\* One request at most fetches or exchanges, the holder of the write lock.
WriterExchanges ==
    \A r \in TokenRequests : cachePc[r] \in {"svid", "exchange"} <=> writer = {r}

\* An exchange under way is younger than its timeout, and its token younger still.
ExchangeInTime ==
    \A r \in TokenRequests :
        cachePc[r] = "exchange" =>
            /\ began <= cacheClock /\ cacheClock - began <= EXCHANGE_TIMEOUT
            /\ minted = -1 \/ (began <= minted /\ minted <= cacheClock)

\* A declared lifetime: the endpoint gives up on the token no more than an
\* exchange before the cache.
LifetimesAgree == declared => expires_at - EXCHANGE_TIMEOUT <= valid_until

CacheInv ==
    /\ cacheClock \in Nat /\ began \in Nat /\ minted \in Int
    /\ expires_at \in Int /\ valid_until \in Int /\ declared \in BOOLEAN
    /\ cachePc \in [TokenRequests -> {"idle", "write", "svid", "exchange", "body"} \cup Cache!Done]
    /\ outcome \in [TokenRequests -> {"none", "cached", "fresh", "stale", "error"}]
    /\ token_until \in [TokenRequests -> Int]
    /\ writer = {} \/ \E r \in TokenRequests : writer = {r}
    /\ WriterExchanges
    /\ ExchangeInTime
    /\ LifetimesAgree

LEMMA CacheBegins == ASSUME Cache!CacheConfigured, Cache!Init PROVE CacheInv
  <1>1. PICK life \in Lifetimes, age \in 0 .. EXCHANGE_TIMEOUT :
          expires_at = life /\ valid_until = life - age
    BY DEF Cache!Init
  <1>2. life \in Nat
    BY DEF Cache!CacheConfigured
  <1>3. expires_at \in Int /\ valid_until \in Int /\ LifetimesAgree
    BY <1>1, <1>2 DEF LifetimesAgree, Cache!CacheConfigured
  <1> QED  BY <1>3 DEF Cache!Init, CacheInv, WriterExchanges, ExchangeInTime, Cache!Done

LEMMA CacheTick == ASSUME Cache!CacheConfigured, CacheInv, Cache!Tick PROVE CacheInv'
  BY DEF Cache!Tick, Cache!cache, Cache!exchange, Cache!carried, CacheInv, WriterExchanges,
         ExchangeInTime, LifetimesAgree,
         Cache!CacheConfigured

LEMMA CacheFast == ASSUME CacheInv, NEW r \in TokenRequests, Cache!FastPath(r) PROVE CacheInv'
  BY DEF Cache!FastPath, Cache!TakeCached, Cache!cache, Cache!exchange, Cache!carried,
         CacheInv, WriterExchanges, ExchangeInTime,
         LifetimesAgree

LEMMA CacheSlow ==
  ASSUME Cache!CacheConfigured, CacheInv, NEW r \in TokenRequests, Cache!SlowPath(r)
  PROVE  CacheInv'
  <1>1. CASE Cache!cacheFresh
    BY <1>1
       DEF Cache!SlowPath, Cache!TakeCached, Cache!cache, Cache!exchange, Cache!carried,
           CacheInv, WriterExchanges,
                ExchangeInTime, LifetimesAgree
  <1>2. CASE ~Cache!cacheFresh
    <2>1. /\ writer = {} /\ writer' = {r} /\ cachePc[r] = "write"
          /\ cachePc' = [cachePc EXCEPT ![r] = IF WithSvid THEN "svid" ELSE "exchange"]
          /\ began' = cacheClock /\ minted' = -1
          /\ UNCHANGED <<outcome, token_until, token_declared, cacheClock, expires_at, valid_until, declared>>
      BY <1>2 DEF Cache!SlowPath, Cache!StartExchange, Cache!carried, Cache!cache
    <2>2. WriterExchanges' /\ ExchangeInTime'
      BY <2>1 DEF CacheInv, WriterExchanges, ExchangeInTime, Cache!CacheConfigured
    <2> QED  BY <2>1, <2>2 DEF CacheInv, LifetimesAgree
  <1> QED  BY <1>1, <1>2

LEMMA CacheSvid ==
  ASSUME Cache!CacheConfigured, CacheInv, NEW r \in TokenRequests, Cache!FetchSvid(r)
  PROVE  CacheInv'
  <1>1. /\ cachePc[r] = "svid" /\ writer = {r} /\ \A q \in TokenRequests \ {r} : cachePc[q] \notin {"svid", "exchange"}
        /\ UNCHANGED <<cacheClock, expires_at, valid_until, declared, token_until>>
    BY DEF Cache!FetchSvid, CacheInv, WriterExchanges, Cache!cache, Cache!carried
  <1>2. CASE cachePc' = [cachePc EXCEPT ![r] = "exchange"] /\ Cache!StartExchange /\ UNCHANGED <<writer, Cache!carried>>
    BY <1>1, <1>2
       DEF Cache!StartExchange, Cache!carried, CacheInv, WriterExchanges, ExchangeInTime,
           LifetimesAgree,
                      Cache!CacheConfigured
  <1>3. CASE cachePc' = [cachePc EXCEPT ![r] = "failed"] /\ outcome' = [outcome EXCEPT ![r] = "error"]
             /\ Cache!EndExchange
    BY <1>1, <1>3
       DEF Cache!EndExchange, CacheInv, WriterExchanges, ExchangeInTime, LifetimesAgree,
           Cache!Done
  <1> QED  BY <1>2, <1>3 DEF Cache!FetchSvid

LEMMA CacheMint == ASSUME CacheInv, NEW r \in TokenRequests, Cache!Mint(r) PROVE CacheInv'
  <1>1. \A q \in TokenRequests \ {r} : cachePc[q] # "exchange"
    BY DEF Cache!Mint, CacheInv, WriterExchanges
  <1>2. began <= cacheClock
    BY DEF Cache!Mint, CacheInv, ExchangeInTime
  <1> QED  BY <1>1, <1>2
              DEF Cache!Mint, Cache!cache, Cache!carried, CacheInv, WriterExchanges,
                  ExchangeInTime, LifetimesAgree

LEMMA CacheOk ==
  ASSUME Cache!CacheConfigured, CacheInv, NEW r \in TokenRequests, NEW life \in Lifetimes, NEW d \in BOOLEAN,
         Cache!ExchangeOk(r, life, d)
  PROVE  CacheInv'
  <1>1. life \in Nat /\ DEFAULT_EXPIRES_IN \in Nat /\ EXCHANGE_TIMEOUT \in Nat
    BY DEF Cache!CacheConfigured
  <1>2. /\ cachePc[r] = "exchange" /\ writer = {r}
        /\ \A q \in TokenRequests \ {r} : cachePc[q] \notin {"svid", "exchange"}
        /\ cacheClock - began <= EXCHANGE_TIMEOUT /\ began <= minted
    BY DEF Cache!ExchangeOk, CacheInv, WriterExchanges, ExchangeInTime
  <1>3. expires_at' \in Int /\ valid_until' \in Int /\ minted + life \in Int /\ LifetimesAgree'
    BY <1>1, <1>2 DEF Cache!ExchangeOk, CacheInv, LifetimesAgree
  <1>4. /\ /\ cachePc' = [cachePc EXCEPT ![r] = "body"]
        /\ writer' = {}
        /\ began' = 0
        /\ minted' = -1
        /\ outcome' = [outcome EXCEPT ![r] = "fresh"] /\ declared' = d /\ UNCHANGED cacheClock
        /\ token_until' = [token_until EXCEPT ![r] = minted + life]
    BY DEF Cache!ExchangeOk, Cache!EndExchange
  <1> QED  BY <1>2, <1>3, <1>4 DEF CacheInv, WriterExchanges, ExchangeInTime

LEMMA CacheErr == ASSUME CacheInv, NEW r \in TokenRequests, Cache!ExchangeErr(r) PROVE CacheInv'
  <1>1. \A q \in TokenRequests \ {r} : cachePc[q] \notin {"svid", "exchange"}
    BY DEF Cache!ExchangeErr, CacheInv, WriterExchanges
  <1> QED  BY <1>1
              DEF Cache!ExchangeErr, Cache!TakeCached, Cache!EndExchange, Cache!cache,
                  CacheInv, WriterExchanges,
                       ExchangeInTime, LifetimesAgree

LEMMA CacheSend == ASSUME CacheInv, NEW r \in TokenRequests, Cache!Send(r) PROVE CacheInv'
  <1>1. PICK end \in Cache!Done : cachePc' = [cachePc EXCEPT ![r] = end]
    BY DEF Cache!Send, Cache!Done
  <1> QED  BY <1>1 DEF Cache!Send, Cache!cache, Cache!exchange, CacheInv, WriterExchanges,
                       ExchangeInTime, LifetimesAgree, Cache!Done

LEMMA CacheNext ==
  ASSUME Cache!CacheConfigured, CacheInv, [Cache!Next]_(Cache!vars)
  PROVE  CacheInv'
  <1>1. CASE UNCHANGED Cache!vars
    BY <1>1
       DEF Cache!vars, Cache!cache, Cache!exchange, Cache!carried, CacheInv, WriterExchanges,
           ExchangeInTime, LifetimesAgree
  <1> QED
    BY <1>1, CacheTick, CacheFast, CacheSlow, CacheSvid, CacheMint, CacheOk, CacheErr, CacheSend
       DEF Cache!Next, Cache!Terminated

\* CacheInv is an invariant of the token cache.
THEOREM CacheInvariant ==
  Cache!CacheConfigured /\ Cache!Spec => [](Cache!CacheConfigured /\ CacheInv)
  <1> DEFINE I == Cache!CacheConfigured /\ CacheInv
  <1>1. Cache!CacheConfigured /\ Cache!Init => I
    BY CacheBegins
  <1>2. I /\ [Cache!Next]_(Cache!vars) => I'
    BY CacheNext DEF Cache!CacheConfigured
  <1> QED  BY <1>1, <1>2, PTL DEF Cache!Spec

BufferCoversExchange == EXCHANGE_TIMEOUT <= EXPIRY_BUFFER

LEMMA ServedIsHonoured ==
  ASSUME Cache!CacheConfigured, BufferCoversExchange, CacheInv, Cache!Next, NEW r \in TokenRequests,
         outcome'[r] = "cached", outcome[r] # "cached", declared
  PROVE  cacheClock < token_until'[r]
  <1>1. Cache!cacheFresh /\ token_until'[r] = valid_until
    <2>1. ASSUME NEW q \in TokenRequests, Cache!TakeCached(q, "cached") PROVE token_until'[r] = valid_until
      BY <2>1 DEF Cache!TakeCached, CacheInv
    <2>2. ASSUME NEW q \in TokenRequests, outcome' = [outcome EXCEPT ![q] = "fresh"] PROVE FALSE
      BY <2>2 DEF CacheInv
    <2>3. ASSUME NEW q \in TokenRequests, outcome' = [outcome EXCEPT ![q] = "error"] PROVE FALSE
      BY <2>3 DEF CacheInv
    <2>4. ASSUME NEW q \in TokenRequests, outcome' = [outcome EXCEPT ![q] = "stale"] PROVE FALSE
      BY <2>4 DEF CacheInv
    <2>5. outcome' # outcome
      OBVIOUS
    <2> QED
      BY <2>1, <2>2, <2>3, <2>4, <2>5
         DEF Cache!Next, Cache!Tick, Cache!FastPath, Cache!SlowPath, Cache!FetchSvid,
         Cache!Mint, Cache!ExchangeOk, Cache!ExchangeErr, Cache!Send, Cache!Terminated,
             Cache!carried, Cache!vars, Cache!TakeCached
  <1> QED  BY <1>1
              DEF Cache!cacheFresh, CacheInv, LifetimesAgree, Cache!CacheConfigured,
                  BufferCoversExchange

\* When the buffer is no shorter than an exchange may take, a token served from the
\* cache is one its endpoint still honours.
THEOREM CachedTokensHonoured ==
  Cache!CacheConfigured /\ BufferCoversExchange /\ Cache!Spec => CachedTokenHonoured
  <1> DEFINE I == Cache!CacheConfigured /\ BufferCoversExchange /\ CacheInv
             A == \A r \in TokenRequests :
                     outcome'[r] = "cached" /\ outcome[r] # "cached" /\ declared
                       => cacheClock < token_until'[r]
  <1>1. Cache!CacheConfigured /\ BufferCoversExchange /\ Cache!Init => I
    BY CacheBegins
  <1>2. I /\ [Cache!Next]_(Cache!vars) => I'
    BY CacheNext DEF Cache!CacheConfigured, BufferCoversExchange
  <1>3. I /\ [Cache!Next]_(Cache!vars) => [A]_(Cache!vars)
    BY ServedIsHonoured
  <1>4. Cache!CacheConfigured /\ BufferCoversExchange /\ Cache!Spec => [][A]_(Cache!vars)
    <2> HIDE DEF A, I
    <2> QED  BY <1>1, <1>2, <1>3, PTL DEF Cache!Spec
  <1> QED  BY <1>4 DEF CachedTokenHonoured, Cache!CachedTokenHonoured

LEMMA ShortestLife ==
  ASSUME Cache!CacheConfigured
  PROVE  /\ Cache!shortest \in Nat /\ Cache!shortest <= DEFAULT_EXPIRES_IN
         /\ \A l \in Lifetimes : Cache!shortest <= l
  <1> DEFINE L == Lifetimes \cup {DEFAULT_EXPIRES_IN}
  <1>1. L \subseteq Nat /\ L # {}
    BY DEF Cache!CacheConfigured
  <1>2. \E x \in L : \A y \in L : ~ (<<y, x>> \in OpToRel(<, Nat))
    BY <1>1, NatLessThanWellFounded, WFMin, Zenon
  <1>3. \E x \in L : \A y \in L : x <= y
    <2>1. PICK x \in L : \A y \in L : ~ (<<y, x>> \in OpToRel(<, Nat))
      BY <1>2
    <2>2. \A y \in L : ~ (y < x)
      BY <1>1, <2>1 DEF OpToRel
    <2> QED  BY <1>1, <2>2
  <1>4. Cache!shortest \in L /\ \A y \in L : Cache!shortest <= y
    BY <1>3 DEF Cache!shortest
  <1> QED  BY <1>1, <1>4

\* Who exchanges found the cache no longer fresh; the refreshes so far have used
\* up the time before the cached token was had.
RefreshesPaced ==
    /\ refreshed \in Nat
    /\ Cache!RefreshesBounded
    /\ refreshed * (Cache!shortest - EXPIRY_BUFFER) <= expires_at - Cache!shortest
    /\ \A r \in TokenRequests :
          cachePc[r] \in {"svid", "exchange"} => expires_at <= cacheClock + EXPIRY_BUFFER

LEMMA PacedBegins == ASSUME Cache!CacheConfigured, Cache!Init PROVE RefreshesPaced
  <1>1. PICK life \in Lifetimes : expires_at = life
    BY DEF Cache!Init
  <1>2. Cache!shortest <= life /\ life \in Nat /\ Cache!shortest \in Nat
    BY ShortestLife DEF Cache!CacheConfigured
  <1>3. refreshed = 0 /\ cacheClock = 0 /\ 0 * (Cache!shortest - EXPIRY_BUFFER) = 0
    BY <1>2 DEF Cache!Init, Cache!CacheConfigured
  <1> QED  BY <1>1, <1>2, <1>3 DEF Cache!Init, RefreshesPaced, Cache!RefreshesBounded

LEMMA PacedNext ==
  ASSUME Cache!CacheConfigured, CacheInv, RefreshesPaced, [Cache!Next]_(Cache!vars)
  PROVE  RefreshesPaced'
  <1> DEFINE D == Cache!shortest - EXPIRY_BUFFER
  <1>1. /\ Cache!shortest \in Nat
        /\ EXPIRY_BUFFER \in Nat
        /\ D \in Int
        /\ DEFAULT_EXPIRES_IN \in Nat
    BY ShortestLife DEF Cache!CacheConfigured
  <1>2. refreshed \in Nat /\ refreshed * D \in Int /\ refreshed * D <= cacheClock
        /\ refreshed * D <= expires_at - Cache!shortest /\ cacheClock \in Nat /\ expires_at \in Int
    BY <1>1 DEF RefreshesPaced, Cache!RefreshesBounded, CacheInv
  <1>3. ASSUME UNCHANGED <<refreshed, expires_at>>, cacheClock' \in {cacheClock, cacheClock + 1},
               \A r \in TokenRequests : cachePc'[r] \in {"svid", "exchange"} =>
                                      cachePc[r] \in {"svid", "exchange"} \/ ~Cache!cacheFresh
        PROVE  RefreshesPaced'
    <2> HIDE DEF D
    <2>1. cacheClock' \in Nat /\ cacheClock <= cacheClock'
      BY <1>2, <1>3
    <2>2. refreshed' * D <= cacheClock' /\ refreshed' * D <= expires_at' - Cache!shortest
      BY <1>2, <1>3, <2>1
    <2>3. \A r \in TokenRequests : cachePc'[r] \in {"svid", "exchange"} => expires_at' <= cacheClock' + EXPIRY_BUFFER
      BY <1>1, <1>2, <1>3, <2>1 DEF RefreshesPaced, Cache!cacheFresh
    <2> QED  BY <1>2, <1>3, <2>2, <2>3
                DEF D, RefreshesPaced, Cache!RefreshesBounded, Cache!shortest
  <1>4. CASE Cache!Tick \/ UNCHANGED Cache!vars \/ Cache!Terminated
    BY <1>3, <1>4 DEF Cache!Tick, Cache!Terminated, Cache!vars, Cache!cache
  <1>5. ASSUME NEW r \in TokenRequests, Cache!FastPath(r) \/ Cache!SlowPath(r) \/ Cache!FetchSvid(r) \/ Cache!Mint(r)
                                     \/ Cache!ExchangeErr(r) \/ Cache!Send(r)
        PROVE  RefreshesPaced'
    <2>1. UNCHANGED <<refreshed, expires_at, cacheClock>>
      BY <1>5
         DEF Cache!FastPath, Cache!SlowPath, Cache!FetchSvid, Cache!Mint, Cache!ExchangeErr,
             Cache!Send, Cache!cache
    <2>2. \A q \in TokenRequests : cachePc'[q] \in {"svid", "exchange"} =>
                                 cachePc[q] \in {"svid", "exchange"} \/ ~Cache!cacheFresh
      BY <1>5
         DEF Cache!FastPath, Cache!SlowPath, Cache!FetchSvid, Cache!Mint, Cache!ExchangeErr,
             Cache!Send, Cache!TakeCached, CacheInv, Cache!Done
    <2> QED  BY <1>3, <2>1, <2>2
  <1>6. ASSUME NEW r \in TokenRequests, NEW life \in Lifetimes, NEW d \in BOOLEAN, Cache!ExchangeOk(r, life, d)
        PROVE  RefreshesPaced'
    <2>1. cachePc[r] = "exchange" /\ \A q \in TokenRequests \ {r} : cachePc[q] \notin {"svid", "exchange"}
      BY <1>6 DEF Cache!ExchangeOk, CacheInv, WriterExchanges
    <2>2. \A q \in TokenRequests : cachePc'[q] \notin {"svid", "exchange"}
      BY <1>6, <2>1 DEF Cache!ExchangeOk, CacheInv
    <2>3. expires_at <= cacheClock + EXPIRY_BUFFER
      BY <2>1 DEF RefreshesPaced
    <2>4. life \in Nat /\ Cache!shortest <= life /\ Cache!shortest <= DEFAULT_EXPIRES_IN
      BY ShortestLife DEF Cache!CacheConfigured
    <2>5. refreshed' = refreshed + 1 /\ cacheClock' = cacheClock /\ expires_at' \in Int
          /\ expires_at' - Cache!shortest >= cacheClock
      BY <1>1, <1>2, <1>6, <2>4 DEF Cache!ExchangeOk
    <2>6. (refreshed + 1) * D = refreshed * D + D
      BY <1>1, <1>2
    <2>7. D = Cache!shortest - EXPIRY_BUFFER
      OBVIOUS
    <2> HIDE DEF D
    <2> DEFINE X == refreshed * D
               Y == refreshed' * D
    <2>8. Y = X + D /\ X \in Int /\ X <= expires_at - Cache!shortest
      BY <1>2, <2>5, <2>6
    <2>9. Y <= cacheClock' /\ Y <= expires_at' - Cache!shortest
      <3> HIDE DEF X, Y
      <3>1. X + D <= cacheClock
        BY <1>1, <1>2, <2>3, <2>7, <2>8
      <3>2. cacheClock \in Int /\ D \in Int /\ X \in Int /\ Cache!shortest \in Int
        BY <1>1, <1>2, <2>8
      <3>3. Y <= cacheClock /\ Y \in Int
        BY <2>8, <3>1, <3>2
      <3>4. /\ cacheClock' = cacheClock
            /\ expires_at' \in Int
            /\ cacheClock <= expires_at' - Cache!shortest
        BY <2>5, <3>2
      <3>5. \A y, c, e \in Int : y <= c /\ c <= e => y <= e
        OBVIOUS
      <3>6. expires_at' - Cache!shortest \in Int
        BY <3>2, <3>4
      <3>7. Y <= expires_at' - Cache!shortest
        BY <3>2, <3>3, <3>4, <3>5, <3>6, Zenon
      <3> QED  BY <3>3, <3>4, <3>7, Zenon
    <2> QED  BY <1>2, <2>2, <2>5, <2>9
                DEF D, RefreshesPaced, Cache!RefreshesBounded, Cache!shortest
  <1> QED  BY <1>4, <1>5, <1>6 DEF Cache!Next

\* There is no more than one successful exchange per lifetime less the buffer,
\* however many requests meet an expiring token together.
THEOREM RefreshesFew == Cache!CacheConfigured /\ Cache!Spec => []Cache!RefreshesBounded
  <1> DEFINE I == Cache!CacheConfigured /\ CacheInv /\ RefreshesPaced
  <1>1. Cache!CacheConfigured /\ Cache!Init => I
    BY CacheBegins, PacedBegins
  <1>2. I /\ [Cache!Next]_(Cache!vars) => I'
    BY CacheNext, PacedNext DEF Cache!CacheConfigured
  <1>3. I => Cache!RefreshesBounded
    BY DEF RefreshesPaced
  <1> HIDE DEF I
  <1> QED  BY <1>1, <1>2, <1>3, PTL DEF Cache!Spec
=============================================================================
