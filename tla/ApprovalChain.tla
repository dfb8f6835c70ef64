---------------------------- MODULE ApprovalChain ----------------------------
(***************************************************************************)
(* Approval backends and the chain that composes them: approval_runtime.rs, *)
(* terminal_approval.rs and the default deadline wrapper of                 *)
(* supervisor/mod.rs.                                                       *)
(*                                                                         *)
(* Several threads ask at once.  A chain asks its backends in order: the    *)
(* terminal, of which there is one, an unsigned webhook (one POST) and the  *)
(* signed platform webhook (submit, then poll).  Time is what is left of    *)
(* each budget; Tick takes one unit from all of them.  People and servers   *)
(* may answer late or never.                                                *)
(***************************************************************************)
EXTENDS Integers, Sequences, FiniteSets

CONSTANTS
    Callers,     \* threads asking for an approval
    Chains,      \* the chains that may be configured: backends in order
    Modes,       \* subset of {"all", "any", "direct"}; "direct" asks chain[1] only
    Deadlines,   \* caller deadlines, in ticks from the start
    NoDeadline,  \* request_approval: no caller deadline
    Timeout,     \* timeout_secs of each kind of backend
    MinHop,      \* the least HTTP timeout of a platform request
    SessionScoped, \* callers whose request offers session-scoped answers
                   \* (network, unix socket)
    None

Kinds == {"terminal", "unsigned", "platform"}

ChainConfigured ==
    /\ Chains \subseteq Seq(Kinds) \ {<<>>}
    /\ Modes \subseteq {"all", "any", "direct"}
    /\ Deadlines \subseteq Nat
    /\ NoDeadline \in Nat /\ \A d \in Deadlines : d < NoDeadline
    /\ Timeout \in [Kinds -> Nat \ {0}]
    /\ MinHop \in Nat
    /\ SessionScoped \subseteq Callers
    /\ None \notin Callers

VARIABLES
    mode,     \* ApprovalChainMode
    chain,    \* the configured backends
    pc,
    i,        \* the backend being asked
    session,  \* grant_for_session of request_all
    deadline, \* what is left of the caller's deadline
    own,      \* what is left of the asked backend's timeout
    hop,      \* what is left of the HTTP request under way
    reply,    \* the answer received and not yet looked at
    result,   \* the decision returned
    lock,     \* APPROVAL_PROMPT_LOCK: the caller that holds it
    screen,   \* the request whose text was printed last
    said      \* history: what each backend last answered each caller

config == <<mode, chain>>
budgets == <<deadline, own, hop>>
terminal == <<lock, screen>>
vars == <<config, pc, i, session, budgets, reply, result, terminal, said>>

Grants == {"granted", "granted_session"}
Decisions == Grants \cup {"denied", "denied_session", "timeout", "error"}

TypeOK ==
    /\ mode \in Modes /\ chain \in Chains
    /\ pc \in [Callers -> {"idle", "ask", "slot", "prompt", "wire", "reply",
                           "backoff", "done"}]
    /\ i \in [Callers -> 1 .. Len(chain)]
    /\ session \in [Callers -> BOOLEAN]
    /\ deadline \in [Callers -> Nat]
    /\ own \in [Callers -> Nat]
    /\ hop \in [Callers -> Nat]
    /\ reply \in [Callers -> Decisions \cup {"none", "pending"}]
    /\ result \in [Callers -> Decisions \cup {"none"}]
    /\ lock \in Callers \cup {None}
    /\ screen \in Callers \cup {None}
    /\ said \in [Callers -> [1 .. Len(chain) -> Decisions \cup {"none", "pending"}]]

Init ==
    /\ mode \in Modes /\ chain \in Chains
    /\ pc = [c \in Callers |-> "idle"]
    /\ i = [c \in Callers |-> 1]
    /\ session = [c \in Callers |-> TRUE]
    /\ deadline \in [Callers -> Deadlines \cup {NoDeadline}]
    /\ own = [c \in Callers |-> 0]
    /\ hop = [c \in Callers |-> 0]
    /\ reply = [c \in Callers |-> "none"]
    /\ result = [c \in Callers |-> "none"]
    /\ lock = None
    /\ screen = None
    /\ said = [c \in Callers |-> [n \in 1 .. Len(chain) |-> "none"]]

Kind(c) == chain[i[c]]
Max2(a, b) == IF a > b THEN a ELSE b

(***************************************************************************)
(* The chain: what one backend's decision does to it.                       *)
(***************************************************************************)
\* The backend's call has returned: its own budget and reply are gone.
CallEnds(c) ==
    /\ own' = [own EXCEPT ![c] = 0]
    /\ hop' = [hop EXCEPT ![c] = 0]
    /\ reply' = [reply EXCEPT ![c] = "none"]

Return(c, d) ==
    /\ pc' = [pc EXCEPT ![c] = "done"]
    /\ result' = [result EXCEPT ![c] = d]
    /\ deadline' = [deadline EXCEPT ![c] = 0]
    /\ CallEnds(c)
    /\ UNCHANGED <<i, session>>

AskNext(c) ==
    /\ pc' = [pc EXCEPT ![c] = "ask"]
    /\ i' = [i EXCEPT ![c] = @ + 1]
    /\ CallEnds(c)
    /\ UNCHANGED <<deadline, result>>

Last(c) == i[c] = Len(chain)

\* The first grant is taken for all.
MutantRequestAllFirstGrant(c, d) ==
    Return(c, IF d = "timeout" THEN "denied" ELSE d)

\* grant_for_session after a grant d.
ForSession(c, d) == session[c] /\ d = "granted_session"

request_all(c, d) ==
    CASE d \in Grants /\ ~Last(c) ->
            /\ AskNext(c)
            /\ session' = [session EXCEPT ![c] = ForSession(c, d)]
      [] d \in Grants /\ Last(c) ->
            Return(c, IF ForSession(c, d) THEN "granted_session" ELSE "granted")
      [] d = "timeout" -> Return(c, "denied")
      [] OTHER -> Return(c, d)

\* Denials, timeouts and errors of one backend leave it to the next.
request_any(c, d) ==
    CASE d \in Grants -> Return(c, d)
      [] d \notin Grants /\ Last(c) -> Return(c, "denied")
      [] OTHER -> AskNext(c) /\ UNCHANGED session

Decide(c, d) ==
    CASE mode = "all" -> request_all(c, d)
      [] mode = "any" -> request_any(c, d)
      [] mode = "direct" -> Return(c, d)

\* request_approval_with_deadline of a backend without its own: what comes
\* back after the caller's deadline is a timeout.
DecideInTime(c, d) ==
    Decide(c, IF deadline[c] = 0 THEN "timeout" ELSE d)

(***************************************************************************)
(* Asking a backend.                                                        *)
(***************************************************************************)
\* The request reaches the backend, at once or after waiting for a worker.
Begin(c) ==
    /\ pc[c] = "idle"
    /\ IF deadline[c] = 0
       THEN Return(c, "timeout")
       ELSE /\ pc' = [pc EXCEPT ![c] = "ask"]
            /\ UNCHANGED <<i, session, budgets, reply, result>>
    /\ UNCHANGED <<config, terminal, said>>

\* request_child, and the start of the backend it calls.
AskExpired(c) ==
    /\ pc[c] = "ask"
    /\ deadline[c] = 0
    /\ Decide(c, "timeout")
    /\ UNCHANGED <<config, terminal, said>>

AskTerminal(c) ==
    /\ pc[c] = "ask"
    /\ Kind(c) = "terminal"
    /\ deadline[c] > 0
    /\ pc' = [pc EXCEPT ![c] = "slot"]
    /\ own' = [own EXCEPT ![c] = Timeout["terminal"]]
    /\ UNCHANGED <<config, i, session, deadline, hop, reply,
                   result, terminal, said>>

\* No controlling terminal can be opened.
NoTerminal(c) ==
    /\ pc[c] = "ask"
    /\ Kind(c) = "terminal"
    /\ deadline[c] > 0
    /\ Decide(c, "denied")
    /\ UNCHANGED <<config, terminal, said>>

Post(c) ==
    /\ pc[c] = "ask"
    /\ Kind(c) = "unsigned"
    /\ deadline[c] > 0
    /\ pc' = [pc EXCEPT ![c] = "wire"]
    /\ own' = [own EXCEPT ![c] = Timeout["unsigned"]]
    /\ hop' = [hop EXCEPT ![c] = Timeout["unsigned"]]
    /\ UNCHANGED <<config, i, session, deadline, reply, result,
                   terminal, said>>

\* send_platform: what is left of the budget, but at least a second.
HopTimeout(remaining) == Max2(remaining, MinHop)

Submit(c) ==
    /\ pc[c] = "ask"
    /\ Kind(c) = "platform"
    /\ deadline[c] > 0
    /\ pc' = [pc EXCEPT ![c] = "wire"]
    /\ own' = [own EXCEPT ![c] = Timeout["platform"]]
    /\ hop' = [hop EXCEPT ![c] = HopTimeout(Timeout["platform"])]
    /\ UNCHANGED <<config, i, session, deadline, reply, result,
                   terminal, said>>

(***************************************************************************)
(* The terminal.                                                            *)
(***************************************************************************)
\* The earlier of the backend's own deadline and the caller's has passed.
Expired(c) == own[c] = 0 \/ deadline[c] = 0

\* acquire_prompt_slot, and the text of the request.
TakeSlot(c) ==
    /\ pc[c] = "slot"
    /\ ~Expired(c)
    /\ lock = None
    /\ lock' = c
    /\ screen' = c
    /\ pc' = [pc EXCEPT ![c] = "prompt"]
    /\ UNCHANGED <<config, i, session, budgets, reply, result, said>>

\* The wait for the slot, or for the relay to make way, reaches the deadline.
SlotTimeout(c) ==
    /\ pc[c] = "slot"
    /\ Expired(c)
    /\ Decide(c, "timeout")
    /\ UNCHANGED <<config, terminal, said>>

\* read_consent_line_until gives up; the slot is free again.
PromptTimeout(c) ==
    /\ pc[c] = "prompt"
    /\ Expired(c)
    /\ Decide(c, "timeout")
    /\ lock' = None
    /\ UNCHANGED <<config, screen, said>>

\* The terminal cannot be configured or read, or the line is too long.
PromptFails(c) ==
    /\ pc[c] = "prompt"
    /\ Decide(c, "error")
    /\ lock' = None
    /\ UNCHANGED <<config, screen, said>>

\* What the four-way and the yes/no prompt make of a line, or of its end.
Answers(c) ==
    IF c \in SessionScoped
    THEN {"granted", "granted_session", "denied_session", "denied"}
    ELSE {"granted", "denied"}

\* The person answers the request on the screen.
Answer(c, d) ==
    /\ pc[c] = "prompt"
    /\ d \in Answers(c)
    /\ pc' = [pc EXCEPT ![c] = "reply"]
    /\ reply' = [reply EXCEPT ![c] = d]
    /\ said' = [said EXCEPT ![c][i[c]] = d]
    /\ UNCHANGED <<config, i, session, budgets, result, terminal>>

TakeAnswer(c) ==
    /\ pc[c] = "reply"
    /\ Kind(c) = "terminal"
    /\ Decide(c, IF Expired(c) THEN "timeout" ELSE reply[c])
    /\ lock' = None
    /\ UNCHANGED <<config, screen, said>>

(***************************************************************************)
(* The webhooks.                                                            *)
(***************************************************************************)
\* The server's final answers: parse_response reads every decision, the
\* signed status body has no session scope; a status outside 2xx is a denial,
\* a body that cannot be read or names no decision is an error.
Replies(c) ==
    IF Kind(c) = "unsigned"
    THEN Decisions
    ELSE {"pending", "granted", "denied", "timeout", "error"}

Reply(c, d) ==
    /\ pc[c] = "wire"
    /\ d \in Replies(c)
    /\ pc' = [pc EXCEPT ![c] = "reply"]
    /\ reply' = [reply EXCEPT ![c] = d]
    /\ said' = [said EXCEPT ![c][i[c]] = d]
    /\ UNCHANGED <<config, i, session, budgets, result, terminal>>

\* The request fails on its way.
HopBreaks(c) ==
    /\ pc[c] = "wire"
    /\ DecideInTime(c, "error")
    /\ UNCHANGED <<config, terminal, said>>

\* ureq's timeout_global ends the request.
HopFails(c) ==
    /\ pc[c] = "wire"
    /\ hop[c] = 0
    /\ DecideInTime(c, "error")
    /\ UNCHANGED <<config, terminal, said>>

\* request_unsigned.
TakeResponse(c) ==
    /\ pc[c] = "reply"
    /\ Kind(c) = "unsigned"
    /\ DecideInTime(c, reply[c])
    /\ UNCHANGED <<config, terminal, said>>

\* drive_platform_approval_with_elapsed, after a reply.  A transport error
\* leaves the loop before the deadline is looked at.
MutantTakeStatusUnchecked(c) ==
    /\ pc[c] = "reply"
    /\ Kind(c) = "platform"
    /\ IF reply[c] = "pending"
       THEN /\ pc' = [pc EXCEPT ![c] = "backoff"]
            /\ UNCHANGED <<i, session, budgets, reply, result>>
       ELSE DecideInTime(c, reply[c])
    /\ UNCHANGED <<config, terminal, said>>

TakeStatus(c) ==
    /\ pc[c] = "reply"
    /\ Kind(c) = "platform"
    /\ IF reply[c] = "pending" /\ own[c] > 0
       THEN /\ pc' = [pc EXCEPT ![c] = "backoff"]
            /\ UNCHANGED <<i, session, budgets, reply, result>>
       ELSE DecideInTime(c, IF own[c] = 0 THEN "timeout" ELSE reply[c])
    /\ UNCHANGED <<config, terminal, said>>

\* The top of the loop after the backoff.
Poll(c) ==
    /\ pc[c] = "backoff"
    /\ own[c] > 0
    /\ pc' = [pc EXCEPT ![c] = "wire"]
    /\ hop' = [hop EXCEPT ![c] = HopTimeout(own[c])]
    /\ UNCHANGED <<config, i, session, deadline, own, reply,
                   result, terminal, said>>

PollsOver(c) ==
    /\ pc[c] = "backoff"
    /\ own[c] = 0
    /\ DecideInTime(c, "timeout")
    /\ UNCHANGED <<config, terminal, said>>

(***************************************************************************)
(* Time: one unit less of every budget.  The HTTP client ends a request     *)
(* when its timeout comes; every thread of nono may run late.               *)
(***************************************************************************)
Less(n) == IF n = 0 THEN 0 ELSE n - 1

Tick ==
    /\ \A c \in Callers : pc[c] = "wire" => hop[c] > 0
    /\ deadline' = [c \in Callers |->
                       IF deadline[c] = NoDeadline THEN NoDeadline
                       ELSE Less(deadline[c])]
    /\ own' = [c \in Callers |-> Less(own[c])]
    /\ hop' = [c \in Callers |-> Less(hop[c])]
    /\ UNCHANGED <<config, pc, i, session, reply, result,
                   terminal, said>>

\* A caller that was started does its next step; nothing makes a person or a
\* server answer.
Step(c) ==
    \/ AskExpired(c) \/ AskTerminal(c) \/ NoTerminal(c) \/ Post(c) \/ Submit(c)
    \/ TakeSlot(c) \/ SlotTimeout(c) \/ PromptTimeout(c) \/ TakeAnswer(c)
    \/ HopFails(c) \/ TakeResponse(c) \/ TakeStatus(c) \/ Poll(c) \/ PollsOver(c)

Next ==
    \/ \E c \in Callers : Begin(c) \/ Step(c)
    \/ \E c \in Callers, d \in Decisions : Answer(c, d)
    \/ \E c \in Callers, d \in Decisions \cup {"pending"} : Reply(c, d)
    \/ \E c \in Callers : HopBreaks(c) \/ PromptFails(c)
    \/ Tick

Spec ==
    /\ Init
    /\ [][Next]_vars
    /\ WF_vars(Tick)
    /\ \A c \in Callers : WF_vars(Step(c))

(***************************************************************************)
(* Properties                                                               *)
(***************************************************************************)

\* A grant is backed by what the backends really answered: all of them in an
\* "all" chain, with session scope exactly when every answer had it; in an
\* "any" chain the first that granted, with its scope (request_all,
\* request_any, approval-webhook-v1.md lines 239-242).
GrantIsBacked ==
    \A c \in Callers : result[c] \in Grants =>
        CASE mode = "all" ->
                /\ \A n \in 1 .. Len(chain) : said[c][n] \in Grants
                /\ (result[c] = "granted_session") <=>
                      (\A n \in 1 .. Len(chain) : said[c][n] = "granted_session")
          [] mode = "any" -> said[c][i[c]] = result[c]
          [] mode = "direct" -> said[c][1] = result[c]

\* A session-wide denial in an "all" chain is returned as one, so that the
\* caller can cache it, unless it came after a deadline; no other answer
\* becomes session-wide (request_all's DeniedForSession arm).
SessionDenialKept ==
    \A c \in Callers : pc[c] = "done" =>
        (result[c] = "denied_session" =>
            mode # "any" /\ said[c][i[c]] = "denied_session")

\* An answer counts as a grant only while the caller's deadline and, for the
\* terminal and the platform, the backend's own have time left, however long
\* the request took (the checks after the read and after every reply).
GrantInTime ==
    \A c \in Callers :
        (/\ pc[c] = "reply"
         /\ result'[c] \in Grants \/ (mode = "all" /\ i'[c] # i[c]))
        => /\ deadline[c] > 0
           /\ Kind(c) # "unsigned" => own[c] > 0
LateGrantNeverCounts == [][GrantInTime]_vars

\* The line a person types answers the request whose text is on the screen,
\* also when several requests wait for the terminal (APPROVAL_PROMPT_LOCK).
AnswersWhatIsShown ==
    \A c \in Callers : pc[c] = "prompt" => screen = c

\* No request is put on the screen once its time is over: a worker that
\* starts late, or waited too long for the slot, does not prompt.
NoPromptAfterExpiry ==
    [][\A c \in Callers : pc[c] # "prompt" /\ pc'[c] = "prompt" => ~Expired(c)]_vars

\* Every request that was begun gets a decision though nobody ever answers,
\* the server says "pending" for ever, and other prompts hold the terminal.
EveryRequestEnds ==
    \A c \in Callers : pc[c] # "idle" ~> pc[c] = "done"

\* A platform request in flight never outlives the backend's timeout: "The
\* client bounds each HTTP request by its remaining budget".
HopWithinBudget ==
    \A c \in Callers :
        (pc[c] = "wire" /\ Kind(c) = "platform" /\ own[c] = 0) => hop[c] = 0
=============================================================================
