----------------------------- MODULE Supervisor -----------------------------
(***************************************************************************)
(* The supervisor thread that decides filesystem requests of a sandboxed   *)
(* child at run time: seccomp notifications of openat/openat2              *)
(* (crates/nono-cli/src/exec_strategy/supervisor_linux.rs) and capability  *)
(* requests on the supervisor socket (crates/nono-cli/src/exec_strategy.rs),*)
(* with the trust interceptor both consult (trust_intercept.rs).           *)
(*                                                                         *)
(* The child runs on while the supervisor works: it repoints links,        *)
(* rewrites files, issues further requests, and a signal can end the       *)
(* notified system call.  Every read the supervisor makes of the file      *)
(* system or of the notification's validity is a step of its own.          *)
(*                                                                         *)
(* A name is a path as requested; what it canonicalizes to is an object,   *)
(* an existing file reached without links, or Missing.  Policy is given by *)
(* the sets a name or an object belongs to.  The name in the child's       *)
(* memory and the open flags are whatever they are when they are read.     *)
(***************************************************************************)
EXTENDS Naturals, Sequences, FiniteSets

CONSTANTS
    Names, Objects, Missing,
    ProtectedObjs,          \* overlap a protected nono state root
    DeniedNames,            \* under a deny path, as written
    DeniedObjs,             \* under a deny path, canonically
    BlockedProcObjs,        \* /proc entries that validate_procfs_access refuses
    ProcObjs,               \* the requester's other /proc entries
    CommObjs,               \* its /proc/<tgid>/task/<tid>/comm files
    InitialAccess,          \* object -> accesses the initial set grants
    CoveredObjs,            \* some initial capability covers the object
    ExactFileObjs,          \* ... and one names exactly this file
    InstructionNames,       \* match an include pattern of the trust policy
    Digests, Trusted, Blocklisted,
    Enforcement,            \* of the trust policy: "deny" or "warn"
    CapabilityElevation, ProcCommNotify,
    RequestIds, MaxTracked, \* MAX_TRACKED_REQUEST_IDS
    Burst,                  \* capacity of the rate limiter
    MaxNotifications, MaxRequests, MaxRefills, MaxRelinks, MaxRewrites,
    MaxAuditFailures

Access == {"read", "write"}
Ids == 1 .. MaxNotifications

ASSUME SupervisorConstants ==
    /\ Missing \notin Objects /\ Missing \notin Digests
    /\ ProtectedObjs \cup DeniedObjs \cup BlockedProcObjs \cup ProcObjs
           \cup CommObjs \cup CoveredObjs \cup ExactFileObjs \subseteq Objects
    /\ DeniedNames \cup InstructionNames \subseteq Names
    /\ InitialAccess \in [Objects -> SUBSET Access]
    /\ ExactFileObjs \subseteq CoveredObjs
    /\ \A o \in Objects : InitialAccess[o] # {} => o \in CoveredObjs
    /\ Trusted \cup Blocklisted \subseteq Digests
    /\ Trusted \cap Blocklisted = {}
    /\ Enforcement \in {"deny", "warn"}
    /\ CapabilityElevation \in BOOLEAN /\ ProcCommNotify \in BOOLEAN
    /\ \A n \in {MaxTracked, Burst, MaxNotifications, MaxRequests, MaxRefills,
                 MaxRelinks, MaxRewrites, MaxAuditFailures} : n \in Nat

VARIABLES
    link,        \* what each name canonicalizes to now
    file,        \* digest and metadata stamp of each object's content
    notif,       \* the kernel's state of each notification
    inbox,       \* requests on the supervisor socket
    out,         \* what the supervisor has sent on it
    work,        \* the request in hand and how far it has come
    tokens,      \* RateLimiter
    cache,       \* TrustInterceptor
    seen,        \* seen_request_ids
    audit,       \* recorded capability decisions
    fds,         \* descriptors the supervisor has put into the child
    prompts,     \* how often the approval backend was asked, by source
    used         \* bounds: relinks, rewrites, requests, refills, failures

child == <<link, file>>
vars == <<link, file, notif, inbox, out, work, tokens, cache, seen, audit,
          fds, prompts, used>>

NoEntry == [obj |-> Missing, stamp |-> 0, verified |-> FALSE, digest |-> Missing]
NoContent == [digest |-> Missing, stamp |-> 0]
Idle == [pc |-> "poll", src |-> "none", id |-> 0, name |-> Missing,
         access |-> "read", canon |-> Missing, digest |-> Missing,
         granted |-> FALSE, content |-> NoContent, how |-> "none"]

Init ==
    /\ link \in [Names -> Objects \cup {Missing}]
    /\ file \in [Objects -> [digest : Digests, stamp : {0}]]
    /\ notif = [i \in Ids |-> "unused"]
    /\ inbox = <<>> /\ out = <<>>
    /\ work = Idle
    /\ tokens = Burst
    /\ cache = [n \in Names |-> NoEntry]
    /\ seen = {} /\ audit = {} /\ fds = {}
    /\ prompts = [notif |-> 0, ipc |-> 0]
    /\ used = [relinks |-> 0, rewrites |-> 0, requests |-> 0, refills |-> 0,
               failures |-> 0]

-----------------------------------------------------------------------------
(* The child and the kernel. *)

Relink(n, o) ==
    /\ used.relinks < MaxRelinks
    /\ link[n] # o
    /\ link' = [link EXCEPT ![n] = o]
    /\ used' = [used EXCEPT !.relinks = @ + 1]
    /\ UNCHANGED <<file, notif, inbox, out, work, tokens, cache, seen, audit,
                   fds, prompts>>

Rewrite(o, d) ==
    /\ used.rewrites < MaxRewrites
    /\ file[o].digest # d
    /\ file' = [file EXCEPT ![o] = [digest |-> d, stamp |-> @.stamp + 1]]
    /\ used' = [used EXCEPT !.rewrites = @ + 1]
    /\ UNCHANGED <<link, notif, inbox, out, work, tokens, cache, seen, audit,
                   fds, prompts>>

\* A thread enters openat; the filter turns it into a notification.
Openat(i) ==
    /\ notif[i] = "unused"
    /\ \A j \in Ids : j < i => notif[j] # "unused"
    /\ notif' = [notif EXCEPT ![i] = "pending"]
    /\ UNCHANGED <<child, inbox, out, work, tokens, cache, seen, audit, fds,
                   prompts, used>>

\* A signal or an exit ends the system call: the id is not valid any more.
Interrupt(i) ==
    /\ notif[i] \in {"pending", "received"}
    /\ notif' = [notif EXCEPT ![i] = "gone"]
    /\ UNCHANGED <<child, inbox, out, work, tokens, cache, seen, audit, fds,
                   prompts, used>>

SendRequest(r, n, a) ==
    /\ used.requests < MaxRequests
    /\ inbox' = Append(inbox, [rid |-> r, name |-> n, access |-> a])
    /\ used' = [used EXCEPT !.requests = @ + 1]
    /\ UNCHANGED <<child, notif, out, work, tokens, cache, seen, audit, fds,
                   prompts>>

-----------------------------------------------------------------------------
(* Steps shared by the two handlers. *)

At(pc) == work.pc = pc
Goto(pc) == [work EXCEPT !.pc = pc]

\* SECCOMP_IOCTL_NOTIF_ID_VALID, and the precondition of every response.
notif_id_valid(i) == notif[i] = "received"

\* deny_notif, continue_notif, respond_notif_errno: the notification is over
\* when the id is still valid; a failing response is ignored.
Respond == IF notif_id_valid(work.id) THEN [notif EXCEPT ![work.id] = "done"]
                                      ELSE notif

FdMessage == [kind |-> "fd", rid |-> work.id, granted |-> TRUE]
Decision(granted) == [kind |-> "decision", rid |-> work.id, granted |-> granted]

\* The handler ends with a refusal: an errno for a notification, a Denied
\* decision for a request.
Refuse ==
    /\ work' = Idle
    /\ IF work.src = "notif"
       THEN notif' = Respond /\ UNCHANGED out
       ELSE out' = Append(out, Decision(FALSE)) /\ UNCHANGED notif

\* A request refused before the backend was asked is audited after the answer.
RefuseAndAudit ==
    /\ Refuse
    /\ IF work.src = "ipc"
       THEN \/ audit' = audit \cup {[src |-> "ipc", id |-> work.id, granted |-> FALSE]}
               /\ UNCHANGED used
            \/ used.failures < MaxAuditFailures
               /\ used' = [used EXCEPT !.failures = @ + 1] /\ UNCHANGED audit
       ELSE UNCHANGED <<audit, used>>

\* ENOENT and grants of the initial set: the kernel carries on with the call,
\* under Landlock.
ContinueIfValid ==
    /\ work' = Idle
    /\ notif' = Respond
    /\ UNCHANGED out

overlapping_protected_root(o) == o \in ProtectedObjs
is_under_deny_path(n, o) == n \in DeniedNames \/ o \in DeniedObjs
grants_exact_file(o, a) == o \in ExactFileObjs /\ a \in InitialAccess[o]

match_initial_capability(o, a) ==
    IF o \notin CoveredObjs THEN "None"
    ELSE IF a \in InitialAccess[o] THEN "Sufficient" ELSE "Insufficient"

-----------------------------------------------------------------------------
(* handle_received_filesystem_notification *)

\* Receive, and read the path from the child's memory; an unreadable path is
\* denied at once.
RecvNotif(i, n) ==
    /\ At("poll")
    /\ notif[i] = "pending"
    /\ \/ /\ work' = [Idle EXCEPT !.pc = "first_check", !.src = "notif",
                                  !.id = i, !.name = n]
          /\ notif' = [notif EXCEPT ![i] = "received"]
       \/ /\ notif' = [notif EXCEPT ![i] = "done"]
          /\ UNCHANGED work
    /\ UNCHANGED <<child, inbox, out, tokens, cache, seen, audit, fds,
                   prompts, used>>

\* First validity check, then the open flags: registers or open_how; flags
\* that cannot be read are denied.
FirstCheck(a) ==
    /\ At("first_check")
    /\ IF notif_id_valid(work.id)
       THEN \/ /\ work' = [work EXCEPT !.pc = "canonicalize", !.access = a]
               /\ UNCHANGED <<notif, out>>
            \/ Refuse
       ELSE work' = Idle /\ UNCHANGED <<notif, out>>
    /\ UNCHANGED <<child, inbox, tokens, cache, seen, audit, fds, prompts, used>>

Canonicalize ==
    /\ At("canonicalize")
    /\ work' = [work EXCEPT !.pc = "policy", !.canon = link[work.name]]
    /\ UNCHANGED <<child, notif, inbox, out, tokens, cache, seen, audit, fds,
                   prompts, used>>

\* Protected roots (which canonicalize the name once more), the comm fast
\* path, and the match against the initial set.
PolicyCheck ==
    /\ At("policy")
    /\ LET o == work.canon
           a == work.access
           protected == /\ \/ overlapping_protected_root(o)
                           \/ overlapping_protected_root(link[work.name])
                        /\ ~grants_exact_file(o, a)
           comm == ProcCommNotify /\ a = "write" /\ o \in CommObjs
           match == match_initial_capability(o, a)
       IN \/ /\ protected
             /\ Refuse
          \/ /\ ~protected /\ comm
             /\ \/ /\ work' = [work EXCEPT !.pc = "inject", !.how = "comm",
                                           !.content = file[o]]
                   /\ UNCHANGED <<notif, out>>
                \/ Refuse
          \/ /\ ~protected /\ ~comm /\ match = "Insufficient"
             /\ Refuse
          \/ /\ ~protected /\ ~comm /\ match = "Sufficient"
             /\ IF o \in ProcObjs \cup CommObjs \cup BlockedProcObjs
                THEN /\ work' = [work EXCEPT !.pc = "open", !.how = "initial"]
                     /\ UNCHANGED <<notif, out>>
                ELSE ContinueIfValid
          \/ /\ ~protected /\ ~comm /\ match = "None"
             /\ work' = Goto("exists")
             /\ UNCHANGED <<notif, out>>
    /\ UNCHANGED <<child, inbox, tokens, cache, seen, audit, fds, prompts, used>>

\* symlink_metadata: a path that does not exist keeps its native error; a
\* dangling link exists.
ExistsCheck ==
    /\ At("exists")
    /\ \/ link[work.name] = Missing /\ ContinueIfValid
       \/ work' = Goto("gates") /\ UNCHANGED <<notif, out>>
    /\ UNCHANGED <<child, inbox, tokens, cache, seen, audit, fds, prompts, used>>

\* Elapsed time gives k tokens back, up to the capacity.
Refill(k) == IF tokens + k < Burst THEN tokens + k ELSE Burst

\* Deny rules, never-grantable procfs entries, elevation switched off, and
\* the rate limiter, in this order, before anybody is asked.
Gates(k) ==
    /\ At("gates")
    /\ used.refills + k <= MaxRefills
    /\ LET blocked == \/ is_under_deny_path(work.name, work.canon)
                      \/ work.canon \in BlockedProcObjs
                      \/ ~CapabilityElevation
       IN \/ /\ blocked /\ k = 0
             /\ Refuse
             /\ UNCHANGED <<tokens, used>>
          \/ /\ ~blocked
             /\ used' = [used EXCEPT !.refills = @ + k]
             /\ IF Refill(k) > 0
                THEN /\ tokens' = Refill(k) - 1
                     /\ work' = Goto("trust")
                     /\ UNCHANGED <<notif, out>>
                ELSE /\ tokens' = 0
                     /\ Refuse
    /\ UNCHANGED <<child, inbox, cache, seen, audit, fds, prompts>>

-----------------------------------------------------------------------------
(* TrustInterceptor::check_path *)

should_block(d) == d \notin Trusted /\ (d \in Blocklisted \/ Enforcement = "deny")

Metadata(o) == [obj |-> o, stamp |-> file[o].stamp]
CacheHit(n) ==
    /\ link[n] # Missing
    /\ cache[n] # NoEntry
    /\ Metadata(link[n]) = [obj |-> cache[n].obj, stamp |-> cache[n].stamp]

\* Not an instruction file, a cached outcome, or the digest of the file.
CheckPath ==
    /\ At("trust")
    /\ LET n == work.name
       IN \/ /\ n \notin InstructionNames
             /\ work' = Goto("approve")
             /\ UNCHANGED <<notif, out, audit, used>>
          \/ /\ n \in InstructionNames /\ CacheHit(n)
             /\ IF cache[n].verified
                THEN /\ work' = [work EXCEPT !.pc = "approve", !.digest = cache[n].digest]
                     /\ UNCHANGED <<notif, out, audit, used>>
                ELSE RefuseAndAudit
          \/ /\ n \in InstructionNames /\ ~CacheHit(n)
             /\ IF link[n] = Missing
                THEN RefuseAndAudit
                ELSE /\ work' = [work EXCEPT !.pc = "trust_store",
                                             !.digest = file[link[n]].digest]
                     /\ UNCHANGED <<notif, out, audit, used>>
    /\ UNCHANGED <<child, inbox, tokens, cache, seen, fds, prompts>>

\* The verdict on the digest is stored under the metadata the name has now.
StoreCache ==
    /\ At("trust_store")
    /\ LET n == work.name
           d == work.digest
       IN /\ cache' = IF link[n] = Missing THEN cache
                      ELSE [cache EXCEPT ![n] =
                             [obj |-> link[n], stamp |-> file[link[n]].stamp,
                              verified |-> d \in Trusted,
                              digest |-> IF d \in Trusted THEN d ELSE Missing]]
          /\ IF should_block(d)
             THEN RefuseAndAudit
             ELSE work' = Goto("approve") /\ UNCHANGED <<notif, out, audit, used>>
    /\ UNCHANGED <<child, inbox, tokens, seen, fds, prompts>>

-----------------------------------------------------------------------------
(* Approval, audit, open, hand over. *)

\* The backend grants, denies or fails.  A failure denies a notification
\* before the denial is audited.
RequestApproval(answer) ==
    /\ At("approve")
    /\ prompts' = [prompts EXCEPT ![work.src] = @ + 1]
    /\ work' = [work EXCEPT !.pc = "audit", !.granted = (answer = "granted")]
    /\ notif' = IF work.src = "notif" /\ answer = "error" THEN Respond ELSE notif
    /\ UNCHANGED <<child, inbox, out, tokens, cache, seen, audit, fds, used>>

\* Mutant of RecordAudit: a failing append is only logged.
RecordAuditBestEffort(ok) ==
    /\ At("audit")
    /\ IF ok THEN /\ audit' = audit \cup {[src |-> work.src, id |-> work.id,
                                          granted |-> work.granted]}
                  /\ UNCHANGED used
             ELSE /\ used.failures < MaxAuditFailures
                  /\ used' = [used EXCEPT !.failures = @ + 1]
                  /\ UNCHANGED audit
    /\ work' = Goto("second_check")
    /\ UNCHANGED <<child, notif, inbox, out, tokens, cache, seen, fds, prompts>>

\* Mutant of RecordAudit: the error returns before the notification is denied.
RecordAuditNoDeny(ok) ==
    /\ At("audit")
    /\ \/ /\ ok
          /\ audit' = audit \cup {[src |-> work.src, id |-> work.id,
                                   granted |-> work.granted]}
          /\ work' = IF work.src = "notif" THEN Goto("second_check")
                     ELSE [work EXCEPT !.pc = "open", !.how = "approved"]
          /\ UNCHANGED used
       \/ /\ ~ok /\ used.failures < MaxAuditFailures
          /\ used' = [used EXCEPT !.failures = @ + 1]
          /\ work' = Idle
          /\ UNCHANGED audit
    /\ UNCHANGED <<child, notif, inbox, out, tokens, cache, seen, fds, prompts>>

\* A decision that cannot be recorded is not acted upon: the notification is
\* denied, a socket request gets no answer.
RecordAudit(ok) ==
    /\ At("audit")
    /\ \/ /\ ok
          /\ audit' = audit \cup {[src |-> work.src, id |-> work.id,
                                   granted |-> work.granted]}
          /\ \/ work.src = "notif" /\ work' = Goto("second_check") /\ UNCHANGED out
             \/ /\ work.src = "ipc" /\ work.granted
                /\ work' = [work EXCEPT !.pc = "open", !.how = "approved"]
                /\ UNCHANGED out
             \/ work.src = "ipc" /\ ~work.granted /\ Refuse
          /\ UNCHANGED <<notif, used>>
       \/ /\ ~ok /\ used.failures < MaxAuditFailures
          /\ used' = [used EXCEPT !.failures = @ + 1]
          /\ work' = Idle
          /\ notif' = IF work.src = "notif" THEN Respond ELSE notif
          /\ UNCHANGED <<audit, out>>
    /\ UNCHANGED <<child, inbox, tokens, cache, seen, fds, prompts>>

SecondCheck ==
    /\ At("second_check")
    /\ \/ /\ ~notif_id_valid(work.id)
          /\ work' = Idle
          /\ UNCHANGED <<notif, out>>
       \/ /\ notif_id_valid(work.id) /\ work.granted
          /\ work' = [work EXCEPT !.pc = "open", !.how = "approved"]
          /\ UNCHANGED <<notif, out>>
       \/ /\ notif_id_valid(work.id) /\ ~work.granted
          /\ Refuse
    /\ UNCHANGED <<child, inbox, tokens, cache, seen, audit, fds, prompts, used>>

\* Mutant of OpenPath: the policy is not applied to what was resolved.
OpenPathUnchecked ==
    /\ At("open")
    /\ link[work.name] # Missing
    /\ work' = [work EXCEPT !.pc = "recheck", !.canon = link[work.name]]
    /\ UNCHANGED <<child, notif, inbox, out, tokens, cache, seen, audit, fds,
                   prompts, used>>

\* open_path_for_access: canonicalize again, apply the policy to the result,
\* open that object without following links; opening may fail.
OpenPath ==
    /\ At("open")
    /\ LET o == link[work.name]
           blocked == \/ o \in BlockedProcObjs
                      \/ overlapping_protected_root(o)
                      \/ is_under_deny_path(work.name, o)
       IN \/ /\ o # Missing /\ ~blocked
             /\ work' = [work EXCEPT !.pc = "recheck", !.canon = o]
             /\ UNCHANGED <<notif, out>>
          \/ Refuse
    /\ UNCHANGED <<child, inbox, tokens, cache, seen, audit, fds, prompts, used>>

\* Mutant of DigestRecheck: the verified digest is not compared.
DigestTrusted ==
    /\ At("recheck")
    /\ work' = [work EXCEPT !.pc = "inject", !.content = file[work.canon]]
    /\ UNCHANGED <<child, notif, inbox, out, tokens, cache, seen, audit, fds,
                   prompts, used>>

\* The digest of the opened descriptor against the one that was verified.
DigestRecheck ==
    /\ At("recheck")
    /\ LET now == file[work.canon]
       IN IF work.digest \in {Missing, now.digest}
          THEN /\ work' = [work EXCEPT !.pc = "inject", !.content = now]
               /\ UNCHANGED <<notif, out>>
          ELSE Refuse
    /\ UNCHANGED <<child, inbox, tokens, cache, seen, audit, fds, prompts, used>>

Descriptor == [src |-> work.src, id |-> work.id, name |-> work.name,
               obj |-> work.canon, access |-> work.access, how |-> work.how,
               content |-> work.content]

\* inject_fd answers and hands over in one ioctl, or fails.
InjectFd ==
    /\ At("inject") /\ work.src = "notif"
    /\ work' = Idle
    /\ notif' = Respond
    /\ \/ notif_id_valid(work.id) /\ fds' = fds \cup {Descriptor}
       \/ UNCHANGED fds
    /\ UNCHANGED <<child, inbox, out, tokens, cache, seen, audit, prompts, used>>

\* send_fd, then the decision; when send_fd fails the decision is a denial.
SendFd ==
    /\ At("inject") /\ work.src = "ipc"
    /\ work' = Idle
    /\ \/ /\ fds' = fds \cup {Descriptor}
          /\ out' = Append(Append(out, FdMessage), Decision(TRUE))
       \/ /\ out' = Append(out, Decision(FALSE))
          /\ UNCHANGED fds
    /\ UNCHANGED <<child, notif, inbox, tokens, cache, seen, audit, prompts, used>>

-----------------------------------------------------------------------------
(* handle_supervisor_message *)

\* Mutant of RecvRequest: accepted ids are not remembered.
RecvRequestForgetful ==
    /\ At("poll")
    /\ inbox # <<>>
    /\ inbox' = Tail(inbox)
    /\ work' = [Idle EXCEPT !.pc = "ipc_protected", !.src = "ipc",
                            !.id = Head(inbox).rid, !.name = Head(inbox).name,
                            !.access = Head(inbox).access]
    /\ UNCHANGED <<child, notif, out, tokens, cache, seen, audit, fds, prompts,
                   used>>

\* Replay detection: an id is accepted once, and none when the cache is full.
RecvRequest ==
    /\ At("poll")
    /\ inbox # <<>>
    /\ inbox' = Tail(inbox)
    /\ LET r == Head(inbox)
           w == [Idle EXCEPT !.pc = "ipc_protected", !.src = "ipc", !.id = r.rid,
                             !.name = r.name, !.access = r.access]
           replay == r.rid \in seen \/ Cardinality(seen) >= MaxTracked
       IN IF replay
          THEN /\ work' = [w EXCEPT !.pc = "ipc_refuse"]
               /\ UNCHANGED seen
          ELSE /\ work' = w
               /\ seen' = seen \cup {r.rid}
    /\ UNCHANGED <<child, notif, out, tokens, cache, audit, fds, prompts, used>>

RefuseRequest ==
    /\ At("ipc_refuse")
    /\ RefuseAndAudit
    /\ UNCHANGED <<child, inbox, tokens, cache, seen, fds, prompts>>

\* Protected roots and deny paths canonicalize the name separately.
RequestProtected ==
    /\ At("ipc_protected")
    /\ work' = Goto(IF overlapping_protected_root(link[work.name])
                    THEN "ipc_refuse" ELSE "ipc_denied")
    /\ UNCHANGED <<child, notif, inbox, out, tokens, cache, seen, audit, fds,
                   prompts, used>>

RequestDenied ==
    /\ At("ipc_denied")
    /\ work' = Goto(IF is_under_deny_path(work.name, link[work.name])
                    THEN "ipc_refuse" ELSE "trust")
    /\ UNCHANGED <<child, notif, inbox, out, tokens, cache, seen, audit, fds,
                   prompts, used>>

-----------------------------------------------------------------------------
(* The loop itself. *)

\* The loop is left between two requests while the child lives on: the PTY
\* relay failed or saw the end of its input, or poll failed.  The supervisor
\* then waits for the child and serves nobody.  A relay write to a client that
\* reads no more, or a message the child does not complete, holds the thread
\* with the same effect.
LeaveLoop ==
    /\ At("poll")
    /\ work' = [Idle EXCEPT !.pc = "left"]
    /\ UNCHANGED <<child, notif, inbox, out, tokens, cache, seen, audit, fds,
                   prompts, used>>

ChildStep ==
    \/ \E n \in Names, o \in Objects \cup {Missing} : Relink(n, o)
    \/ \E o \in Objects, d \in Digests : Rewrite(o, d)
    \/ \E i \in Ids : Openat(i) \/ Interrupt(i)
    \/ \E r \in RequestIds, n \in Names, a \in Access : SendRequest(r, n, a)

\* What the loop does as long as it runs.
SupervisorStep ==
    \/ \E i \in Ids, n \in Names : RecvNotif(i, n)
    \/ \E a \in Access : FirstCheck(a)
    \/ Canonicalize \/ PolicyCheck \/ ExistsCheck
    \/ \E k \in 0 .. MaxRefills : Gates(k)
    \/ CheckPath \/ StoreCache
    \/ \E answer \in {"granted", "denied", "error"} : RequestApproval(answer)
    \/ \E ok \in BOOLEAN : RecordAudit(ok)
    \/ SecondCheck \/ OpenPath \/ DigestRecheck \/ InjectFd \/ SendFd
    \/ RecvRequest \/ RefuseRequest \/ RequestProtected \/ RequestDenied

Next == ChildStep \/ SupervisorStep \/ LeaveLoop

Spec == Init /\ [][Next]_vars

\* The loop goes on while there is something to do.  Nothing keeps it from
\* being left.
FairSpec == Spec /\ WF_vars(SupervisorStep)
-----------------------------------------------------------------------------
(* Properties *)

Sources == {"notif", "ipc"}
Contents == [digest : Digests, stamp : 0 .. MaxRewrites]
Steps == {"poll", "first_check", "canonicalize", "policy", "exists", "gates",
          "trust", "trust_store", "approve", "audit", "second_check", "open",
          "recheck", "inject", "ipc_protected", "ipc_denied", "ipc_refuse", "left"}
Targets == Objects \cup {Missing}
Requests == [rid : RequestIds, name : Names, access : Access]
Messages == [kind : {"fd", "decision"}, rid : RequestIds, granted : BOOLEAN]
Works == [pc : Steps, src : Sources \cup {"none"},
          id : Ids \cup RequestIds \cup {0}, name : Names \cup {Missing},
          access : Access, canon : Targets, digest : Digests \cup {Missing},
          granted : BOOLEAN, content : Contents \cup {NoContent},
          how : {"none", "initial", "comm", "approved"}]
Entries == [obj : Targets, stamp : 0 .. MaxRewrites, verified : BOOLEAN,
            digest : Digests \cup {Missing}]
Records == [src : Sources, id : Ids \cup RequestIds, granted : BOOLEAN]
Descriptors == [src : Sources, id : Ids \cup RequestIds, name : Names,
                obj : Objects, access : Access,
                how : {"initial", "comm", "approved"}, content : Contents]
Bounds == [relinks : 0 .. MaxRelinks, rewrites : 0 .. MaxRewrites,
           requests : 0 .. MaxRequests, refills : 0 .. MaxRefills,
           failures : 0 .. MaxAuditFailures]

\* Every variable has its type; `fds` holds descriptors of existing objects.
TypeOK ==
    /\ link \in [Names -> Targets]
    /\ file \in [Objects -> Contents]
    /\ notif \in [Ids -> {"unused", "pending", "received", "done", "gone"}]
    /\ inbox \in Seq(Requests)
    /\ out \in Seq(Messages)
    /\ work \in Works
    /\ tokens \in 0 .. Burst
    /\ cache \in [Names -> Entries]
    /\ seen \subseteq RequestIds
    /\ audit \subseteq Records
    /\ fds \subseteq Descriptors
    /\ prompts \in [notif : Nat, ipc : Nat]
    /\ used \in Bounds

\* Whatever the child relinks between the checks, the approval and the open,
\* a descriptor handed over by open_path_for_access is never of an object in
\* a protected root, under a deny path, or a blocked /proc entry, and was not
\* asked for by a denied name.
HandedOverIsPermitted ==
    \A f \in fds : f.how # "comm" =>
        /\ f.obj \notin ProtectedObjs \cup DeniedObjs \cup BlockedProcObjs
        /\ f.name \notin DeniedNames

\* A descriptor handed over on approval belongs to a request whose grant is
\* in the audit log, also when appends fail in between.
ApprovedFdsAudited ==
    \A f \in fds : f.how = "approved" =>
        [src |-> f.src, id |-> f.id, granted |-> TRUE] \in audit

\* An instruction file handed over on approval has, at the moment its digest
\* is taken from the open descriptor, content the trust policy lets through:
\* neither a stale cache entry nor a file swapped after verification counts.
InstructionContentAllowed ==
    \A f \in fds : (f.how = "approved" /\ f.name \in InstructionNames) =>
        ~should_block(f.content.digest)

\* The rate limiter: notifications reach the approval backend at most as
\* often as the burst and the refills allow.
NotificationPromptsLimited == prompts.notif + tokens <= Burst + used.refills

\* Replay detection: two granted answers never carry the same request id.
GrantedOncePerRequestId ==
    \A i, j \in DOMAIN out :
        (out[i] = out[j] /\ out[i].kind = "decision" /\ out[i].granted) => i = j

\* A notification that was received is answered, or its system call ended
\* meanwhile, on every path through the handler (supervisor_linux.rs:237-770);
\* one that waits is served too, unless the loop was left with the child alive
\* (exec_strategy.rs:3266-3283).
NotificationsAnswered ==
    \A i \in Ids :
        /\ notif[i] = "received" ~> notif[i] \in {"done", "gone"}
        /\ notif[i] = "pending" ~> notif[i] \in {"done", "gone"} \/ At("left")

\* As documented: what the supervisor opens without approval is covered by the
\* initial capability set.
UnapprovedFdsInInitialSet ==
    \A f \in fds : f.how = "initial" => f.access \in InitialAccess[f.obj]

\* As documented: under warn, an unverified file is let through; the cache
\* must not turn that verdict round while the file stays the same.
PassedFileNotCachedAsFailed ==
    \A f \in fds : (f.how = "approved" /\ f.name \in InstructionNames) =>
        ~ /\ cache[f.name] # NoEntry
          /\ ~cache[f.name].verified
          /\ cache[f.name].obj = f.obj
          /\ cache[f.name].stamp = f.content.stamp
=============================================================================
