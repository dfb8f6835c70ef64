---------------------------- MODULE PlatformLogin ----------------------------
(***************************************************************************)
(* The platform sign-in of platform_oauth/ and login_cmd.rs: nono processes *)
(* share one session in three files, a record, a key and a refresh token    *)
(* that the platform rotates on every use.  Using a rotated token again      *)
(* revokes the session.  An interprocess lock orders the processes; each    *)
(* file operation is a step, may fail, and a process may crash between two. *)
(* Organizations are abstracted to the answer "not a member".               *)
(***************************************************************************)
EXTENDS Integers, FiniteSets

CONSTANTS
    Procs,        \* nono processes
    MaxSessions,  \* bound on the sign-ins the platform grants
    MaxGen,       \* bound on the rotations of a session
    MaxCrashes,   \* bound on the crashes
    None

SignIns == 1 .. MaxSessions
Tokens == [s : SignIns, gen : 1 .. MaxGen]

LoginAssumption ==
    /\ MaxSessions \in Nat /\ MaxGen \in Nat \ {0} /\ MaxCrashes \in Nat
    /\ None \notin Procs /\ None \notin Nat /\ None \notin Tokens

LoginCommands == {"access", "login", "logout"}
Outside == {"idle", "browser", "authorized", "read"}
Inside == {"load", "send", "resend", "reply", "save", "revoke", "clear1", "clear2", "clear3",
           "store1", "store2", "store3", "store4"}

VARIABLES
    lock,      \* the process that holds platform-login.lock
    record,    \* platform-login.json: the session whose key it names
    key,       \* platform-login-key: the session the key is of
    token,     \* platform-login-refresh-token
    proc,      \* per process: step, command, session and token in memory
    server,    \* per session: its state and current token at the platform
    crashes,
    lost,      \* history: sessions whose rotated token was never stored
    reused,    \* history: sessions whose rotated token was presented again
    out,       \* history: sessions a logout reported as signed out
    vanished   \* history: a login stored its session and then missed it

files == <<record, key, token>>
history == <<lost, reused, out, vanished>>
vars == <<lock, files, proc, server, crashes, history>>

Idle == [pc |-> "idle", cmd |-> "access", s |-> None, tok |-> None,
         answer |-> "none"]

TypeOK ==
    /\ lock \in Procs \cup {None}
    /\ record \in SignIns \cup {None} /\ key \in SignIns \cup {None}
    /\ token \in Tokens \cup {None}
    /\ proc \in [Procs -> [pc : Inside \cup Outside, cmd : LoginCommands,
                           s : SignIns \cup {None}, tok : Tokens \cup {None},
                           answer : {"none", "rotated", "invalid_grant", "invalid_target",
                                     "revoked"}]]
    /\ server \in [SignIns -> [st : {"none", "open", "revoked"}, gen : 0 .. MaxGen]]
    /\ crashes \in 0 .. MaxCrashes
    /\ lost \subseteq SignIns /\ reused \subseteq SignIns /\ out \subseteq SignIns
    /\ vanished \in BOOLEAN
    /\ \A p \in Procs : proc[p].pc \in Inside <=> lock = p

Init ==
    /\ lock = None /\ record = None /\ key = None /\ token = None
    /\ proc = [p \in Procs |-> Idle]
    /\ server = [s \in SignIns |-> [st |-> "none", gen |-> 0]]
    /\ crashes = 0
    /\ lost = {} /\ reused = {} /\ out = {} /\ vanished = FALSE

-----------------------------------------------------------------------------
At(p, pc) == proc[p].pc = pc
Goto(p, pc) == proc' = [proc EXCEPT ![p].pc = pc]

(* A command returns: the lock is dropped with it.                         *)
Return(p) == proc' = [proc EXCEPT ![p] = Idle] /\ lock' = None

(* session::lock, for a command that starts with it.                       *)
Start(p, cmd) ==
    /\ At(p, "idle")
    /\ lock = None
    /\ lock' = p
    /\ proc' = [proc EXCEPT ![p] = [Idle EXCEPT !.pc = "load", !.cmd = cmd]]
    /\ UNCHANGED <<files, server, crashes, history>>

(* What a command does after it removed the session, or found none.        *)
AfterClear(p) ==
    IF proc[p].cmd = "login"
    THEN lock' = None /\ proc' = [proc EXCEPT ![p] = [Idle EXCEPT !.pc = "browser",
                                                                  !.cmd = "login"]]
    ELSE Return(p)

(* session_access_locked and run_logout: read the record, then the secrets *)
(* it needs.                                                               *)
Load(p) ==
    /\ At(p, "load")
    /\ CASE record = None /\ proc[p].cmd = "logout" ->
              Goto(p, "clear1") /\ UNCHANGED lock
         [] record = None /\ proc[p].cmd # "logout" -> AfterClear(p)
         [] record # None /\ key = record /\ token # None ->
              /\ proc' = [proc EXCEPT ![p].pc = IF proc[p].cmd = "logout"
                                                THEN "revoke" ELSE "send",
                                      ![p].s = record, ![p].tok = token]
              /\ UNCHANGED lock
         [] record # None /\ ~(key = record /\ token # None) ->
              /\ IF proc[p].cmd = "logout" /\ key # None /\ token # None
                 THEN proc' = [proc EXCEPT ![p].pc = "revoke", ![p].s = record,
                                           ![p].tok = token]
                 ELSE Goto(p, "clear1")
              /\ UNCHANGED lock
    /\ UNCHANGED <<files, server, crashes, history>>

(* What the platform makes of a refresh token.                             *)
Platform(t) ==
    CASE server[t.s].st = "open" /\ server[t.s].gen = t.gen -> "rotated"
      [] OTHER -> "invalid_grant"

(* post_form: the platform wants its nonce in the proof before it looks at *)
(* the token, and the same form is sent once more.                         *)
NonceDemanded(p) ==
    /\ At(p, "send")
    /\ Goto(p, "resend")
    /\ UNCHANGED <<lock, files, server, crashes, history>>

(* refresh: discovery or the request may fail, or the nonce be demanded    *)
(* again, before the token is presented; a member check may fail without   *)
(* using the token up.                                                     *)
Send(p) ==
    LET t == proc[p].tok IN
    /\ At(p, "send") \/ At(p, "resend")
    /\ \/ Return(p) /\ UNCHANGED <<server, reused>>
       \/ /\ proc' = [proc EXCEPT ![p].pc = "reply", ![p].answer = "invalid_target"]
          /\ Platform(t) = "rotated"
          /\ UNCHANGED <<lock, server, reused>>
       \/ /\ Platform(t) = "rotated" /\ t.gen < MaxGen
          /\ server' = [server EXCEPT ![t.s].gen = t.gen + 1]
          /\ proc' = [proc EXCEPT ![p].pc = "reply", ![p].answer = "rotated",
                                  ![p].tok.gen = t.gen + 1]
          /\ UNCHANGED <<lock, reused>>
       \/ /\ Platform(t) = "invalid_grant"
          /\ reused' = IF t.gen < server[t.s].gen THEN reused \cup {t.s} ELSE reused
          /\ server' = [server EXCEPT ![t.s].st = "revoked"]
          /\ proc' = [proc EXCEPT ![p].pc = "reply", ![p].answer = "invalid_grant"]
          /\ UNCHANGED lock
    /\ UNCHANGED <<files, crashes, lost, out, vanished>>

(* The answer does not arrive, or does not validate.                       *)
ReplyLost(p) ==
    /\ At(p, "reply")
    /\ lost' = IF proc[p].answer = "rotated" THEN lost \cup {proc[p].s} ELSE lost
    /\ Return(p)
    /\ UNCHANGED <<files, server, crashes, reused, out, vanished>>

(* Bug: the organization is checked before the rotated token is stored.    *)
MutantReplyChecksFirst(p) ==
    /\ At(p, "reply")
    /\ CASE proc[p].answer = "rotated" ->
              \/ token' = proc[p].tok /\ Goto(p, "save") /\ UNCHANGED <<lock, lost>>
              \/ Return(p) /\ UNCHANGED <<token, lost>>
         [] proc[p].answer = "invalid_grant" ->
              Goto(p, "clear1") /\ UNCHANGED <<lock, token, lost>>
         [] proc[p].answer = "invalid_target" ->
              AfterClear(p) /\ UNCHANGED <<token, lost>>
    /\ UNCHANGED <<record, key, server, crashes, reused, out, vanished>>

(* The answer: the rotated token is stored first, a refused session is     *)
(* removed; the other errors leave the session as it is, and a login goes  *)
(* on to the browser when the person has to act.                           *)
Reply(p) ==
    /\ At(p, "reply")
    /\ CASE proc[p].answer = "rotated" ->
              \/ token' = proc[p].tok /\ Goto(p, "save") /\ UNCHANGED <<lock, lost>>
              \/ lost' = lost \cup {proc[p].s} /\ Return(p) /\ UNCHANGED token
         [] proc[p].answer = "invalid_grant" ->
              Goto(p, "clear1") /\ UNCHANGED <<lock, token, lost>>
         [] proc[p].answer = "invalid_target" ->
              AfterClear(p) /\ UNCHANGED <<token, lost>>
    /\ UNCHANGED <<record, key, server, crashes, reused, out, vanished>>

(* save_record of the record that was loaded; or access for another        *)
(* organization than the one asked for, which is refused.                  *)
Save(p) ==
    /\ At(p, "save")
    /\ record' \in {proc[p].s, record}
    /\ Return(p)
    /\ UNCHANGED <<key, token, server, crashes, history>>

(* revoke_refresh_token: the platform revokes the session of the token if  *)
(* the key is that session's, and answers 200 either way.                  *)
Revoke(p) ==
    /\ At(p, "revoke")
    /\ \/ Goto(p, "clear1") /\ UNCHANGED server
       \/ /\ server' = IF key = proc[p].tok.s
                       THEN [server EXCEPT ![proc[p].tok.s].st = "revoked"] ELSE server
          /\ \E a \in {"revoked", "none"} :
                proc' = [proc EXCEPT ![p].pc = "clear1", ![p].answer = a]
    /\ UNCHANGED <<lock, files, crashes, history>>

(* Bug: the record goes last.                                              *)
MutantClearRecordLast(p) ==
    /\ \/ /\ At(p, "clear1")
          /\ token' = None /\ Goto(p, "clear2")
          /\ UNCHANGED <<key, record, lock, out>>
       \/ /\ At(p, "clear2")
          /\ key' = None /\ Goto(p, "clear3")
          /\ UNCHANGED <<record, token, lock, out>>
       \/ /\ At(p, "clear3")
          /\ record' = None /\ AfterClear(p)
          /\ out' = IF proc[p].cmd = "logout" /\ proc[p].answer = "revoked"
                    THEN out \cup {proc[p].s} ELSE out
          /\ UNCHANGED <<key, token>>
       \/ /\ proc[p].pc \in {"clear1", "clear2", "clear3"}
          /\ Return(p)
          /\ UNCHANGED <<files, out>>
    /\ UNCHANGED <<server, crashes, lost, reused, vanished>>

(* clear: record, refresh token, key; the first failure ends it.           *)
Clear(p) ==
    /\ \/ /\ At(p, "clear1")
          /\ record' = None /\ Goto(p, "clear2")
          /\ UNCHANGED <<key, token, lock, out>>
       \/ /\ At(p, "clear2")
          /\ token' = None /\ Goto(p, "clear3")
          /\ UNCHANGED <<record, key, lock, out>>
       \/ /\ At(p, "clear3")
          /\ key' = None /\ AfterClear(p)
          /\ out' = IF proc[p].cmd = "logout" /\ proc[p].answer = "revoked"
                    THEN out \cup {proc[p].s} ELSE out
          /\ UNCHANGED <<record, token>>
       \/ /\ proc[p].pc \in {"clear1", "clear2", "clear3"}
          /\ Return(p)
          /\ UNCHANGED <<files, out>>
    /\ UNCHANGED <<server, crashes, lost, reused, vanished>>

-----------------------------------------------------------------------------
(* Signing in.                                                             *)

(* The person finishes in the browser, or not; no lock is held meanwhile.  *)
Authorize(p) ==
    /\ At(p, "browser")
    /\ \/ \E s \in SignIns :
            /\ server[s].st = "none"
            /\ \A r \in 1 .. s - 1 : server[r].st # "none"
            /\ server' = [server EXCEPT ![s] = [st |-> "open", gen |-> 1]]
            /\ proc' = [proc EXCEPT ![p].pc = "authorized", ![p].s = s,
                                    ![p].tok = [s |-> s, gen |-> 1]]
       \/ proc' = [proc EXCEPT ![p] = Idle] /\ UNCHANGED server
    /\ UNCHANGED <<lock, files, crashes, history>>

Relock(p) ==
    /\ At(p, "authorized")
    /\ lock = None
    /\ lock' = p
    /\ Goto(p, "store1")
    /\ UNCHANGED <<files, server, crashes, history>>

(* store_session: the old record goes, then key, token and record are       *)
(* written; any write may fail.                                             *)
Store(p) ==
    /\ \/ /\ At(p, "store1") /\ record' = None /\ Goto(p, "store2")
          /\ UNCHANGED <<key, token, lock>>
       \/ /\ At(p, "store2") /\ key' = proc[p].s /\ Goto(p, "store3")
          /\ UNCHANGED <<record, token, lock>>
       \/ /\ At(p, "store3") /\ token' = proc[p].tok /\ Goto(p, "store4")
          /\ UNCHANGED <<record, key, lock>>
       \/ /\ At(p, "store4") /\ record' = proc[p].s
          /\ Goto(p, "read") /\ lock' = None
          /\ UNCHANGED <<key, token>>
       \/ /\ proc[p].pc \in {"store1", "store2", "store3", "store4"}
          /\ Return(p)
          /\ UNCHANGED files
    /\ UNCHANGED <<server, crashes, history>>

(* The record is read once more for the message, without the lock.         *)
ReadBack(p) ==
    /\ At(p, "read")
    /\ vanished' = (vanished \/ record = None)
    /\ proc' = [proc EXCEPT ![p] = Idle]
    /\ UNCHANGED <<lock, files, server, crashes, lost, reused, out>>

(* A process dies: the kernel drops its lock.                              *)
Crash(p) ==
    /\ crashes < MaxCrashes
    /\ ~At(p, "idle")
    /\ crashes' = crashes + 1
    /\ lost' = IF At(p, "reply") /\ proc[p].answer = "rotated"
               THEN lost \cup {proc[p].s} ELSE lost
    /\ proc' = [proc EXCEPT ![p] = Idle]
    /\ lock' = IF lock = p THEN None ELSE lock
    /\ UNCHANGED <<files, server, reused, out, vanished>>

(* The platform ends a session on its side.                                *)
Expire(s) ==
    /\ server[s].st = "open"
    /\ server' = [server EXCEPT ![s].st = "revoked"]
    /\ UNCHANGED <<lock, files, proc, crashes, history>>

Next ==
    \/ \E p \in Procs, cmd \in LoginCommands : Start(p, cmd)
    \/ \E p \in Procs : \/ Load(p) \/ NonceDemanded(p) \/ Send(p) \/ ReplyLost(p) \/ Reply(p)
                        \/ Save(p) \/ Revoke(p) \/ Clear(p) \/ Authorize(p) \/ Relock(p) \/ Store(p)
                        \/ ReadBack(p) \/ Crash(p)
    \/ \E s \in SignIns : Expire(s)

Spec == Init /\ [][Next]_vars

-----------------------------------------------------------------------------
(* Properties.                                                             *)

(* A record is never on disk without the key and a token of its own         *)
(* session, whichever file operation of store_session or clear fails or is  *)
(* cut off by a crash, and whoever runs next.                               *)
RecordHasItsSecrets ==
    record # None => (key = record /\ token # None /\ token.s = record)

(* The platform sees a rotated token again only if the answer that carried  *)
(* its successor never reached the disk: concurrent commands never do it.   *)
ReuseOnlyAfterLoss == reused \subseteq lost

(* A logout that reports success has ended the session it names at the      *)
(* platform: run_logout takes whichever key and token are on disk.          *)
SignedOutIsRevoked == \A s \in out : server[s].st = "revoked"

(* The record of a session the platform still honours is removed only by    *)
(* a logout or by a login about to replace it.                              *)
OpenSessionKept ==
    [][(record # None /\ record' = None /\ server[record].st = "open") =>
        \E p \in Procs : /\ lock = p
                         /\ \/ proc[p].cmd = "logout"
                            \/ proc[p].pc = "store1"]_vars

(* What cli-login-v1.md says: the session is read under the lock, so a      *)
(* login that stored its session also finds it.                             *)
StoredLoginFound == ~vanished
=============================================================================
