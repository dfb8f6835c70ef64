------------------------------ MODULE DetachKeys ------------------------------
(***************************************************************************)
(* The filter between an attached client's keyboard and the session        *)
(* (PtyProxy::filter_client_input): it holds back what may become the      *)
(* detach sequence, swallows the sequence and the suspend key, and         *)
(* forwards everything else.  A key arrives as its byte ("raw"), as a      *)
(* CSI-u press report ("csi"), or as a CSI-u repeat or release report      *)
(* ("echo").  A report is taken whole; one that a read cuts after its      *)
(* escape byte ("cut") is no report to the filter.  The sequence holds no  *)
(* escape key and no character of a report.  Repeats and releases that     *)
(* pass through leave no trace in out: only presses are accounted for.     *)
(***************************************************************************)
EXTENDS Integers, Sequences, SequencesExt

CONSTANTS
    Keys,           \* the keys of the keyboard
    Suspend,        \* the key that suspends the session, \in Keys
    Sequence,       \* the detach sequence, a sequence of keys
    Forms,          \* how keys arrive, a subset of AllForms
    MaxKeys         \* bound on the number of events

AllForms == {"raw", "csi", "echo", "cut"}

KeysAssumption ==
    /\ Suspend \in Keys /\ Sequence \in Seq(Keys) /\ Len(Sequence) >= 2
    /\ Suspend \notin ToSet(Sequence)
    /\ Forms \subseteq AllForms /\ MaxKeys \in Nat

VARIABLES
    terminal,   \* the client is the starting terminal, not a socket
    matched,    \* pending_detach_match_len
    out,        \* the presses that have been forwarded: a sequence of keys
    requests,   \* detach requests made so far
    held,       \* ghost: what the user has typed, less completed sequences
    typed,      \* ghost: everything the user has typed
    since,      \* ghost: how much of it came before the last request
    streak,     \* ghost: keys of the sequence typed in a row, see Streak
    events      \* number of events so far

vars == <<terminal, matched, out, requests, held, typed, since, streak, events>>

Init ==
    /\ terminal \in BOOLEAN
    /\ matched = 0 /\ out = <<>> /\ requests = 0
    /\ held = <<>> /\ typed = <<>>
    /\ since = 0 /\ streak = 0 /\ events = 0

(* The part of the sequence that is held back, and given back on a mismatch *)
Prefix(n) == SubSeq(Sequence, 1, n)

(* One more key of the sequence *)
Advance ==
    /\ UNCHANGED out
    /\ IF matched + 1 = Len(Sequence)
       THEN matched' = 0 /\ requests' = requests + 1
       ELSE matched' = matched + 1 /\ UNCHANGED requests

Swallow == UNCHANGED <<matched, out, requests>>

(* The loop body of filter_client_input.  A mismatch gives the held part    *)
(* back; the mismatching byte may itself start the sequence again.          *)
RawKey(k) ==
    CASE terminal /\ k = Suspend -> Swallow
      [] ~(terminal /\ k = Suspend) /\ k = Sequence[matched + 1] -> Advance
      [] OTHER ->
            /\ UNCHANGED requests
            /\ IF matched > 0 /\ k = Sequence[1]
               THEN matched' = 1 /\ out' = out \o Prefix(matched)
               ELSE matched' = 0 /\ out' = Append(out \o Prefix(matched), k)

(* What a report that is passed through counts for *)
Passed(k, f) == IF f = "echo" THEN <<>> ELSE <<k>>

(* The held part of the sequence is dropped *)
MutantFlushDropsHeld(k, f) ==
    /\ matched' = 0
    /\ out' = out \o Passed(k, f)
    /\ UNCHANGED requests

(* flush_pending_detach_escape *)
Flush(k, f) ==
    /\ matched' = 0
    /\ out' = out \o Prefix(matched) \o Passed(k, f)
    /\ UNCHANGED requests

(* maybe_consume_enhanced_detach_byte, once the report is complete *)
Report(k, f) ==
    CASE f = "csi" /\ terminal /\ k = Suspend -> Swallow
      [] f = "csi" /\ ~(terminal /\ k = Suspend) /\ k = Sequence[matched + 1] -> Advance
      [] f = "echo" /\ k \in {Sequence[i] : i \in 1..matched} -> Swallow
      [] OTHER -> Flush(k, f)

(* The escape byte alone is an ordinary key, and so is the rest *)
CutReport(k) == Flush(k, "cut")

Filter(k, f) ==
    CASE f = "raw" -> RawKey(k)
      [] f = "cut" -> CutReport(k)
      [] f \in {"csi", "echo"} -> Report(k, f)

Press(k, f) == f # "echo" /\ ~(terminal /\ k = Suspend /\ f # "cut")

(* How much of the sequence the user has typed in a row, from a moment when *)
(* nothing was held back, with reports of its own keys at most in between   *)
Streak(k, f) ==
    CASE f = "echo" -> IF k \in {Sequence[i] : i \in 1..streak} THEN streak ELSE 0
      [] f # "echo" /\ ~Press(k, f) -> streak
      [] Press(k, f) /\ f = "cut" -> 0
      [] Press(k, f) /\ f # "cut" ->
            IF (streak > 0 \/ matched = 0) /\ k = Sequence[streak + 1] THEN streak + 1 ELSE 0

Type(k, f) ==
    /\ events < MaxKeys
    /\ events' = events + 1
    /\ Filter(k, f)
    /\ typed' = IF Press(k, f) THEN Append(typed, k) ELSE typed
    /\ LET now == IF Press(k, f) THEN Append(held, k) ELSE held
       IN IF requests' > requests
          THEN /\ held' = SubSeq(now, 1, Len(now) - Len(Sequence))
               /\ since' = Len(typed') /\ streak' = 0
          ELSE held' = now /\ streak' = Streak(k, f) /\ UNCHANGED since
    /\ UNCHANGED terminal

Next == \E k \in Keys, f \in Forms : Type(k, f)

Spec == Init /\ [][Next]_vars

-----------------------------------------------------------------------------
(* The shape of the state *)
TypeOK ==
    /\ terminal \in BOOLEAN /\ matched \in 0..(Len(Sequence) - 1)
    /\ out \in Seq(Keys)
    /\ requests \in 0..MaxKeys /\ events \in 0..MaxKeys
    /\ held \in Seq(Keys) /\ typed \in Seq(Keys)
    /\ since \in 0..MaxKeys /\ streak \in 0..Len(Sequence)

(* Every key the user pressed reaches the session once and in order, except *)
(* the ones of completed sequences and those still held back: a mismatch,   *)
(* however the keys are encoded, gives everything back.                     *)
KeysKept == out \o Prefix(matched) = held

(* A detach is requested only where the user typed the sequence, all of it  *)
(* since the last request.                                                  *)
DetachOnlyWhenTyped ==
    [][requests' > requests =>
        /\ Len(typed') - since >= Len(Sequence)
        /\ IsSuffix(Sequence, typed')]_vars

(* The sequence typed in a row detaches, in either encoding or a mixture,   *)
(* and the repeat and release reports of its own keys do not break it.      *)
UninterruptedDetaches == streak < Len(Sequence)

(* docs/cli/features/session-lifecycle.mdx: the sequence typed inside the   *)
(* attached terminal detaches, whatever was typed before it.                *)
DetachSeen ==
    Len(typed) - since >= Len(Sequence) => ~IsSuffix(Sequence, typed)
=============================================================================
