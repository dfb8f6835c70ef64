---------------------------- MODULE MCSupervisor ----------------------------
(* Initial capability sets for the instances of Supervisor that TLC checks.  *)
EXTENDS Supervisor

ReadGrants == [o \in Objects |-> IF o \in {"bundle", "proc"} THEN {"read"} ELSE {}]
NoGrants == [o \in Objects |-> {}]
=============================================================================
