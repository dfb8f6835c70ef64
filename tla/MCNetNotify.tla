----------------------------- MODULE MCNetNotify -----------------------------
(* Small instances of NetNotify: one socket name over three canonical paths, *)
(* one granted, one that may be asked for, one that may not; one port that   *)
(* is granted on the loopback address.                                       *)
EXTENDS NetNotify

MCAllowlist == {<<"granted", "connect">>, <<"granted", "send">>}
MCApprovable == {<<"askable", "connect">>}

Path == [family |-> "unix", kind |-> "pathname", name |-> "n"]
Abstract == [family |-> "unix", kind |-> "abstract"]
Local == [family |-> "inet", port |-> 1, loopback |-> TRUE]
Remote == [family |-> "inet", port |-> 1, loopback |-> FALSE]

Call(nr, dests) == [nr |-> nr, dests |-> dests, readable |-> TRUE]
MCCalls == {Call("connect", <<Path>>), Call("bind", <<Abstract>>), Call("send", <<>>),
            Call("send", <<Local, Path>>), Call("send", <<Local, Remote>>),
            [nr |-> "connect", dests |-> <<>>, readable |-> FALSE]}
=============================================================================
