---------------------------- MODULE MCPageServer ----------------------------
(* Small instances of PageServer for TLC. *)
EXTENDS PageServer

CONSTANTS g1, g2

TwoGets == {g1, g2}
OnePage == {"index"}

SomeVersions == {"", "v1"}
SomeHosts == {"", "local", "elsewhere", "here"}
Here == "here"
PathSegments == {"", "index"}

Wit(version, host, path) ==
    [scheme |-> "wit", username |-> version, host |-> host, path |-> path]

(* wit:index, wit://elsewhere/index, wit://v1@local/index, an http link *)
SomeLinks ==
    {Wit("", "", <<"index">>),
     Wit("", "elsewhere", <<"", "index">>),
     Wit("v1", "local", <<"", "index">>),
     [scheme |-> "http", username |-> "", host |-> "elsewhere", path |-> <<"">>]}
=============================================================================
