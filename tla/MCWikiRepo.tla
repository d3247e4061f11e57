----------------------------- MODULE MCWikiRepo -----------------------------
(* A small instance of WikiRepo for TLC. *)
EXTENDS WikiRepo, TLC

CONSTANTS e1, e2, f1, text

TwoEditors == {e1, e2}
OneFile == {f1}
Texts == {Absent, text}

(* No action tells editors or files apart. *)
Symmetry == Permutations(Editors) \cup Permutations(Files)
=============================================================================
