---------------------------- MODULE MCLifecycle ----------------------------
(* A small instance of Lifecycle for TLC. *)
EXTENDS Lifecycle, TLC

CONSTANTS p1, p2, n1, n2, i1, i2, a1, a2

TwoProcs == {p1, p2}
TwoNames == {n1, n2}
TwoIds == {i1, i2}
TwoAddresses == {a1, a2}

(* No action tells processes, names, identities or addresses apart. *)
Symmetry ==
    Permutations(Procs) \cup Permutations(Names) \cup Permutations(Ids)
        \cup Permutations(Addresses)
=============================================================================
