----------------------------- MODULE MCKadStore -----------------------------
(* A small instance of KadStore for TLC. *)
EXTENDS KadStore

CONSTANTS k1, k2, k3, h1, h2, p1

ThreeKeys == {k1, k2, k3}
TwoHosts == {h1, h2}
OnePeer == {p1}
=============================================================================
