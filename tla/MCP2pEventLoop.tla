--------------------------- MODULE MCP2pEventLoop ---------------------------
(* Small instances of P2pEventLoop for TLC. *)
EXTENDS P2pEventLoop, TLC

CONSTANTS c1, c2, c3, r1, r2, r3, p1, p2

OneCall == {c1}
TwoCalls == {c1, c2}
ThreeCalls == {c1, c2, c3}
OneRequest == {r1}
TwoRequests == {r1, r2}
ThreeRequests == {r1, r2, r3}
OnePeer == {p1}
TwoPeers == {p1, p2}

(* The safety run tells neither calls, requests nor peers apart. *)
Symmetry == Permutations(Calls) \cup Permutations(Requests) \cup Permutations(Peers)
=============================================================================
