--------------------------- MODULE SessionCacheMC ---------------------------
(* Instances of SessionCache for TLC. *)
EXTENDS SessionCache, TLC

CONSTANTS n1, n2, s1, s2, r1, r2

TwoNodes    == {n1, n2}
OneNode     == {n1}
OneSession  == {s1}
TwoSessions == {s1, s2}
OneRequest  == {r1}
TwoRequests == {r1, r2}

ControllerOps == {"create", "lookup", "delete"}
AllOps        == ControllerOps \cup {"put"}

NodeSymmetry == Permutations(Node) \cup Permutations(Request)
=============================================================================
