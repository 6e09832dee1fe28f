---------------------------- MODULE ComputersMC ----------------------------
(* Instances of Computers for TLC. *)
EXTENDS Computers, TLC

CONSTANTS r1, r2, n1, n2, c1, c2

Both      == {"ebean", "anorm"}
TwoReqs   == {r1, r2}
Names     == {n1, n2}
Companies == {c1, c2}
Forms     == {[name |-> n1, company |-> c1], [name |-> n2, company |-> c2],
              [name |-> n2, company |-> Unknown],
              [name |-> None, company |-> c1]}

=============================================================================
