-------------------------- MODULE StockTickerMC --------------------------
(* Instances of StockTicker for TLC. *)
EXTENDS StockTicker, TLC

CONSTANTS u1, u2, x, y, a1, a2, a3

OneUser   == {u1}
TwoUsers  == {u1, u2}
OneSymbol == {x}
Symbols   == {x, y}
TwoAsks   == {a1, a2}
ThreeAsks == {a1, a2, a3}

AskSymmetry == Permutations(Ask)
=============================================================================
