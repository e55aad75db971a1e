----------------------------- MODULE MCTraffic -----------------------------
(* An instance of TrafficUnion for TLC, and what TurnLedger's rollups make  *)
(* of every short list of numbers.                                          *)
EXTENDS TrafficUnion, TLC

CONSTANTS a, b, c, dm, guild

\* A price for a model name and for a longer one that it is part of.
Priced == [k \in {<<"opus">>, <<"opus", "mini">>} |-> IF Len(k) = 1 THEN 3 ELSE 1]
Reported == {<<"gateway", "opus", "mini">>}

\* A configuration that declares a structured skill and one that declares nothing.
Declared == {{}, {[id |-> "chat", mime |-> "report"]}}

Symmetry == Permutations({a, b})

ASSUME Ledger!RollupsSound({0, 1, 5, 25}, 5)
=============================================================================
