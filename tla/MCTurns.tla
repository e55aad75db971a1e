------------------------------ MODULE MCTurns -------------------------------
(* An instance of TurnUnion for TLC. Tasks share nothing but crashes and   *)
(* boots, so one is enough.                                                *)
EXTENDS TurnUnion

CONSTANTS a, b, c, x, blank, other

\* Every dependency graph on three steps, with prompts that refer to what they
\* depend on or to every other step; and broken recipes.
Steps == {a, b, c}
Step3(g, refs) ==
  [i \in 1..3 |-> LET s == <<a, b, c>>[i] IN [id |-> s, deps |-> g[s], refs |-> refs[s]]]
Recipe(steps, tmpl, req, def) == [steps |-> steps, out |-> tmpl, required |-> req, default |-> def]
Graphs3 == [Steps -> SUBSET Steps]
Others == [s \in Steps |-> Steps \ {s}]
Drawn == {Recipe(Step3(g, Others), Implied, FALSE, FALSE) : g \in Graphs3}
Chained == {Recipe(Step3(g, g), a, TRUE, d) :
              g \in {h \in Graphs3 : a \notin UNION {h[s] : s \in Steps}}, d \in BOOLEAN}
One(id, deps, refs) == [id |-> id, deps |-> deps, refs |-> refs]
Broken ==
  {Recipe(<<>>, Implied, FALSE, FALSE),
   Recipe(<<One(a, {}, {}), One(a, {}, {})>>, Implied, FALSE, FALSE),
   Recipe(<<One(a, {x}, {})>>, Implied, FALSE, FALSE),
   Recipe(<<One(a, {}, {x})>>, Implied, FALSE, FALSE),
   Recipe(<<One(a, {}, {})>>, b, FALSE, FALSE)}
AllRecipes == Drawn \union Chained \union Broken
=============================================================================
