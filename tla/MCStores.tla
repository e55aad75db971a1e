------------------------------ MODULE MCStores ------------------------------
(* An instance of StoresUnion for TLC. *)
EXTENDS StoresUnion, TLC

CONSTANTS a, b, d, e, n

LookAlikes == {<<a, a>>, <<a, b>>, <<b, a>>, <<b, b>>}
Same == {<<d, d>>, <<e, e>>}
AgentNames == {<<d>>, <<e>>}
PassedIds == {<<n>>, <<d, n>>, <<e, n>>}

Symmetry == Permutations({d, e})
=============================================================================
