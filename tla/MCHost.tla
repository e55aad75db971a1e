------------------------------- MODULE MCHost -------------------------------
(* An instance of HostUnion for TLC. *)
EXTENDS HostUnion, TLC

CONSTANTS a, b, one

EvalCase(id, kind, tools) ==
  [id |-> id, kind |-> kind, tools |-> tools, any |-> {}, seeds |-> FALSE, finds |-> FALSE,
   clears |-> FALSE, unmet |-> FALSE]
Ingest == [EvalCase(1, "ask", {one}) EXCEPT !.finds = TRUE, !.clears = TRUE]
Card == EvalCase(2, "probe", Unset)
Needy == [EvalCase(3, "ask", {one}) EXCEPT !.unmet = TRUE]
Recall == [EvalCase(4, "stream", {one}) EXCEPT !.any = {one}, !.seeds = TRUE, !.clears = TRUE]
Flow == [EvalCase(5, "workflow", Unset) EXCEPT !.any = {one}]
Pinned == EvalCase(6, "goal", Unset)
Cases == {<<Ingest>>, <<Card, Needy, Recall>>, <<Flow>>, <<Pinned>>}

Symmetry == Permutations({a, b})
=============================================================================
