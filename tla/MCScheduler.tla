---------------------------- MODULE MCScheduler ----------------------------
(* Small instances of Scheduler for TLC. *)
EXTENDS Scheduler, TLC

CONSTANTS p1, p2, b1, b2, j1, j2

OnePerProc == b1 :> p1 @@ b2 :> p2
Single == b1 :> p1

\* Two matches within the bound on the clock, and one beyond it.
Times == {1, 3, 4}

\* One match within the bound of the liveness run.
LateTimes == {2, 3}

\* The agent may refuse j2 for ever; j1 must still fire.
LiveSpec == Spec /\ Fairness({j1})
OthersFire == EventuallyFires({j1})

JobSymmetry == Permutations(Ids)
=============================================================================
