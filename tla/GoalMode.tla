------------------------------ MODULE GoalMode ------------------------------
(***************************************************************************)
(* The goal of one session: graph/goals/controller.py and store.py, and the*)
(* loop of server/chat.py that verifies the goal after each model run and  *)
(* runs the model again until there is an outcome.                         *)
(*                                                                         *)
(* The goal lives in a file that each evaluation reads before it awaits the*)
(* verifier and writes afterwards; other turns of the session, /goal       *)
(* messages and the console work on the same file meanwhile.  A verdict is *)
(* Met or a piece of evidence (reason and evidence together: what the      *)
(* no-progress signature compares).  The checklist and all texts are left  *)
(* out.                                                                    *)
(***************************************************************************)
EXTENDS Naturals

CONSTANTS
  Turns,            \* turns of the session that may be under way together
  Default,          \* goal_max_iterations
  NoProgressLimit,  \* goal_no_progress_limit
  Budgets,          \* values of "max_iterations" in a goal spec, 0 if not given
  Evidence,         \* what an unmet verdict can say
  Blank,            \* the evidence that says nothing
  MaxGoals,         \* bound on the goals set
  MaxCount          \* where the counters of the history saturate

GoalAssumption ==
  /\ Default \in Nat \ {0} /\ NoProgressLimit \in Nat \ {0}
  /\ Budgets \subseteq Nat
  /\ Blank \in Evidence
  /\ MaxGoals \in Nat /\ MaxCount \in Nat
  /\ Default <= MaxCount /\ \A b \in Budgets : b <= MaxCount  \* no budget is cut off

VARIABLES
  goal,      \* the record in the goal file
  turn,      \* the turns under way
  \* History, read by the properties only.
  sets,      \* goals set so far; the n-th has id n
  record,    \* of each goal, what its verifier said
  retired,   \* goals that were cleared or replaced
  spoiled,   \* goals with a failed write, or a write based on a stale read
  stalled    \* goals a turn left active when it reached the hard cap

history == <<sets, record, retired, spoiled, stalled>>
vars == <<goal, turn, history>>

Ids == 1..MaxGoals
Met == "met"
Terminal == {"achieved", "exhausted", "unachievable"}

NoGoal == [id |-> 0, status |-> "none", iteration |-> 0, max |-> 0, streak |-> 0,
           last |-> Blank]

Idle == [pc |-> "idle", guard |-> 0, held |-> NoGoal, drove |-> {}]

NoRecord == [met |-> FALSE, gaveUp |-> FALSE, unmet |-> 0, same |-> 0, last |-> Blank]

\* Bound on the evaluations of one turn.
HardCap == Default + 2

Goal == [id : 0..MaxGoals, status : Terminal \union {"none", "active"}, iteration : Nat,
         max : Nat, streak : Nat, last : Evidence]

TypeOK ==
  /\ goal \in Goal
  /\ turn \in [Turns -> [pc : {"idle", "model", "verify"}, guard : 0..HardCap,
                         held : Goal, drove : SUBSET Ids]]
  /\ sets \in 0..MaxGoals
  /\ record \in [Ids -> [met : BOOLEAN, gaveUp : BOOLEAN, unmet : 0..MaxCount,
                         same : 0..MaxCount, last : Evidence]]
  /\ retired \subseteq Ids /\ spoiled \subseteq Ids
  /\ stalled \subseteq [id : Ids, max : Nat, alone : BOOLEAN]

Init ==
  /\ goal = NoGoal
  /\ turn = [t \in Turns |-> Idle]
  /\ sets = 0
  /\ record = [i \in Ids |-> NoRecord]
  /\ retired = {} /\ spoiled = {} /\ stalled = {}
-----------------------------------------------------------------------------
(* /goal messages, DELETE /api/goal, and the console: none of them awaits. *)

\* The budget of a spec that gives 0, or none, is the default.
Budget(b) == IF b = 0 THEN Default ELSE b

\* "/goal <text>" and "/goal {json}". A write that fails is only logged.
SetGoal(b) ==
  /\ sets < MaxGoals
  /\ sets' = sets + 1
  /\ \/ /\ goal' = [NoGoal EXCEPT !.id = sets + 1, !.status = "active", !.max = Budget(b)]
        /\ retired' = retired \union ({goal.id} \cap Ids)
        /\ UNCHANGED spoiled
     \/ spoiled' = spoiled \union {sets + 1} /\ UNCHANGED <<goal, retired>>
  /\ UNCHANGED <<turn, record, stalled>>

ClearGoal ==
  /\ goal # NoGoal
  /\ goal' = NoGoal
  /\ retired' = retired \union {goal.id}
  /\ UNCHANGED <<turn, sets, record, spoiled, stalled>>
-----------------------------------------------------------------------------
(* A turn *)

Start(t) ==
  /\ turn[t].pc = "idle"
  /\ turn' = [turn EXCEPT ![t] = [Idle EXCEPT !.pc = "model"]]
  /\ UNCHANGED <<goal, history>>

End(t) == turn' = [turn EXCEPT ![t] = Idle]

\* The model paused for a human, or the run raised: no evaluation, the goal is kept.
PauseOrFail(t) ==
  /\ turn[t].pc = "model"
  /\ End(t)
  /\ UNCHANGED <<goal, history>>

\* Mutation: any goal is evaluated, not the active one.
ActiveGoalBug(g) == g # NoGoal

ActiveGoal(g) == g.status = "active"

\* Mutation: the evaluations of the turn are not counted.
VerifyBug(t) ==
  /\ turn[t].pc = "model"
  /\ ActiveGoal(goal)
  /\ turn' = [turn EXCEPT ![t].pc = "verify", ![t].held = goal,
                          ![t].drove = @ \union {goal.id}]
  /\ UNCHANGED <<goal, history>>

\* The model answered. If the turn has evaluations left and reads an active goal,
\* it gives the goal to the verifier.
Verify(t) ==
  /\ turn[t].pc = "model"
  /\ turn[t].guard < HardCap
  /\ ActiveGoal(goal)
  /\ turn' = [turn EXCEPT ![t].pc = "verify", ![t].guard = @ + 1, ![t].held = goal,
                          ![t].drove = @ \union {goal.id}]
  /\ UNCHANGED <<goal, history>>

\* There is no active goal, or its file cannot be read.
Answer(t) ==
  /\ turn[t].pc = "model"
  /\ turn[t].guard < HardCap
  /\ End(t)
  /\ UNCHANGED <<goal, history>>

StopAtCap(t) ==
  /\ turn[t].pc = "model"
  /\ turn[t].guard = HardCap
  /\ End(t)
  /\ stalled' = IF ActiveGoal(goal)
                THEN stalled \union {[id |-> goal.id, max |-> goal.max,
                                      alone |-> turn[t].drove = {goal.id}]}
                ELSE stalled
  /\ UNCHANGED <<goal, sets, record, retired, spoiled>>

Finish(g, status) == [g EXCEPT !.status = status]

\* An unmet verdict counts; the same one as before is no progress.
Counted(g, e) ==
  [g EXCEPT !.iteration = @ + 1, !.last = e, !.streak = IF e = g.last THEN @ + 1 ELSE 0]

\* Mutation: a continued goal does not count the iteration.
DecideFreeBug(g, verdict, giveUp) ==
  IF verdict = Met THEN Finish(g, "achieved")
  ELSE IF giveUp THEN Finish(g, "unachievable")
  ELSE LET next == Counted(g, verdict)
       IN IF next.iteration > next.max THEN Finish(next, "exhausted")
          ELSE IF next.streak >= NoProgressLimit THEN Finish(next, "unachievable")
          ELSE [next EXCEPT !.iteration = g.iteration]

\* What the evaluation makes of the goal: the verdict first, then an explicit
\* give-up of the model, then the budget and the streak.
Decide(g, verdict, giveUp) ==
  IF verdict = Met THEN Finish(g, "achieved")
  ELSE IF giveUp THEN Finish(g, "unachievable")
  ELSE LET next == Counted(g, verdict)
       IN IF next.iteration >= next.max THEN Finish(next, "exhausted")
          ELSE IF next.streak >= NoProgressLimit THEN Finish(next, "unachievable") ELSE next

Saturated(n) == IF n < MaxCount THEN n + 1 ELSE n

Recorded(r, verdict, giveUp) ==
  IF verdict = Met THEN [r EXCEPT !.met = TRUE]
  ELSE [r EXCEPT !.unmet = Saturated(@), !.gaveUp = @ \/ giveUp, !.last = verdict,
                 !.same = IF r.unmet > 0 /\ verdict = r.last THEN Saturated(@) ELSE 1]

\* Of a spoiled goal, only whether it was ever met is kept.
Spoil(r) == [NoRecord EXCEPT !.met = r.met]

\* The verdict is in. The goal read before it is decided on and written, whatever
\* the file holds by now; a write that fails is only logged. The turn ends with
\* an outcome, and otherwise runs the model again.
Verdict(t, verdict, giveUp, ok) ==
  LET held == turn[t].held
      new == Decide(held, verdict, giveUp)
  IN /\ turn[t].pc = "verify"
     /\ goal' = IF ok THEN new ELSE goal
     /\ turn' = [turn EXCEPT ![t] = IF new.status \in Terminal THEN Idle
                                    ELSE [@ EXCEPT !.pc = "model", !.held = NoGoal]]
     /\ spoiled' = spoiled \union (IF ok /\ goal = held THEN {}
                                   ELSE {held.id, goal.id} \cap Ids)
     /\ LET heard == [record EXCEPT ![held.id] = Recorded(@, verdict, giveUp)]
        IN record' = [i \in Ids |-> IF i \in spoiled' THEN Spoil(heard[i]) ELSE heard[i]]
     /\ UNCHANGED <<sets, retired, stalled>>

\* The verifier itself raised: the turn ends in an error.
VerifierFails(t) ==
  /\ turn[t].pc = "verify"
  /\ End(t)
  /\ UNCHANGED <<goal, history>>

\* The process is killed and started again: only the file stays.
Restart ==
  /\ \E t \in Turns : turn[t].pc # "idle"
  /\ turn' = [t \in Turns |-> Idle]
  /\ UNCHANGED <<goal, history>>
-----------------------------------------------------------------------------
Judge(t) == \E v \in Evidence \union {Met}, giveUp, ok \in BOOLEAN : Verdict(t, v, giveUp, ok)

Run(t) ==
  PauseOrFail(t) \/ Verify(t) \/ Answer(t) \/ StopAtCap(t) \/ Judge(t) \/ VerifierFails(t)

Next ==
  \/ \E b \in Budgets : SetGoal(b)
  \/ ClearGoal
  \/ \E t \in Turns : Start(t) \/ Run(t)
  \/ Restart

Spec == Init /\ [][Next]_vars

\* Model runs end (recursion_limit), and so do verifiers (verify_timeout).
LiveSpec == Spec /\ \A t \in Turns : WF_vars(Run(t))
-----------------------------------------------------------------------------
(* Safety *)

Sound(i) == i \in Ids /\ i \notin spoiled

\* The iterations of an active goal are exactly the unmet verdicts it got, however
\* many turns, restarts and pauses they are spread over: the budget is spent on
\* evaluations and on nothing else.
Accounted ==
  goal.status = "active" /\ Sound(goal.id) => goal.iteration = record[goal.id].unmet

\* An outcome is what the verifier said. Achieved: it was met, once at least, and
\* this even after lost writes. Exhausted: it was not, as often as the budget says.
\* Unachievable: it was not, and the model gave up or the last verdicts were all
\* the same; a give-up never hides a met goal (controller.py:120-122).
OutcomeGrounded ==
  LET r == record[goal.id]
  IN /\ goal.status = "achieved" => r.met
     /\ goal.status = "exhausted" /\ Sound(goal.id) => ~r.met /\ r.unmet >= goal.max
     /\ goal.status = "unachievable" /\ Sound(goal.id) =>
          ~r.met /\ (r.gaveUp \/ r.same >= NoProgressLimit)

\* The hard cap is a safety net: it only stops a turn before the goal has an
\* outcome when the goal was set with an even larger budget of its own, was replaced
\* during the turn, or when a write was lost.
CapIsSlack ==
  \A s \in stalled : Sound(s.id) => s.max > Default + 2 \/ ~s.alone

\* The goal file says what the verifier said.
Grounded == Accounted /\ OutcomeGrounded /\ CapIsSlack

\* A goal that has an outcome keeps it until it is cleared or replaced; the only
\* way back is a write that was lost or based on a stale read.
OutcomeKept ==
  [][goal.status \in Terminal /\ goal'.id = goal.id =>
       goal' = goal \/ goal.id \in spoiled']_vars

\* "Goal cleared." (controller.py:79): a goal that was cleared or replaced does
\* not come back.
ClearedStays == goal.id \notin retired
-----------------------------------------------------------------------------
(* Liveness *)

\* Every turn ends, even when no write of the goal file succeeds and the goal's own
\* budget never runs out: the guard of the loop sees to it.
TurnEnds == \A t \in Turns : turn[t].pc # "idle" ~> turn[t].pc = "idle"
=============================================================================
