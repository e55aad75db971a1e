----------------------------- MODULE TurnUnion ------------------------------
(* The task of a turn, the goal loop around it and a workflow run: each    *)
(* behaviour is one component's, picked at the start.                      *)
EXTENDS Integers, Sequences, FiniteSets

CONSTANTS
  Tasks, MaxText, MaxTurns,                                            \* TaskLifecycle
  Turns, Default, NoProgressLimit, Budgets, Evidence, Blank, MaxGoals, MaxCount, \* GoalMode
  Labels, Recipes, MaxConcurrency, Implied                                \* WorkflowEngine

VARIABLES pick,
          up, store, text, old, queue, run, written, turns, told, answer, before, lost, reconciled,
          goal, turn, sets, record, retired, spoiled, stalled,
          recipe, given, phase, pending, wave, slot, out, done, failed, seen

taskVars == <<up, store, text, old, queue, run, written, turns, told, answer, before, lost, reconciled>>
goalVars == <<goal, turn, sets, record, retired, spoiled, stalled>>
flowVars == <<recipe, given, phase, pending, wave, slot, out, done, failed, seen>>
vars == <<pick, taskVars, goalVars, flowVars>>

Task == INSTANCE TaskLifecycle
Goal == INSTANCE GoalMode
Flow == INSTANCE WorkflowEngine WITH Ids <- Labels

ASSUME TaskAssumption == Task!LifecycleAssumption
ASSUME GoalAssumption == Goal!GoalAssumption
ASSUME FlowAssumption == Flow!RecipeAssumption

\* A component that is not picked stays in its first state.
Init ==
  /\ pick \in {"task", "goal", "flow"}
  /\ Task!Init /\ Goal!Init /\ Flow!Init
  /\ (pick # "flow" => given = "absent" /\ recipe = CHOOSE r \in Recipes : TRUE)

TaskStep(A) == pick = "task" /\ A /\ UNCHANGED <<pick, goalVars, flowVars>>
GoalStep(A) == pick = "goal" /\ A /\ UNCHANGED <<pick, taskVars, flowVars>>
FlowStep(A) == pick = "flow" /\ A /\ UNCHANGED <<pick, taskVars, goalVars>>

Next == \/ TaskStep(Task!Next)
        \/ GoalStep(Goal!Next)
        \/ FlowStep(Flow!Next)

Fairness ==
  /\ <>[][~Task!Crash]_vars
  /\ <>[](up => reconciled)
  /\ WF_vars(TaskStep(Task!Boot))
  /\ \A t \in Tasks : WF_vars(TaskStep(Task!Advance(t))) /\ WF_vars(TaskStep(Task!StoreEvent(t)))
  /\ \A t \in Turns : WF_vars(GoalStep(Goal!Run(t)))
  /\ WF_vars(FlowStep(Flow!Drive))
  /\ \A s \in Labels : WF_vars(FlowStep(Flow!Acquire(s))) /\ WF_vars(FlowStep(Flow!Finish(s)))

Spec == Init /\ [][Next]_vars /\ Fairness
-----------------------------------------------------------------------------
\* Every component's state has the shape of the code's.
TypeOK == Task!TypeOK /\ Goal!TypeOK /\ Flow!TypeOK
\* A task's stored outcome is what became of its turn, and the hook is told it once.
OutcomeSound == Task!OutcomeSound
\* The stored state of a task moves only along the edges of the protocol.
ProtocolSpec == Task!ProtocolSpec
\* No task stays submitted or working for ever, whatever crashes.
NeverStuck == Task!NeverStuck
\* A goal's outcome is one its verifier's verdicts, as they came, justify.
Grounded == Goal!Grounded
\* A goal that has an outcome keeps it.
OutcomeKept == Goal!OutcomeKept
\* The turns that drive a goal end.
TurnEnds == Goal!TurnEnds
\* A recipe runs if and only if it is valid, and then whole, in order and with its inputs.
RunSound == Flow!RunSound
\* The waves run the steps of a graph as their dependencies say.
DagSpec == Flow!DagSpec
\* A run of a workflow ends.
RunEnds == Flow!RunEnds
=============================================================================
