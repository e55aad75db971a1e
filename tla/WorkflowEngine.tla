--------------------------- MODULE WorkflowEngine ---------------------------
(***************************************************************************)
(* One run of a workflow recipe (graph/workflows/engine.py), as the chat   *)
(* command, the console and the run_workflow tool start it                 *)
(* (graph/agent.py): look it up, validate it, resolve its inputs, run the  *)
(* steps in waves, return the rendered output.                             *)
(*                                                                         *)
(* A step is a record of its id, the ids it depends on and the ids whose   *)
(* outputs its prompt refers to. Texts are left out: a rendered prompt is  *)
(* the set of steps whose outputs it contains, and one input stands for    *)
(* all. The registry's files and the console's editor are not modelled.    *)
(***************************************************************************)
EXTENDS SequencesExt

CONSTANTS
  Ids,             \* what a recipe may use as step ids, known or not
  Recipes,         \* the recipes a run may be started with
  MaxConcurrency,  \* permits of the semaphore: subagents.max_concurrency, 1 at least
  Implied          \* a recipe without an output template

VARIABLES
  recipe,   \* the recipe of this run
  given,    \* what the caller gave for the recipe's input
  phase,    \* where the run is
  pending,  \* steps not yet handed to gather
  wave,     \* steps of the gather under way
  slot,     \* steps that hold the semaphore
  out,      \* what became of each step's call
  done,     \* steps whose outputs the templates can use
  failed,   \* steps reported as failed, in order
  seen      \* outputs in each rendered prompt

vars == <<recipe, given, phase, pending, wave, slot, out, done, failed, seen>>

StepsOf(r) == ToSet(r.steps)
StepIds(r) == {s.id : s \in StepsOf(r)}

\* by_id: of steps that share an id the last one wins.
StepNo(id) == CHOOSE i \in DOMAIN recipe.steps :
  /\ recipe.steps[i].id = id
  /\ \A j \in DOMAIN recipe.steps : recipe.steps[j].id = id => j <= i
DepsOf(id) == IF id \in StepIds(recipe) THEN recipe.steps[StepNo(id)].deps ELSE {}
RefsOf(id) == IF id \in StepIds(recipe) THEN recipe.steps[StepNo(id)].refs ELSE {}

RecipeAssumption ==
  /\ IsFiniteSet(Ids)
  /\ MaxConcurrency \in Nat \ {0}
  /\ \A r \in Recipes : r.steps \in Seq(StepsOf(r)) /\ StepIds(r) \subseteq Ids

OutRefs(r) ==
  IF r.out = Implied THEN {Last(r.steps).id} ELSE {r.out}

TypeOK ==
  /\ recipe \in Recipes
  /\ given \in {"absent", "empty", "value"}
  /\ phase \in {"called", "running", "returned", "refused", "cancelled"}
  /\ pending \subseteq StepIds(recipe)
  /\ wave \subseteq pending
  /\ slot \subseteq wave
  /\ Cardinality(slot) <= MaxConcurrency
  /\ out \in [Ids -> {"none", "ok", "error", "stopped"}]
  /\ done \subseteq StepIds(recipe)
  /\ failed \in Seq(done)
  /\ seen \in [Ids -> SUBSET Ids]

Init ==
  /\ recipe \in Recipes
  /\ given \in {"absent", "empty", "value"}
  /\ phase = "called"
  /\ pending = {}
  /\ wave = {}
  /\ slot = {}
  /\ out = [s \in Ids |-> "none"]
  /\ done = {}
  /\ failed = <<>>
  /\ seen = [s \in Ids |-> {}]

-----------------------------------------------------------------------------
(* Validation *)

\* Definitions that end in Bug are mutations of the one that follows: each is
\* a slip the code could have, which the properties must notice.

Opened(n, m) == [m EXCEPT !.open = @ \union {n}]

\* A visited node stays marked as being visited, so a diamond looks like a cycle.
ClosedBug(n, marks) == marks

Closed(n, marks) == [cycle |-> FALSE, open |-> marks.open \ {n}, shut |-> marks.shut \union {n}]

\* _has_cycle: depth-first along the dependencies. open holds the nodes being
\* visited, shut those that are done; meeting an open node closes a cycle.
Marks(graph) == [cycle : BOOLEAN, open : SUBSET DOMAIN graph, shut : SUBSET DOMAIN graph]

HasCycle(graph) ==
  LET visit[at \in (DOMAIN graph) \X Marks(graph)] ==
        LET n == at[1]
            m == at[2]
        IN IF m.cycle \/ n \in m.shut THEN m
           ELSE IF n \in m.open THEN [m EXCEPT !.cycle = TRUE]
           ELSE LET deps == FoldSet(LAMBDA d, acc : visit[<<d, acc>>], Opened(n, m), graph[n])
                IN IF deps.cycle THEN deps ELSE Closed(n, deps)
      fresh == [cycle |-> FALSE, open |-> {}, shut |-> {}]
  IN FoldSet(LAMBDA n, acc : visit[<<n, acc>>], fresh, DOMAIN graph).cycle

\* validate_recipe: ids are given once, dependencies and references are to steps
\* of the recipe, and the dependencies form no cycle.
Invalid(r) ==
  \/ Len(r.steps) = 0
  \/ Cardinality(StepIds(r)) # Len(r.steps)
  \/ \E s \in StepsOf(r) : ~(s.deps \union s.refs \subseteq StepIds(r))
  \/ r.out # Implied /\ r.out \notin StepIds(r)
  \/ HasCycle([i \in StepIds(r) |-> (CHOOSE s \in StepsOf(r) : s.id = i).deps])

\* resolve_inputs: an empty value is no value; a default stands in for it; only a
\* required input without either is missed.
MissesInput(r) == given # "value" /\ ~r.default /\ r.required

-----------------------------------------------------------------------------
(* The run *)

\* run_manual_workflow and run_workflow: nothing runs unless all checks pass.
Call ==
  /\ phase = "called"
  /\ IF Invalid(recipe) \/ MissesInput(recipe)
     THEN /\ phase' = "refused"
          /\ UNCHANGED pending
     ELSE /\ phase' = "running"
          /\ pending' = StepIds(recipe)
  /\ UNCHANGED <<recipe, given, wave, slot, out, done, failed, seen>>

\* One met dependency is enough.
ReadyBug(s) == DepsOf(s) = {} \/ DepsOf(s) \intersect done # {}

Ready(s) == DepsOf(s) \subseteq done

\* render_template: an output that is not there yet is the empty text.
Rendered(refs) == refs \intersect done

\* gather() starts a coroutine for every ready step; each renders its prompt
\* before it waits for the semaphore.
StartWave ==
  /\ phase = "running"
  /\ wave = {}
  /\ {s \in pending : Ready(s)} # {}
  /\ wave' = {s \in pending : Ready(s)}
  /\ seen' = [s \in Ids |-> IF s \in wave' THEN Rendered(RefsOf(s)) ELSE seen[s]]
  /\ UNCHANGED <<recipe, given, phase, pending, slot, out, done, failed>>

Waiting == {s \in wave \ slot : out[s] = "none"}

\* asyncio.Semaphore lets its waiters in first come, first served.
Acquire(s) ==
  /\ s \in Waiting
  /\ \A q \in Waiting : StepNo(s) <= StepNo(q)
  /\ Cardinality(slot) < MaxConcurrency
  /\ slot' = slot \union {s}
  /\ UNCHANGED <<recipe, given, phase, pending, wave, out, done, failed, seen>>

\* The semaphore is not released when run_step raises.
FinishBug(s) ==
  /\ s \in slot
  /\ out[s] = "none"
  /\ \/ out' = [out EXCEPT ![s] = "ok"] /\ slot' = slot \ {s}
     \/ out' = [out EXCEPT ![s] = "error"] /\ UNCHANGED slot
  /\ UNCHANGED <<recipe, given, phase, pending, wave, done, failed, seen>>

\* The subagent answers, or run_step raises and the error text is the output.
Finish(s) ==
  /\ s \in slot
  /\ \E result \in {"ok", "error"} : out' = [out EXCEPT ![s] = result]
  /\ slot' = slot \ {s}
  /\ UNCHANGED <<recipe, given, phase, pending, wave, done, failed, seen>>

\* The members of S in the order of the recipe's steps.
InOrder(S) ==
  LET at == {StepNo(s) : s \in S}
  IN [k \in 1..Cardinality(S) |-> CHOOSE s \in S : Cardinality({i \in at : i <= StepNo(s)}) = k]

WaveOver == wave # {} /\ \A s \in wave : out[s] # "none"

\* All of the wave have answered: their outputs are recorded together, failures
\* inline, and the next wave is looked for.
EndWave ==
  /\ WaveOver
  /\ pending' = pending \ wave
  /\ wave' = {}
  /\ done' = done \union wave
  /\ failed' = failed \o InOrder({s \in wave : out[s] = "error"})
  /\ UNCHANGED <<recipe, given, phase, slot, out, seen>>

Return ==
  /\ phase = "running"
  /\ pending = {}
  /\ phase' = "returned"
  /\ UNCHANGED <<recipe, given, pending, wave, slot, out, done, failed, seen>>

\* The turn that awaits the run is cancelled: gather cancels the steps.
Cancel ==
  /\ phase = "running"
  /\ phase' = "cancelled"
  /\ wave' = {}
  /\ slot' = {}
  /\ out' = [s \in Ids |-> IF s \in slot THEN "stopped" ELSE out[s]]
  /\ UNCHANGED <<recipe, given, pending, done, failed, seen>>

Ended == phase \in {"returned", "refused", "cancelled"} /\ UNCHANGED vars

Next ==
  \/ Call \/ StartWave \/ EndWave \/ Return \/ Cancel
  \/ \E s \in Ids : Acquire(s) \/ Finish(s)
  \/ Ended

Spec == Init /\ [][Next]_vars

\* Every step's subagent answers, fails or is stopped by its turn cap; the event
\* loop runs what is ready.
Drive == Call \/ StartWave \/ EndWave \/ Return

Fairness ==
  /\ WF_vars(Drive)
  /\ \A s \in Ids : WF_vars(Acquire(s)) /\ WF_vars(Finish(s))

LiveSpec == Spec /\ Fairness
-----------------------------------------------------------------------------
(* Properties *)

\* A recipe someone could run: its steps can be put in an order in which each
\* comes after what it depends on.
Runnable(r) ==
  /\ r.steps # <<>>
  /\ \A i, j \in DOMAIN r.steps : r.steps[i].id = r.steps[j].id => i = j
  /\ UNION {s.deps \union s.refs : s \in StepsOf(r)} \subseteq StepIds(r)
  /\ r.out = Implied \/ r.out \in StepIds(r)
  /\ \E order \in SetToSeqs(StepsOf(r)) :
       \A i \in DOMAIN order : order[i].deps \subseteq {order[j].id : j \in 1..(i - 1)}

\* Validation refuses exactly the recipes that cannot run as they are drawn, and
\* the calls that lack a required input (engine.py:31-84, 114-133).
Verdict ==
  phase # "called" =>
    (phase = "refused" <=> ~Runnable(recipe) \/ (given # "value" /\ recipe.required /\ ~recipe.default))

\* The steps a step waits for, directly or through others.
Upstream(s) ==
  LET up[n \in 0..Cardinality(Ids)] ==
        IF n = 0 THEN DepsOf(s) ELSE up[n - 1] \union UNION {DepsOf(q) : q \in up[n - 1]}
  IN up[Cardinality(Ids)]

\* A prompt holds the output, or the error, of every upstream step it refers to,
\* in whatever wave and order those ended (engine.py:148, "threads each step's
\* output into later prompts").
PromptsFilled ==
  \A s \in wave \union done : RefsOf(s) \intersect Upstream(s) \subseteq seen[s]

\* A run that returns has run every step, failed ones and those behind them
\* included, and reports each failure once (engine.py:139-142); its output
\* template finds every step.
RunIsWhole ==
  phase = "returned" =>
    /\ done = StepIds(recipe)
    /\ \A s \in done : out[s] # "none"
    /\ Len(failed) = Cardinality({s \in Ids : out[s] = "error"})
    /\ ToSet(failed) = {s \in Ids : out[s] = "error"}
    /\ Rendered(OutRefs(recipe)) = OutRefs(recipe)

\* What runs can run, every step of it does, and with what it refers to.
RunSound == Verdict /\ PromptsFilled /\ RunIsWhole

\* The waves implement the dependency graph: at most once, after what it depends
\* on, no more than the limit at a time.
Dag == INSTANCE StepDag WITH
  Step <- Ids,
  Width <- MaxConcurrency,
  deps <- [s \in Ids |-> DepsOf(s) \intersect Ids],
  started <- slot \union {s \in Ids : out[s] # "none"},
  finished <- {s \in Ids : out[s] # "none"}

DagSpec == Dag!Spec

\* A run that was let in ends, whatever its steps do, failing ones included. So
\* the branch that skips the rest of a run when no step is ready is the mere guard
\* its comment says it is (engine.py:172, "should be impossible post-validate"):
\* it is no action here, and a run that came to it would not end.
RunEnds == phase = "running" ~> phase \in {"returned", "cancelled"}
=============================================================================
