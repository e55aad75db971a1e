------------------------------ MODULE StepDag ------------------------------
(***************************************************************************)
(* What a workflow run promises (docs/guides/workflows.md, "Anatomy"):     *)
(* every step runs at most once, after the steps it depends on have ended, *)
(* and no more than Width steps run at a time. WorkflowEngine implements   *)
(* this.                                                                   *)
(***************************************************************************)
EXTENDS FiniteSets, Naturals

CONSTANTS
  Step,   \* ids of steps
  Width   \* most steps that run at a time

VARIABLES
  deps,     \* the steps each step depends on
  started,  \* steps whose subagent was called
  finished  \* steps whose subagent answered or failed

Init ==
  /\ deps \in [Step -> SUBSET Step]
  /\ started = {}
  /\ finished = {}

Start(s) ==
  /\ s \notin started
  /\ deps[s] \subseteq finished
  /\ Cardinality(started \ finished) < Width
  /\ started' = started \union {s}
  /\ UNCHANGED <<deps, finished>>

Finish(s) ==
  /\ s \in started \ finished
  /\ finished' = finished \union {s}
  /\ UNCHANGED <<deps, started>>

\* The caller gives up: the steps under way are cancelled.
Stop ==
  /\ finished' = started
  /\ UNCHANGED <<deps, started>>

Next == Stop \/ \E s \in Step : Start(s) \/ Finish(s)

Spec == Init /\ [][Next]_<<deps, started, finished>>
=============================================================================
