----------------------------- MODULE Delegation -----------------------------
(***************************************************************************)
(* Delegating to subagents (graph/agent.py).  A call of the lead agent's   *)
(* task_batch tool, or of the operator's batch, runs its tasks side by     *)
(* side under a semaphore of its own and gives every task's result or      *)
(* error back in order; a task that ended well may leave a skill.  The     *)
(* lead agent's calls first pass the enforcement gate with its sliding     *)
(* window.  A message is what the code asks of it: who wrote it, and       *)
(* whether it is empty or starts with "Error".                             *)
(***************************************************************************)
EXTENDS Integers, Sequences, FiniteSets, FiniteSetsExt

CONSTANTS Calls,          \* tool calls
          Tasks,          \* a call has the tasks 1..Tasks
          MaxConcurrency, \* subagent_max_concurrency, as configured
          MaxCalls, Window, \* rate limit of the tool
          MaxTime         \* bound: the clock

DelegationAssumption ==
  {Tasks, MaxCalls, Window} \subseteq Nat \ {0} /\ {MaxConcurrency, MaxTime} \subseteq Nat

VARIABLES call,    \* call -> where it is and who made it
          task,    \* call -> task -> its specification, state and result
          skills,  \* how the runs ended that left a skill
          window,  \* the calls whose times are in the limiter's list
          ran,     \* call that the gate let through -> when
          now

vars == <<call, task, skills, window, ran, now>>

Jobs == 1..Tasks
Specs == {"plain", "emitting", "malformed", "unknown"}
Texts == {"good", "error", "empty"}
Message(from, text) == [from |-> from, text |-> text]

Init == /\ call = [c \in Calls |-> [at |-> "unmade", by |-> "lead"]]
        /\ task = [c \in Calls |-> << >>]
        /\ skills = {} /\ window = {} /\ ran = << >> /\ now = 0

(***************************************************************************)
(* The gate: RateLimiter.check prunes the list, then counts it.            *)
(***************************************************************************)
Recent(calls) == {c \in calls : ran[c] > now - Window}

Enforce(c, specs) ==
  LET recent == Recent(window)
  IN IF Cardinality(recent) >= MaxCalls
     THEN /\ window' = recent
          /\ call' = [call EXCEPT ![c] = [at |-> "blocked", by |-> "lead"]]
          /\ UNCHANGED <<task, ran>>
     ELSE /\ window' = recent \cup {c}
          /\ ran' = [d \in DOMAIN ran \cup {c} |-> IF d = c THEN now ELSE ran[d]]
          /\ call' = [call EXCEPT ![c] = [at |-> "running", by |-> "lead"]]
          /\ task' = [task EXCEPT ![c] = specs]

New(specs) == [j \in Jobs |-> [spec |-> specs[j], at |-> "queued", out |-> "nothing"]]

TaskBatch(c, specs) ==
  /\ call[c].at = "unmade"
  /\ Enforce(c, New(specs))
  /\ UNCHANGED <<skills, now>>

(* run_manual_subagent_batch: no gate, and no skill index is handed on. *)
ManualBatch(c, specs) ==
  /\ call[c].at = "unmade"
  /\ call' = [call EXCEPT ![c] = [at |-> "running", by |-> "operator"]]
  /\ task' = [task EXCEPT ![c] = New(specs)]
  /\ UNCHANGED <<skills, window, ran, now>>

(***************************************************************************)
(* One task.  A malformed one is answered before it asks for the           *)
(* semaphore; an unknown subagent after.                                   *)
(***************************************************************************)
Finish(c, j, out) == task' = [task EXCEPT ![c][j] = [spec |-> "answered", at |-> "done", out |-> out]]

Refuse(c, j) ==
  /\ call[c].at = "running" /\ task[c][j].at = "queued" /\ task[c][j].spec = "malformed"
  /\ Finish(c, j, "error")
  /\ UNCHANGED <<call, skills, window, ran, now>>

\* Mutation: a configured concurrency of zero is taken as it is.
PermitsBug == MaxConcurrency

Permits == Max({1, MaxConcurrency})
Running(c) == {j \in DOMAIN task[c] : task[c][j].at = "running"}

Acquire(c, j) ==
  /\ call[c].at = "running" /\ task[c][j].at = "queued" /\ task[c][j].spec # "malformed"
  /\ Cardinality(Running(c)) < Permits
  /\ IF task[c][j].spec = "unknown" THEN Finish(c, j, "error")
     ELSE task' = [task EXCEPT ![c][j].at = "running"]
  /\ UNCHANGED <<call, skills, window, ran, now>>

(* What a subagent run can leave: the prompt, perhaps a tool's answer, and *)
(* the model's last message.                                               *)
Histories ==
  {<<Message("prompt", "good")>> \o tools \o <<Message("model", t)>> :
     tools \in {<< >>} \cup {<<Message("tool", u)>> : u \in Texts}, t \in Texts}

(* The last message that is not empty and does not start with "Error". *)
Body(msgs) ==
  LET usable == {i \in DOMAIN msgs : msgs[i].text = "good"}
  IN IF usable = {} THEN "nothing" ELSE msgs[Max(usable)].from

Used(msgs) == \E i \in DOMAIN msgs : msgs[i].from = "tool"

Emits(c, j, msgs) ==
  /\ task[c][j].spec = "emitting" /\ Used(msgs) /\ call[c].by = "lead"
  /\ Body(msgs) # "nothing"

SubagentEnds(c, j, msgs) ==
  /\ j \in Running(c)
  /\ Finish(c, j, Body(msgs))
  /\ skills' = IF Emits(c, j, msgs) THEN skills \cup {msgs[Len(msgs)].text} ELSE skills
  /\ UNCHANGED <<call, window, ran, now>>

(* Anything it raises, the recursion limit included, is its result. *)
SubagentRaises(c, j) ==
  /\ j \in Running(c) /\ Finish(c, j, "error")
  /\ UNCHANGED <<call, skills, window, ran, now>>

(* gather() has every result. *)
BatchReturns(c) ==
  /\ call[c].at = "running" /\ \A j \in Jobs : task[c][j].at = "done"
  /\ call' = [call EXCEPT ![c].at = "returned"]
  /\ task' = [task EXCEPT ![c] = << >>]
  /\ UNCHANGED <<skills, window, ran, now>>

(* The turn is cancelled: gather() cancels the tasks that are not done. *)
Cancel(c) ==
  /\ call[c].at = "running"
  /\ call' = [call EXCEPT ![c].at = "cancelled"]
  /\ task' = [task EXCEPT ![c] = << >>]
  /\ UNCHANGED <<skills, window, ran, now>>

Tick == now < MaxTime /\ now' = now + 1 /\ UNCHANGED <<call, task, skills, window, ran>>

Next ==
  \/ \E c \in Calls :
       \/ \E specs \in [Jobs -> Specs] : TaskBatch(c, specs) \/ ManualBatch(c, specs)
       \/ BatchReturns(c) \/ Cancel(c)
       \/ \E j \in DOMAIN task[c] :
            \/ Refuse(c, j) \/ Acquire(c, j) \/ SubagentRaises(c, j)
            \/ \E msgs \in Histories : SubagentEnds(c, j, msgs)
  \/ Tick

Spec == Init /\ [][Next]_vars

(***************************************************************************)
(* Properties                                                              *)
(***************************************************************************)
(* Calls, tasks and the limiter's times have their types. *)
TypeOK ==
  /\ \A c \in Calls : call[c].at \in {"unmade", "blocked", "running", "returned", "cancelled"}
  /\ skills \subseteq Texts
  /\ \A c \in Calls : \A j \in DOMAIN task[c] : task[c][j].spec \in Specs \cup {"answered"}
  /\ window \subseteq DOMAIN ran /\ DOMAIN ran \subseteq Calls
  /\ \A c \in DOMAIN ran : ran[c] \in 0..now

(* The gate lets at most MaxCalls calls through in any stretch of Window ticks,  *)
(* though only the calls it let through are remembered and the list is      *)
(* pruned as it goes.                                                       *)
WindowHeld ==
  \A t \in 0..now : Cardinality({c \in DOMAIN ran : t - Window < ran[c] /\ ran[c] <= t}) <= MaxCalls

(* "Individual failures are reported inline and do not abort the batch": at *)
(* no point, whatever failed and however the concurrency is configured,     *)
(* does a batch wait with nothing to wait for; nor does it exceed the cap.  *)
BatchMoves ==
  \A c \in Calls : call[c].at = "running" =>
    \/ \A j \in Jobs : task[c][j].at = "done"
    \/ Running(c) # {} /\ Cardinality(Running(c)) <= Max({1, MaxConcurrency})
    \/ \E j \in Jobs : task[c][j].at = "queued" /\ Cardinality(Running(c)) < Permits

(* Neither the rate limit nor the batch gives way or gets stuck. *)
DelegationSound == WindowHeld /\ BatchMoves

(* Not so: "no artifact is emitted on failure": a subagent that ended with an error *)
(* leaves no skill.                                                         *)
NoSkillOnFailure == skills \subseteq {"good"}

(* Not so: "run a single subagent delegation and return its output text".  *)
OutputIsOwn ==
  \A c \in Calls : \A j \in DOMAIN task[c] : task[c][j].out \notin {"prompt", "tool"}
=============================================================================
