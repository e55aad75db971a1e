------------------------------- MODULE EvalRun ------------------------------
(***************************************************************************)
(* The evaluation harness: evals/runner.py, its client (client.py), its    *)
(* verifiers (verify.py) and the sweep over models (sweep.py), against a   *)
(* running agent whose turns write the audit log and the knowledge base.   *)
(*                                                                         *)
(* The client gives up waiting, and the turn runs on.  A tool's firing is  *)
(* attributed to a case by time alone; time is the length of the log.  A   *)
(* sweep boots an agent of its own for each model (on a free port), with   *)
(* an instance id that scopes what the agent stores.                       *)
(***************************************************************************)
EXTENDS Naturals, Sequences

CONSTANTS
  Suites,     \* sequences of cases; one is run, and run again
  Tools,
  Repeat,     \* runs of the suite on one agent
  MaxAgents,  \* agents a sweep boots, one per model
  MaxLog,     \* bound on tool calls
  Unset       \* a case without the key

Kinds == {"ask", "stream", "workflow", "goal", "probe"}
Case == [id : Nat, kind : Kinds, tools : {Unset} \union SUBSET Tools, any : SUBSET Tools,
         seeds : BOOLEAN, finds : BOOLEAN, clears : BOOLEAN, unmet : BOOLEAN]
(* As in tasks.json: a case that looks for a fact seeds none, and clears it *)
(* away, as do the others of its id.                                       *)
EvalAssumption ==
  /\ Suites \subseteq Seq(Case)
  /\ \A s \in Suites : \A i, j \in DOMAIN s :
       s[i].finds /\ s[j].id = s[i].id => ~s[i].seeds /\ s[j].clears
  /\ Repeat \in Nat \ {0} /\ MaxAgents \in Nat /\ MaxLog \in Nat

VARIABLES
  suite, sweep,
  turns,      \* turns of the agent under test: case, state, goal it has loaded
  log,        \* its audit entries, oldest first
  rows,       \* knowledge of a case: put there by a turn, or 0 for the setup
  goals,      \* status of each goal case's pinned session, and the turn that set it
  queue,      \* cases of this run still to come
  run, agents,
  cur,        \* the case being run
  results,    \* of this run of the suite
  waited      \* history: no answer of this agent was given up on

server == <<turns, log, rows, goals>>
client == <<suite, sweep, queue, run, agents>>
vars == <<server, client, cur, results, waited>>

Ids(s) == {s[i].id : i \in DOMAIN s}
NoGoal == [st |-> "none", by |-> 0]
Idle == [pc |-> "idle"]
Cur(pc, c) == [pc |-> pc, case |-> c, mark |-> 0, turn |-> 0, passed |-> FALSE, own |-> TRUE,
                quiet |-> TRUE]
Goto(pc) == cur' = [cur EXCEPT !.pc = pc]

TypeOK ==
  /\ suite \in Suites /\ {sweep, waited} \subseteq BOOLEAN
  /\ \A t \in DOMAIN turns :
       turns[t].st \in {"running", "completed", "failed", "input_required"}
  /\ \A i \in DOMAIN log : log[i].by \in DOMAIN turns /\ log[i].tool \in Tools
  /\ rows \subseteq [of : Ids(suite), by : 0..Len(turns)]
  /\ \A c \in Ids(suite) : goals[c].st \in {"none", "active", "achieved", "exhausted"}
  /\ run \in 1..Repeat /\ agents \in 0..MaxAgents /\ Len(log) <= MaxLog
  /\ cur.pc \in {"idle", "clear", "set", "setup", "send", "wait", "judge", "teardown"}
  /\ Len(results) + Len(queue) <= Len(suite)

Init ==
  /\ suite \in Suites /\ sweep \in BOOLEAN
  /\ turns = <<>> /\ log = <<>> /\ rows = {}
  /\ goals = [c \in Ids(suite) |-> NoGoal]
  /\ queue = suite /\ run = 1 /\ agents = 0
  /\ cur = Idle /\ results = <<>> /\ waited = TRUE
-----------------------------------------------------------------------------
(* The agent.                                                              *)

(* A tool call of a turn: AuditMiddleware logs it when it is over.  One    *)
(* that stores what the case is about does so first.                       *)
ToolCall(t) ==
  /\ turns[t].st = "running" /\ Len(log) < MaxLog
  /\ \E tool \in Tools, ok \in BOOLEAN, stored \in BOOLEAN :
       /\ stored => ok /\ turns[t].case.finds
       /\ log' = Append(log, [by |-> t, tool |-> tool, ok |-> ok])
       /\ rows' = IF stored THEN rows \union {[of |-> turns[t].case.id, by |-> t]} ELSE rows
  /\ UNCHANGED <<turns, goals, client, cur, results, waited>>

(* The goal loop of a turn loads the active goal, verifies, and saves.     *)
LoadGoal(t) ==
  /\ turns[t].st = "running" /\ ~turns[t].goal
  /\ goals[turns[t].case.id].st = "active"
  /\ turns' = [turns EXCEPT ![t].goal = TRUE]
  /\ UNCHANGED <<log, rows, goals, client, cur, results, waited>>

EndTurn(t) ==
  /\ turns[t].st = "running"
  /\ \/ /\ turns[t].goal
        /\ \E st \in {"achieved", "exhausted"} :
             goals' = [goals EXCEPT ![turns[t].case.id] = [st |-> st, by |-> t]]
        /\ turns' = [turns EXCEPT ![t].st = "completed"]
     \/ /\ ~turns[t].goal
        /\ \E st \in {"completed", "failed", "input_required"} :
             /\ st = "completed" => goals[turns[t].case.id].st # "active"
             /\ turns' = [turns EXCEPT ![t].st = st]
        /\ UNCHANGED goals
  /\ UNCHANGED <<log, rows, client, cur, results, waited>>
-----------------------------------------------------------------------------
(* The runner: one case after the other.                                   *)

Result(passed, skipped, c) ==
  [case |-> c.case, passed |-> passed, skipped |-> skipped, own |-> c.own, quiet |-> c.quiet]
Report(r) == results' = Append(results, r)

(* A prerequisite in the environment is missing: skipped, which counts as  *)
(* passed.                                                                 *)
Skip ==
  /\ cur = Idle /\ queue # <<>> /\ Head(queue).unmet
  /\ queue' = Tail(queue)
  /\ Report(Result(TRUE, TRUE, Cur("idle", Head(queue))))
  /\ UNCHANGED <<server, suite, sweep, run, agents, cur, waited>>

(* The agent card and the refusal of a bad token: one request each.        *)
Probe ==
  /\ cur = Idle /\ queue # <<>> /\ ~Head(queue).unmet /\ Head(queue).kind = "probe"
  /\ queue' = Tail(queue)
  /\ \E passed \in BOOLEAN :
       Report(Result(passed, FALSE, Cur("idle", Head(queue))))
  /\ UNCHANGED <<server, suite, sweep, run, agents, cur, waited>>

Start ==
  /\ cur = Idle /\ queue # <<>> /\ ~Head(queue).unmet
  /\ LET c == Head(queue)
     IN \/ c.kind \in {"ask", "stream"} /\ cur' = Cur("setup", c)
        \/ c.kind = "workflow" /\ cur' = Cur("send", c)
        \/ c.kind = "goal" /\ cur' = Cur("clear", c)
  /\ queue' = Tail(queue)
  /\ UNCHANGED <<server, suite, sweep, run, agents, results, waited>>

(* A seed that cannot be stored fails the case; those before it stay until *)
(* the teardown.                                                           *)
ApplySetup ==
  /\ cur.pc = "setup"
  /\ \/ /\ rows' = IF cur.case.seeds THEN rows \union {[of |-> cur.case.id, by |-> 0]} ELSE rows
        /\ Goto("send")
     \/ /\ cur.case.seeds
        /\ \E kept \in SUBSET {[of |-> cur.case.id, by |-> 0]} : rows' = rows \union kept
        /\ Goto("teardown")
  /\ UNCHANGED <<turns, log, goals, client, results, waited>>

(* A goal case starts from a clean slate, then gives the /goal command; a  *)
(* call that fails fails the case.                                         *)
ClearGoal ==
  /\ cur.pc = "clear"
  /\ \/ goals' = [goals EXCEPT ![cur.case.id] = NoGoal] /\ Goto("set")
     \/ UNCHANGED goals /\ Goto("teardown")
  /\ UNCHANGED <<turns, log, rows, client, results, waited>>

SetGoal ==
  /\ cur.pc = "set"
  /\ \/ goals' = [goals EXCEPT ![cur.case.id] = [st |-> "active", by |-> 0]] /\ Goto("send")
     \/ UNCHANGED goals /\ Goto("teardown")
  /\ UNCHANGED <<turns, log, rows, client, results, waited>>

(* audit_now, then SendMessage, SendStreamingMessage or the workflow call. *)
Send ==
  /\ cur.pc = "send"
  /\ turns' = Append(turns, [case |-> cur.case, st |-> "running", goal |-> FALSE])
  /\ cur' = [cur EXCEPT !.pc = "wait", !.mark = Len(log), !.turn = Len(turns) + 1]
  /\ UNCHANGED <<log, rows, goals, client, results, waited>>

(* What the runner does with a finished turn.                              *)
Settled == IF turns[cur.turn].st = "completed" THEN "judge" ELSE "teardown"

(* A stream is followed to a final event; it may break off before, and     *)
(* with no final event the case has failed.                                *)
AnswerStreamed ==
  /\ cur.pc = "wait" /\ cur.case.kind = "stream"
  /\ \/ turns[cur.turn].st # "running" /\ Goto(Settled) /\ UNCHANGED waited
     \/ Goto("teardown") /\ waited' = (waited /\ turns[cur.turn].st # "running")
  /\ UNCHANGED <<server, client, results>>

AnswerPolled ==
  /\ cur.pc = "wait" /\ cur.case.kind # "stream" /\ turns[cur.turn].st # "running"
  /\ Goto(Settled)
  /\ UNCHANGED <<server, client, results, waited>>

(* The budget of the case is spent.  Nothing cancels the turn.             *)
GiveUp ==
  /\ cur.pc = "wait" /\ turns[cur.turn].st = "running"
  /\ Goto("teardown")
  /\ waited' = FALSE
  /\ UNCHANGED <<server, client, results>>

(* The log is read without the instance id: a sweep never sees its agent's.*)
EntriesSince(mark) == IF sweep THEN {} ELSE {log[i] : i \in mark + 1..Len(log)}

Fired(tool, entries) == \E e \in entries : e.tool = tool /\ e.ok

(* expected_tools: an empty list asserts nothing, like no list.            *)
ToolsFired(c, entries) == \A tool \in (IF c.tools = Unset THEN {} ELSE c.tools) : Fired(tool, entries)
AnyFired(c, entries) == c.any = {} \/ \E tool \in c.any : Fired(tool, entries)

(* What the case asserts of the log, the knowledge base and the goal (that *)
(* it is achieved, say).                                                   *)
Holds(c, entries) ==
  /\ ToolsFired(c, entries) /\ AnyFired(c, entries)
  /\ c.finds => \E r \in rows : r.of = c.id
  /\ c.kind = "goal" => goals[c.id].st = "achieved"

(* The same, of the case's own turn.                                       *)
Own(c, t) ==
  LET mine == {log[i] : i \in {j \in DOMAIN log : log[j].by = t}}
  IN /\ ToolsFired(c, mine) /\ AnyFired(c, mine)
     /\ c.finds => [of |-> c.id, by |-> t] \in rows
     /\ c.kind = "goal" => goals[c.id].by = t

(* The log is polled until it satisfies the case or two seconds have gone; *)
(* then come the text, the rubric and the kinds of events.                 *)
Judge ==
  /\ cur.pc = "judge"
  /\ \E rest \in BOOLEAN :
       cur' = [cur EXCEPT !.pc = "teardown",
                          !.passed = rest /\ Holds(cur.case, EntriesSince(cur.mark)),
                          !.own = Own(cur.case, cur.turn) \/ ~waited,
                          !.quiet = \A i \in DOMAIN log : log[i].by # cur.turn]
  /\ UNCHANGED <<server, client, results, waited>>

\* Mutation: only what passed is cleared away.
TeardownBug ==
  /\ cur.pc = "teardown"
  /\ rows' = IF cur.case.clears /\ cur.passed THEN {r \in rows : r.of # cur.case.id} ELSE rows
  /\ goals' = [goals EXCEPT ![cur.case.id] = NoGoal]
  /\ Report(Result(cur.passed, FALSE, cur))
  /\ cur' = Idle
  /\ UNCHANGED <<turns, log, client, waited>>

(* The finally block: whatever came of the case.                           *)
Teardown ==
  /\ cur.pc = "teardown"
  /\ rows' = IF cur.case.clears THEN {r \in rows : r.of # cur.case.id} ELSE rows
  /\ \/ cur.case.kind = "goal" /\ goals' = [goals EXCEPT ![cur.case.id] = NoGoal]
     \/ UNCHANGED goals             \* no goal case, or the call failed
  /\ Report(Result(cur.passed, FALSE, cur))
  /\ cur' = Idle
  /\ UNCHANGED <<turns, log, client, waited>>

(* The report is saved, and the suite run again on the same agent.         *)
NextRun ==
  /\ cur = Idle /\ queue = <<>> /\ run < Repeat
  /\ run' = run + 1 /\ queue' = suite /\ results' = <<>>
  /\ UNCHANGED <<server, suite, sweep, agents, cur, waited>>

(* A sweep ends the agent, deletes what its instance stored and boots the  *)
(* next; one that never becomes healthy is passed over.                    *)
NextAgent ==
  /\ sweep /\ cur = Idle /\ queue = <<>> /\ run = Repeat /\ agents < MaxAgents
  /\ agents' = agents + 1
  /\ turns' = <<>> /\ log' = <<>> /\ rows' = {}
  /\ goals' = [c \in Ids(suite) |-> NoGoal]
  /\ \/ run' = 1 /\ queue' = suite
     \/ UNCHANGED <<run, queue>>
  /\ results' = <<>> /\ waited' = TRUE
  /\ UNCHANGED <<suite, sweep, cur>>

Next ==
  \/ \E t \in DOMAIN turns : ToolCall(t) \/ LoadGoal(t) \/ EndTurn(t)
  \/ Skip \/ Probe \/ Start \/ ApplySetup \/ ClearGoal \/ SetGoal \/ Send
  \/ AnswerStreamed \/ AnswerPolled \/ GiveUp \/ Judge \/ Teardown \/ NextRun \/ NextAgent

Spec == Init /\ [][Next]_vars
-----------------------------------------------------------------------------
(* A case that passes does so by what its own turn did, unless an answer   *)
(* was given up on before: no tool call, stored fact or goal of an earlier *)
(* case, run or model passes it.                                           *)
PassIsEarned ==
  \A i \in DOMAIN results : results[i].passed /\ ~results[i].skipped => results[i].own

(* Between cases nothing of a case that clears is left, unless a turn      *)
(* outlived its case: even a failed setup or a lost turn is cleared away.  *)
CleanSlate ==
  cur = Idle /\ waited =>
    \A r \in rows : \E i \in DOMAIN suite : suite[i].id = r.of /\ ~suite[i].clears

EvalSound == PassIsEarned /\ CleanSlate

(* Not so (runner.py:246-248): an explicit empty list asserts that no tools fired.          *)
AbstainMeansNone ==
  \A i \in DOMAIN results :
    results[i].passed /\ ~results[i].skipped /\ results[i].case.tools = {} => results[i].quiet
=============================================================================
