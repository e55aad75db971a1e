----------------------------- MODULE ChatStream -----------------------------
(***************************************************************************)
(* What a turn shows: the dispatch of a chat message and the stream of its *)
(* text (server/chat.py), the protocol of <output> and the reasoning tags  *)
(* (graph/output_format.py), and the answer artifact that the A2A executor *)
(* fills from the stream (a2a_executor.py).                                *)
(*                                                                         *)
(* The model's text is a sequence of items: words, a literal "<", tags, a  *)
(* tag that is only begun, and closed blocks that the reader must not see  *)
(* (scratch pad, confidence).  Usage frames, tool cards of the model's own *)
(* tools and everything about tasks and threads are in other modules.      *)
(***************************************************************************)
EXTENDS Naturals, FiniteSets, Sequences, SequencesExt

CONSTANTS
  Items,      \* what the model may write, of AllItems
  MaxItems,   \* bound on the items of a turn
  MaxRuns,    \* bound on its model runs
  Steps       \* bound on the steps of a workflow

Tags == {"output", "endoutput", "think", "endthink", "scratch", "block"}
AllItems == Tags \union {"word", "lt"}

StreamAssumption ==
  /\ Items \subseteq AllItems
  /\ MaxItems \in Nat /\ MaxRuns \in Nat /\ Steps \in Nat

VARIABLES
  via,      \* "stream" (A2A) or "plain" (/api/chat)
  pc,       \* where the turn is
  phase,    \* which of its model runs: the first, the kicker's retry, a goal's
  raw,      \* accumulated_raw of this run
  shown,    \* what of it was yielded as text frames
  budget,   \* items and runs left
  final,    \* final_text
  noted,    \* a goal verdict is to be appended
  sent,     \* the executor: all text frames, those not flushed, the artifact
  runner,   \* the task of a workflow command
  queue,    \* step_q
  cards     \* tool cards the reader sees as running

vars == <<via, pc, phase, raw, shown, budget, final, noted, sent, runner, queue, cards>>
modelVars == <<phase, raw, shown, budget, final, noted>>
flowVars == <<runner, queue, cards>>

NoRunner == [at |-> "none", todo |-> {}, busy |-> {}]
Silent == [all |-> <<>>, buf |-> <<>>, art |-> <<>>, started |-> FALSE]
Ends == {"done", "parked", "failed", "left"}

TypeOK ==
  /\ via \in {"stream", "plain"}
  /\ pc \in {"new", "model", "judge", "drain", "worker"} \union Ends
  /\ phase \in {"first", "kicker", "goal"}
  /\ Len(raw) <= MaxItems
  /\ sent.art \o sent.buf = sent.all \/ pc = "done"
  /\ budget \in [items : 0..MaxItems, runs : 0..MaxRuns]
  /\ noted \in BOOLEAN
  /\ runner.at \in {"none", "running", "finished", "raised"}
  /\ runner.todo \intersect runner.busy = {} /\ cards \subseteq 0..Steps
  /\ Len(queue) <= 2 * Steps + 1

Init ==
  /\ via \in {"stream", "plain"}
  /\ pc = "new" /\ phase = "first"
  /\ raw = <<>> /\ shown = <<>> /\ final = <<>>
  /\ budget = [items |-> MaxItems, runs |-> MaxRuns]
  /\ noted = FALSE
  /\ sent = Silent
  /\ runner = NoRunner /\ queue = <<>> /\ cards = {}
-----------------------------------------------------------------------------
(* The output protocol *)

After(s, i) == SubSeq(s, i + 1, Len(s))
At(s, x) == SelectInSeq(s, LAMBDA y : y = x)
\* The items of s that are in the places D, in order.
Nth(D, k) == CHOOSE i \in D : Cardinality({j \in D : j <= i}) = k
Kept(s, D) == [k \in 1..Cardinality(D) |-> s[Nth(D, k)]]

\* Inside <think>; and inside one that is closed.
Thinking(s, i) ==
  \E j \in 1..i : s[j] = "think" /\ \A k \in j+1..i-1 : s[k] # "endthink"
ThoughtOver(s, i) == Thinking(s, i) /\ \E k \in i..Len(s) : s[k] = "endthink"

Open(s) == {i \in 1..Len(s) : ~Thinking(s, i)}

\* _strip_reasoning_balanced, _strip_reasoning: closed reasoning goes; the full
\* variant takes what is open too, up to the end.
StripBalanced(s) ==
  Kept(s, {i \in 1..Len(s) : ~ThoughtOver(s, i) /\ s[i] \notin {"endthink", "block"}})
Strip(s) ==
  LET bare == Kept(s, {i \in Open(s) : s[i] \notin {"endthink", "block"}})
      open == At(bare, "scratch")
  IN IF open = 0 THEN bare ELSE SubSeq(bare, 1, open - 1)

Body(s) == After(s, At(s, "output"))
UpToClose(s) == IF At(s, "endoutput") = 0 THEN s ELSE SubSeq(s, 1, At(s, "endoutput") - 1)

\* Text from the last "<" on, if nothing closes it.
HeldBack(s) ==
  LET k == SelectLastInSeq(s, LAMBDA y : y # "word")
  IN IF k # 0 /\ s[k] \in {"lt", "part"} THEN SubSeq(s, 1, k - 1) ELSE s

\* Mutation: a tag that is only begun is shown.
VisibleBug(s) ==
  IF At(s, "output") = 0 THEN <<>>
  ELSE LET body == UpToClose(Body(s)) IN Kept(body, Open(body))

\* stream_visible_output.
Visible(s) ==
  IF At(s, "output") = 0 THEN <<>>
  ELSE LET body == UpToClose(Body(s)) IN HeldBack(Kept(body, Open(body)))

Closed(s) == At(s, "output") # 0 /\ At(Body(s), "endoutput") # 0

\* extract_output: the closed block, else what follows <output>, else all of it.
Extract(s) ==
  LET closed == IF Closed(s) THEN StripBalanced(UpToClose(Body(s))) ELSE <<>>
      orphan == IF At(s, "output") # 0 THEN Strip(Body(s)) ELSE <<>>
  IN IF closed # <<>> THEN closed ELSE IF orphan # <<>> THEN orphan ELSE Strip(s)

\* is_dropped_scratch_turn.
Dropped(s) ==
  At(s, "output") = 0 /\ \E i \in DOMAIN s : s[i] \in {"scratch", "think", "block"}
-----------------------------------------------------------------------------
(* Dispatch *)

\* Without a graph both entries answer that setup is required.
Refuse ==
  /\ pc = "new"
  /\ pc' = "failed"
  /\ UNCHANGED <<via, modelVars, sent, flowVars>>

Run(ph) ==
  /\ budget.runs > 0
  /\ budget' = [budget EXCEPT !.runs = @ - 1]
  /\ pc' = "model" /\ phase' = ph /\ raw' = <<>> /\ shown' = <<>>

\* No command: the message starts a run of the graph.
Ask ==
  /\ pc = "new"
  /\ Run("first")
  /\ UNCHANGED <<via, final, noted, sent, flowVars>>

\* The executor on `done`: buffered text is flushed; the answer is put into the
\* artifact only if none of it was streamed.
Closing(text) ==
  LET art == sent.art \o sent.buf
  IN sent' = [sent EXCEPT !.buf = <<>>,
                          !.art = IF sent.started \/ sent.buf # <<>> THEN art
                                  ELSE IF text # <<>> THEN text ELSE sent.all]

Reply(text) == pc' = "done" /\ final' = text /\ Closing(text)

\* /goal, and a subagent command without a prompt: answered at once.
Command ==
  /\ pc = "new"
  /\ Reply(<<"word">>)
  /\ UNCHANGED <<via, phase, raw, shown, budget, noted, flowVars>>

\* /<workflow>: the stream starts a task for it and reads its events; the plain
\* entry awaits it.
Workflow ==
  /\ pc = "new" /\ via = "stream"
  /\ pc' = "drain"
  /\ \E n \in 0..Steps : runner' = [at |-> "running", todo |-> 1..n, busy |-> {}]
  /\ cards' = {0}
  /\ UNCHANGED <<via, modelVars, sent, queue>>

\* /<subagent>: the stream only.
Worker ==
  /\ pc = "new" /\ via = "stream"
  /\ pc' = "worker" /\ cards' = {0}
  /\ UNCHANGED <<via, modelVars, sent, runner, queue>>

\* The worker's text, stripped, else as it came, else a placeholder.
WorkerEnds ==
  /\ pc = "worker"
  /\ cards' = {}
  /\ Reply(<<"word">>)
  /\ UNCHANGED <<via, phase, raw, shown, budget, noted, runner, queue>>
-----------------------------------------------------------------------------
(* A workflow command *)

\* A step of the recipe begins or ends. It does not raise: _run_subagent turns its
\* errors into text.
StepBegins(i) ==
  /\ runner.at = "running" /\ i \in runner.todo
  /\ runner' = [runner EXCEPT !.todo = @ \ {i}, !.busy = @ \union {i}]
  /\ queue' = Append(queue, <<"start", i>>)
  /\ UNCHANGED <<via, pc, modelVars, sent, cards>>

StepEnds(i) ==
  /\ runner.at = "running" /\ i \in runner.busy
  /\ runner' = [runner EXCEPT !.busy = @ \ {i}]
  /\ queue' = Append(queue, <<"end", i>>)
  /\ UNCHANGED <<via, pc, modelVars, sent, cards>>

\* The run returns (a refused recipe is a reply too) or raises; either way it says
\* so in the queue.
RunnerEnds(ok) ==
  /\ runner.at = "running" /\ runner.busy = {}
  /\ ok => runner.todo = {}
  /\ runner' = [runner EXCEPT !.at = IF ok THEN "finished" ELSE "raised"]
  /\ queue' = Append(queue, <<"over", 0>>)
  /\ UNCHANGED <<via, pc, modelVars, sent, cards>>

\* The stream takes an event: a card opens or closes; after the last one it takes
\* the run's result, or what it raised.
Drain ==
  /\ pc = "drain" /\ queue # <<>>
  /\ queue' = Tail(queue)
  /\ CASE Head(queue)[1] = "start" ->
            cards' = cards \union {Head(queue)[2]}
            /\ UNCHANGED <<pc, final, sent>>
       [] Head(queue)[1] = "end" ->
            cards' = cards \ {Head(queue)[2]}
            /\ UNCHANGED <<pc, final, sent>>
       [] Head(queue)[1] = "over" /\ runner.at = "finished" ->
            cards' = cards \ {0} /\ Reply(<<"word">>)
       [] Head(queue)[1] = "over" /\ runner.at = "raised" ->
            pc' = "failed" /\ UNCHANGED <<final, sent, cards>>
  /\ UNCHANGED <<via, phase, raw, shown, budget, noted, runner>>
-----------------------------------------------------------------------------
(* A run of the graph *)

\* A text frame: the executor adds it to its buffer, and flushes the buffer when it
\* is long enough.
Frame(delta) ==
  IF delta = <<>> THEN UNCHANGED sent
  ELSE \E flush \in BOOLEAN :
         sent' = [all |-> sent.all \o delta,
                  buf |-> IF flush THEN <<>> ELSE sent.buf \o delta,
                  art |-> IF flush THEN sent.art \o sent.buf \o delta ELSE sent.art,
                  started |-> sent.started \/ flush]

\* The model writes an item, or the beginning of a tag that the next chunk completes.
Write(x) ==
  LET half == raw # <<>> /\ Last(raw) = "part"
      text == Append(IF half THEN Front(raw) ELSE raw, x)
      seen == Visible(text)
      delta == IF via = "stream" THEN After(seen, Len(shown)) ELSE <<>>
  IN /\ pc = "model"
     /\ half => x \in Tags
     /\ half \/ budget.items > 0
     /\ raw' = text
     /\ budget' = [budget EXCEPT !.items = IF half THEN @ ELSE @ - 1]
     /\ shown' = shown \o delta
     /\ Frame(delta)
     /\ UNCHANGED <<via, pc, phase, final, noted, flowVars>>

\* The run asks a question: what is buffered is flushed, the task is parked, and the
\* stream is closed. The plain entry does not look for questions.
Pause ==
  /\ pc = "model" /\ via = "stream"
  /\ pc' = "parked"
  /\ sent' = [sent EXCEPT !.art = @ \o sent.buf, !.buf = <<>>,
                          !.started = @ \/ sent.buf # <<>>]
  /\ UNCHANGED <<via, modelVars, flowVars>>

Drops == phase = "first" /\ via = "stream" /\ Extract(raw) = <<>> /\ Dropped(raw)

\* Reasoning only: the kicker is sent, once.
Retry ==
  /\ pc = "model" /\ Drops
  /\ Run("kicker")
  /\ final' = <<>>
  /\ UNCHANGED <<via, noted, sent, flowVars>>

\* The run ends; an empty answer of a retry or a goal's run changes nothing.
RunEnds ==
  /\ pc = "model" /\ ~Drops
  /\ pc' = "judge"
  /\ final' = IF phase = "first" \/ Extract(raw) # <<>> THEN Extract(raw) ELSE final
  /\ UNCHANGED <<via, phase, raw, shown, budget, noted, sent, flowVars>>

\* The session's goal is judged (GoalMode) and the run is continued.
Continue ==
  /\ pc = "judge"
  /\ Run("goal")
  /\ noted' = TRUE
  /\ UNCHANGED <<via, final, sent, flowVars>>

\* The turn ends: without a goal, with a verdict of its own, or with that of the
\* evaluation before.
Answer(verdict) ==
  LET note == IF noted \/ verdict THEN <<"note">> ELSE <<>>
  IN /\ pc = "judge"
     /\ Reply(final \o note)
     /\ noted' = (noted \/ verdict)
     /\ UNCHANGED <<via, phase, raw, shown, budget, flowVars>>

\* Something raises, or the reader goes away; a workflow goes on without it.
Break(end) ==
  /\ pc \notin Ends
  /\ pc' = end
  /\ UNCHANGED <<via, modelVars, sent, flowVars>>
-----------------------------------------------------------------------------
Next ==
  \/ Refuse \/ Ask \/ Command \/ Workflow \/ Worker \/ WorkerEnds
  \/ \E i \in 1..Steps : StepBegins(i) \/ StepEnds(i)
  \/ \E ok \in BOOLEAN : RunnerEnds(ok)
  \/ Drain
  \/ \E x \in Items \union {"part"} : Write(x)
  \/ Pause \/ Retry \/ RunEnds \/ Continue
  \/ \E verdict \in BOOLEAN : Answer(verdict)
  \/ \E end \in {"failed", "left"} : Break(end)

Spec == Init /\ [][Next]_vars
-----------------------------------------------------------------------------
(* Safety *)

\* What the model has written so far keeps its reasoning out of its output.
Tidy(s) ==
  /\ ~\E i \in DOMAIN s : s[i] = "output" /\ (Thinking(s, i) \/ \E j \in 1..i : s[j] = "scratch")
  /\ At(s, "output") # 0 =>
       LET shows == UpToClose(Body(s))
       IN \A i \in DOMAIN shows :
            /\ shows[i] \notin {"block", "scratch"}
            /\ IF Closed(s) THEN Thinking(shows, i) => ThoughtOver(shows, i) ELSE TRUE
            /\ shows[i] = "endthink" => Thinking(shows, i)

\* In a turn of one answer, what the reader was shown as it was written begins the
\* final answer: no half tag, no reasoning, no text of a dropped run, and no chunk
\* twice; what is missing is a tail from a "<" on. This is so as long as the model
\* keeps its reasoning out of its output.
ShownIsAnswer ==
  pc = "judge" /\ phase # "goal" /\ via = "stream" /\ Tidy(raw) =>
    /\ IsPrefix(sent.all, final)
    /\ Closed(raw) /\ StripBalanced(UpToClose(Body(raw))) # <<>> => IsPrefix(HeldBack(final), sent.all)

\* A stream that waits for a step's event will get one.
NeverWaits == pc = "drain" /\ queue = <<>> => runner.at = "running"

\* An answer leaves no tool card running.
CardsClose == pc = "done" => cards = {}

StreamShown == ShownIsAnswer /\ NeverWaits /\ CardsClose

\* Not so: "the terminal emission then REPLACES this artifact ... with the canonical final
\* text" (a2a_executor.py:231-236): a completed task carries the final text.
ArtifactIsAnswer == pc = "done" /\ via = "stream" => sent.art = final
=============================================================================
