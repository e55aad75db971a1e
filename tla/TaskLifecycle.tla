---------------------------- MODULE TaskLifecycle ----------------------------
(***************************************************************************)
(* One turn per task, from the A2A message to the stored outcome:          *)
(* a2a_executor.py, which turns the chat stream into task events, the      *)
(* a2a-sdk's queue and task store behind it (external: events are stored in*)
(* order, some time after they were enqueued; nothing follows a terminal   *)
(* state), and a2a_stores.py, which at boot fails what the last process    *)
(* left unfinished and sweeps what is older than a day.                    *)
(*                                                                         *)
(* A piece of answer text is a number, in the order the model wrote it;    *)
(* Note stands for what the chat stream adds to the final text only (the   *)
(* outcome of a goal).  Tool cards, usage, confidence and deltas are the   *)
(* "extra" parts of the last artifact.  The push store, tracing and wording*)
(* are left out.                                                           *)
(***************************************************************************)
EXTENDS Naturals, Sequences

CONSTANTS
  Tasks,          \* task ids
  MaxText,        \* bound on the pieces of text written for one task
  MaxTurns        \* bound on the runs (first message and answers) of one task

LifecycleAssumption == MaxText \in Nat /\ MaxTurns \in Nat

VARIABLES
  up,             \* the process runs
  store,          \* state of the task in the task store, "absent" if no row
  text,           \* text of its answer artifact in the task store
  old,            \* tasks whose row was last updated more than 24 h ago
  queue,          \* events the executor enqueued and the SDK has not stored yet
  run,            \* the execute() coroutine of each task
  written,        \* pieces of text written for each task
  turns,          \* runs of each task
  \* History, read by the properties only.
  told,           \* outcomes the terminal hook was given, in order
  answer,         \* text the completing run streamed, or else its final text
  before,         \* text streamed before the last pause
  lost,           \* tasks of which a crash dropped a run or an event
  reconciled      \* the last boot's reconciliation succeeded

durable == <<store, text, old>>
history == <<told, answer, before, lost, reconciled>>
vars == <<up, durable, queue, run, written, turns, history>>

Protocol == INSTANCE TaskProtocol

TaskState == Protocol!TaskState
Terminal == Protocol!Terminal
Note == 0
Text == Seq(0..MaxText)

NoRun == [pc |-> "none", said |-> <<>>, buf |-> <<>>, started |-> FALSE, final |-> <<>>]
NewRun == [NoRun EXCEPT !.pc = "stream"]

Status(s) == [kind |-> "status", state |-> s]
Artifact(pieces, append) == [kind |-> "artifact", pieces |-> pieces, append |-> append]

TypeOK ==
  /\ up \in BOOLEAN
  /\ store \in [Tasks -> TaskState]
  /\ text \in [Tasks -> Text]
  /\ old \subseteq Tasks
  /\ \A t \in Tasks : \A i \in DOMAIN queue[t] :
       queue[t][i] \in [kind : {"status"}, state : TaskState]
                       \union [kind : {"artifact"}, pieces : Text, append : BOOLEAN]
  /\ run \in [Tasks -> [pc : {"none", "stream", "finalize"}, said : Text, buf : Text,
                        started : BOOLEAN, final : Text]]
  /\ written \in [Tasks -> 0..MaxText]
  /\ turns \in [Tasks -> 0..MaxTurns]
  /\ told \in [Tasks -> Seq({"completed", "failed"})]
  /\ answer \in [Tasks -> Text]
  /\ before \in [Tasks -> Text]
  /\ lost \subseteq Tasks
  /\ reconciled \in BOOLEAN

Init ==
  /\ up = FALSE
  /\ store = [t \in Tasks |-> "absent"]
  /\ text = [t \in Tasks |-> <<>>]
  /\ old = {}
  /\ queue = [t \in Tasks |-> <<>>]
  /\ run = [t \in Tasks |-> NoRun]
  /\ written = [t \in Tasks |-> 0]
  /\ turns = [t \in Tasks |-> 0]
  /\ told = [t \in Tasks |-> <<>>]
  /\ answer = [t \in Tasks |-> <<>>]
  /\ before = [t \in Tasks |-> <<>>]
  /\ lost = {}
  /\ reconciled = FALSE
-----------------------------------------------------------------------------
(* The executor *)

Enqueue(t, events) == queue' = [queue EXCEPT ![t] = @ \o events]

\* execute() begins: a new task is announced and started, a paused one started
\* again. Which of the two it is, the stored task tells.
Message(t) ==
  /\ up
  /\ run[t].pc = "none"
  /\ queue[t] = <<>>
  /\ store[t] = "input_required" \/ (store[t] = "absent" /\ turns[t] = 0)
  /\ turns[t] < MaxTurns
  /\ turns' = [turns EXCEPT ![t] = @ + 1]
  /\ run' = [run EXCEPT ![t] = NewRun]
  /\ Enqueue(t, IF store[t] = "input_required"
                THEN <<Status("working")>>
                ELSE <<Status("submitted"), Status("working")>>)
  /\ UNCHANGED <<up, durable, written, history>>

\* _flush_text: the first piece of a run opens the answer artifact, the others
\* append to it.
Flushed(r) ==
  IF r.buf = <<>> THEN <<>> ELSE <<Artifact(r.buf, r.started)>>

AfterFlush(r) ==
  IF r.buf = <<>> THEN r ELSE [r EXCEPT !.buf = <<>>, !.started = TRUE]

\* A "text" event: buffered, and flushed when the buffer is long enough.
Write(t) ==
  /\ run[t].pc = "stream"
  /\ written[t] < MaxText
  /\ written' = [written EXCEPT ![t] = @ + 1]
  /\ LET piece == written[t] + 1
         r == [run[t] EXCEPT !.said = Append(@, piece), !.buf = Append(@, piece)]
     IN \/ run' = [run EXCEPT ![t] = r] /\ UNCHANGED queue
        \/ run' = [run EXCEPT ![t] = AfterFlush(r)] /\ Enqueue(t, Flushed(r))
  /\ UNCHANGED <<up, durable, turns, history>>

\* "input_required": the task is parked and execute() returns.
Pause(t) ==
  /\ run[t].pc = "stream"
  /\ Enqueue(t, Append(Flushed(run[t]), Status("input_required")))
  /\ run' = [run EXCEPT ![t] = NoRun]
  /\ before' = [before EXCEPT ![t] = run[t].said]
  /\ UNCHANGED <<up, durable, written, turns, told, answer, lost, reconciled>>

\* "done", or the end of the stream: what is buffered is flushed, then the
\* structured finalizer may be awaited.
Done(t) ==
  /\ run[t].pc = "stream"
  /\ Enqueue(t, Flushed(run[t]))
  /\ \E f \in {run[t].said, Append(run[t].said, Note)} :
       run' = [run EXCEPT ![t] = [AfterFlush(run[t]) EXCEPT !.pc = "finalize", !.final = f]]
  /\ UNCHANGED <<up, durable, written, turns, history>>

\* _finalize: only the extra parts if the text was streamed, all of it otherwise.
FinalArtifact(r, extra) ==
  LET body == IF r.started THEN <<>> ELSE r.final
  IN IF body = <<>> /\ ~extra THEN <<>> ELSE <<Artifact(body, r.started)>>

\* Mutation: the hook is given what the store says at that moment.
TellBug(t, outcome) == told' = [told EXCEPT ![t] = Append(@, store[t])]

\* _notify_terminal
Tell(t, outcome) == told' = [told EXCEPT ![t] = Append(@, outcome)]

Complete(t) ==
  /\ run[t].pc = "finalize"
  /\ \E extra \in BOOLEAN :
       Enqueue(t, Append(FinalArtifact(run[t], extra), Status("completed")))
  /\ Tell(t, "completed")
  /\ answer' = [answer EXCEPT ![t] = IF run[t].started THEN run[t].said ELSE run[t].final]
  /\ run' = [run EXCEPT ![t] = NoRun]
  /\ UNCHANGED <<up, durable, written, turns, before, lost, reconciled>>

\* "error", or an exception out of the stream or the finalizing calls. Text that
\* was still buffered is dropped.
Fail(t) ==
  /\ run[t].pc # "none"
  /\ Enqueue(t, <<Status("failed")>>)
  /\ Tell(t, "failed")
  /\ run' = [run EXCEPT ![t] = NoRun]
  /\ UNCHANGED <<up, durable, written, turns, answer, before, lost, reconciled>>

\* Mutation: the coroutine runs on.
CancelBug(t) ==
  /\ up
  /\ store[t] \in {"submitted", "working", "input_required"}
  /\ \A i \in DOMAIN queue[t] : queue[t][i] # Status("canceled")
  /\ Enqueue(t, <<Status("canceled")>>)
  /\ UNCHANGED <<up, durable, run, written, turns, history>>

\* tasks/cancel on a task that has not ended: the SDK cancels the coroutine and
\* calls cancel(). The terminal hook is not told.
Cancel(t) ==
  /\ up
  /\ store[t] \in {"submitted", "working", "input_required"}
  /\ \A i \in DOMAIN queue[t] : queue[t][i] # Status("canceled")
  /\ Enqueue(t, <<Status("canceled")>>)
  /\ run' = [run EXCEPT ![t] = NoRun]
  /\ UNCHANGED <<up, durable, written, turns, history>>
-----------------------------------------------------------------------------
(* The SDK's event consumer and task store *)

Stored(t, e) ==
  IF e.kind = "status"
  THEN store' = [store EXCEPT ![t] = e.state] /\ UNCHANGED text
  ELSE /\ text' = [text EXCEPT ![t] = IF e.append THEN @ \o e.pieces ELSE e.pieces]
       /\ UNCHANGED store

StoreEvent(t) ==
  /\ queue[t] # <<>>
  /\ queue' = [queue EXCEPT ![t] = Tail(@)]
  /\ IF store[t] \in Terminal
     THEN UNCHANGED durable
     ELSE Stored(t, Head(queue[t])) /\ old' = old \ {t}
  /\ UNCHANGED <<up, run, written, turns, history>>
-----------------------------------------------------------------------------
(* Crash, a day without an update, and boot *)

Crash ==
  /\ up
  /\ up' = FALSE
  /\ lost' = lost \union {t \in Tasks : run[t].pc # "none" \/ queue[t] # <<>>}
  /\ run' = [t \in Tasks |-> NoRun]
  /\ queue' = [t \in Tasks |-> <<>>]
  /\ reconciled' = FALSE
  /\ UNCHANGED <<durable, written, turns, told, answer, before>>

\* Nothing was stored for this task in 24 h.
Age(t) ==
  /\ store[t] # "absent"
  /\ run[t].pc = "none" /\ queue[t] = <<>>
  /\ old' = old \union {t}
  /\ UNCHANGED <<up, store, text, queue, run, written, turns, history>>

\* Mutation: tasks that were accepted but not started yet are overlooked.
InterruptedBug == {t \in Tasks : store[t] = "working"}

\* Mutation: paused tasks are taken for interrupted ones.
InterruptedAllBug ==
  {t \in Tasks : store[t] \in {"submitted", "working", "input_required"}}

\* _INTERRUPTED_STATES
Interrupted == {t \in Tasks : store[t] \in {"submitted", "working"}}

\* initialize_a2a_stores, before the server accepts a request: reconcile, then
\* sweep. Either may fail on the database and is then skipped.
Boot ==
  /\ ~up
  /\ up' = TRUE
  /\ \E failed \in {Interrupted, {}}, sweep \in BOOLEAN :
       LET gone == IF sweep THEN old \ failed ELSE {}
       IN /\ reconciled' = (failed = Interrupted)
          /\ store' = [t \in Tasks |-> IF t \in failed THEN "failed"
                                       ELSE IF t \in gone THEN "absent" ELSE store[t]]
          /\ text' = [t \in Tasks |-> IF t \in gone THEN <<>> ELSE text[t]]
          /\ old' = old \ (failed \union gone)
  /\ UNCHANGED <<queue, run, written, turns, told, answer, before, lost>>
-----------------------------------------------------------------------------
Next ==
  \/ \E t \in Tasks : Message(t) \/ Write(t) \/ Pause(t) \/ Done(t) \/ Complete(t) \/ Fail(t)
  \/ \E t \in Tasks : Cancel(t) \/ StoreEvent(t) \/ Age(t)
  \/ Crash
  \/ Boot

Spec == Init /\ [][Next]_vars
-----------------------------------------------------------------------------
(* Safety *)

\* Nothing stays fake-active after a restart (a2a_stores.py:338-342): once a boot
\* reconciled the store, a task shown as submitted or working has a live run, or
\* an event under way that ends it.
NoFakeActive ==
  up /\ reconciled =>
    \A t \in Tasks : store[t] \in {"submitted", "working"} =>
                      run[t].pc # "none" \/ queue[t] # <<>>

\* The stored outcome is the one the terminal hook was told (telemetry, activity
\* feed), which is told once, and never of a canceled task; except for a task of
\* which a crash dropped events.
HookAgrees ==
  \A t \in Tasks \ lost :
    /\ Len(told[t]) <= 1
    /\ store[t] \in {"completed", "failed"} => told[t] = <<store[t]>>
    /\ store[t] = "canceled" => told[t] = <<>>

\* A completed task carries the answer of its last run exactly once, streamed or
\* not (a2a_executor.py:237-239): no piece twice, none missing, none out of order.
\* A task that shows as paused carries what was streamed before the pause
\* (a2a_executor.py:336).
AnswerOnce ==
  \A t \in Tasks \ lost :
    /\ store[t] = "completed" /\ answer[t] # <<>> => text[t] = answer[t]
    /\ store[t] = "input_required" /\ run[t].pc = "none" /\ queue[t] = <<>> /\ before[t] # <<>>
         => text[t] = before[t]

\* What the store says of a task is true, and everybody is told the same.
OutcomeSound == NoFakeActive /\ HookAgrees /\ AnswerOnce

\* The store only takes the steps the protocol allows.
ProtocolSpec == Protocol!Spec

\* Text persisted at a pause is still part of the answer when the resumed task
\* completes (a2a_executor.py:336). It is not: the resumed run opens the same
\* artifact anew.
PausedTextKept ==
  \A t \in Tasks \ lost :
    store[t] = "completed" =>
      \A i \in DOMAIN before[t] : \E j \in DOMAIN text[t] : text[t][j] = before[t][i]
-----------------------------------------------------------------------------
(* Liveness *)

\* The stream ends, the SDK stores what it is given, a dead process is booted; it
\* stops crashing some day, and sqlite lets the last boot reconcile.
Advance(t) == Pause(t) \/ Done(t) \/ Complete(t) \/ Fail(t)

Fairness ==
  /\ <>[][~Crash]_vars
  /\ <>[](up => reconciled)
  /\ WF_vars(Boot)
  /\ \A t \in Tasks : WF_vars(Advance(t))
                      /\ WF_vars(StoreEvent(t))

\* A task that was accepted comes to an outcome or a pause that its caller can
\* see, whatever crashes and restarts come between.
NeverStuck ==
  \A t \in Tasks : store[t] \in {"submitted", "working"}
                    ~> store[t] \notin {"submitted", "working"}
=============================================================================
