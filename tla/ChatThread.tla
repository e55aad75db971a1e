----------------------------- MODULE ChatThread -----------------------------
(***************************************************************************)
(* The conversation of a thread while turns write it and retirement        *)
(* deletes it: server/chat.py (the streaming turn of an A2A task and the   *)
(* plain turn of /api/chat), graph/checkpoint_prune.py, harvest_thread and *)
(* _retire_thread.                                                         *)
(*                                                                         *)
(* LangGraph's checkpointer is external: a run starts from the newest      *)
(* checkpoint of its thread, keeps its state to itself and saves it, input *)
(* first; a new message drops the question the thread was waiting on, a    *)
(* resume continues it, or runs nothing if there is none.  What a turn says*)
(* is one item, its own name.  The goal's verdict (GoalMode), the tool     *)
(* cards and the wording are left out.                                     *)
(***************************************************************************)
EXTENDS Naturals

CONSTANTS
  Turns,      \* turns, each an A2A task or a plain call
  Sessions,   \* session ids
  Project,    \* a thread a custom resolver maps any session to
  Nobody,
  Keep,       \* checkpoint_keep_per_thread
  MaxAge,     \* checkpoint_max_age
  Harvest,    \* checkpoint_harvest_enabled, with a store and a checkpointer
  MaxRuns,    \* bound on the model runs of one turn
  MaxTime     \* bound on the clock

ThreadAssumption ==
  /\ Nobody \notin Turns
  /\ Keep \in Nat /\ MaxAge \in Nat /\ Harvest \in BOOLEAN
  /\ MaxRuns \in Nat /\ MaxTime \in Nat

VARIABLES
  now,
  saved,      \* of each thread, the number of its checkpoints and the newest one
  turn,       \* the turns
  job,        \* the retirements: the sweep, and the deletion of a tab
  knowledge,  \* items summarised into the knowledge store
  \* History, read by the properties only.
  dropped,    \* items of threads that were deleted without a summary
  raced       \* turns that ran beside another turn or a retirement of their thread

history == <<dropped, raced>>
vars == <<now, saved, turn, job, knowledge, history>>

Threads == ({"a2a", "gradio"} \X Sessions) \union {Project}
Empty == [n |-> 0, at |-> 0, said |-> {}, ask |-> Nobody]
NewTurn == [pc |-> "new", th |-> Project, via |-> "a2a", said |-> {}, runs |-> 0,
            ask |-> Nobody]
NoJob == [pc |-> "idle", todo |-> {}, th |-> Project, read |-> {}]

TypeOK ==
  /\ now \in 0..MaxTime
  /\ saved \in [Threads -> [n : 0..Keep + 1, at : 0..MaxTime, said : SUBSET Turns,
                           ask : Turns \union {Nobody}]]
  /\ \A t \in Turns :
       /\ turn[t].pc \in {"new", "run", "snapshot", "judge", "parked", "done"}
       /\ turn[t].th \in Threads /\ turn[t].runs \in 0..MaxRuns
       /\ turn[t].ask = Nobody <=> turn[t].pc # "parked"
  /\ \A j \in {"sweep", "tab"} :
       job[j].pc \in {"idle", "next", "read", "delete"} /\ job[j].todo \subseteq Threads
  /\ knowledge \union dropped \union raced \subseteq Turns

Init ==
  /\ now = 0
  /\ saved = [th \in Threads |-> Empty]
  /\ turn = [t \in Turns |-> NewTurn]
  /\ job = [j \in {"sweep", "tab"} |-> NoJob]
  /\ knowledge = {}
  /\ dropped = {} /\ raced = {}

Tick ==
  /\ now < MaxTime
  /\ now' = now + 1
  /\ UNCHANGED <<saved, turn, job, knowledge, history>>
-----------------------------------------------------------------------------
(* Who is at work on a thread *)

Running(t) == turn[t].pc \in {"run", "snapshot", "judge"}
Retiring(th) == \E j \in DOMAIN job : job[j].pc = "delete" /\ job[j].th = th
Beside(t, th) == {u \in Turns \ {t} : Running(u) /\ turn[u].th = th}
Race(t, th) ==
  raced' = raced \union (IF Beside(t, th) # {} \/ Retiring(th) THEN Beside(t, th) \union {t}
                         ELSE {})

\* Of the older checkpoints only their number counts, and that only up to the cap.
Save(th, said, ask) ==
  saved' = [saved EXCEPT ![th] = [n |-> IF @.n <= Keep THEN @.n + 1 ELSE @.n,
                                  at |-> now, said |-> said, ask |-> ask]]
-----------------------------------------------------------------------------
(* A turn *)

\* _resolve_thread_id: the custom resolver's thread; without one, or if it raises
\* or returns nothing, the session's own. A plain turn has no resolver.
ThreadOf(via, session) == {<<via, session>>} \union (IF via = "a2a" THEN {Project} ELSE {})

Done(t) == [turn EXCEPT ![t] = [NewTurn EXCEPT !.pc = "done", !.th = turn[t].th]]

\* One run of the graph over a new message.
Message(t, th, via, runs) ==
  /\ runs <= MaxRuns
  /\ Save(th, saved[th].said \union {t}, Nobody)
  /\ turn' = [turn EXCEPT ![t] = [NewTurn EXCEPT !.pc = "run", !.th = th, !.via = via,
                                    !.said = saved[th].said \union {t}, !.runs = runs]]
  /\ Race(t, th)
  /\ UNCHANGED <<now, job, knowledge, dropped>>

Begin(t) ==
  /\ turn[t].pc = "new"
  /\ \E via \in {"a2a", "gradio"}, s \in Sessions :
       \E th \in ThreadOf(via, s) : Message(t, th, via, 1)

\* The caller answers the question of a parked task: Command(resume=...).
Resume(t) ==
  LET th == turn[t].th  cp == saved[th]
  IN /\ turn[t].pc = "parked"
     /\ turn[t].runs < MaxRuns
     /\ turn' = [turn EXCEPT ![t].pc = IF cp.ask = Nobody THEN "snapshot" ELSE "run",
                              ![t].ask = Nobody,
                              ![t].said = IF cp.ask = Nobody THEN {} ELSE cp.said \union {t},
                              ![t].runs = @ + 1]
     /\ Race(t, th)
     /\ UNCHANGED <<now, saved, job, knowledge, dropped>>

\* An answer that reads as a /goal, workflow or subagent command is taken for one:
\* the task is done, the question stays.
Shortcut(t) ==
  /\ turn[t].pc = "parked"
  /\ turn' = Done(t)
  /\ UNCHANGED <<now, saved, job, knowledge, history>>

\* The run ends: with text, with reasoning only, or with a question of its own. A
\* plain turn is not asked whether it paused.
Finish(t, ask) ==
  /\ turn[t].pc = "run"
  /\ Save(turn[t].th, turn[t].said, ask)
  /\ turn' = [turn EXCEPT ![t].pc = IF turn[t].via = "a2a" THEN "snapshot" ELSE "judge",
                           ![t].said = {}]
  /\ Race(t, turn[t].th)
  /\ UNCHANGED <<now, job, knowledge, dropped>>

\* The run raises, or the stream's consumer goes away.
Abort(t) ==
  /\ Running(t)
  /\ turn' = Done(t)
  /\ UNCHANGED <<now, saved, job, knowledge, history>>

\* Mutation: an empty list of interrupts counts as a question.
SnapshotBug(t) ==
  /\ turn[t].pc = "snapshot"
  /\ turn' = [turn EXCEPT ![t].pc = "parked", ![t].ask = saved[turn[t].th].ask]
  /\ UNCHANGED <<now, saved, job, knowledge, history>>

\* aget_state: the newest checkpoint of the thread by now. A question there parks the
\* task; if the state cannot be read there is none.
Snapshot(t) ==
  /\ turn[t].pc = "snapshot"
  /\ \E q \in {saved[turn[t].th].ask, Nobody} :
       turn' = [turn EXCEPT ![t].pc = IF q = Nobody THEN "judge" ELSE "parked", ![t].ask = q]
  /\ UNCHANGED <<now, saved, job, knowledge, history>>

\* Reasoning only, for the first time, is sent back once (the streaming turn); and
\* while the session's goal is not met the model is run again on the same thread.
Again(t) ==
  /\ turn[t].pc = "judge"
  /\ Message(t, turn[t].th, turn[t].via, turn[t].runs + 1)

Answer(t) ==
  /\ turn[t].pc = "judge"
  /\ turn' = Done(t)
  /\ UNCHANGED <<now, saved, job, knowledge, history>>
-----------------------------------------------------------------------------
(* Retirement *)

\* find_aged_threads, and the age rule of prune_checkpoints.
Aged(th) == saved[th].n > 0 /\ saved[th].at + MaxAge < now

\* The newest checkpoints of a thread, one at least.
Capped(cp) ==
  LET keep == IF Keep = 0 THEN 1 ELSE Keep
  IN [cp EXCEPT !.n = IF @ < keep THEN @ ELSE keep]

\* The pass of the loop begins with the threads that are aged now.
Sweep ==
  /\ job["sweep"].pc = "idle"
  /\ Harvest
  /\ job' = [job EXCEPT !["sweep"] = [NoJob EXCEPT !.pc = "next",
                                        !.todo = {th \in Threads : Aged(th)}]]
  /\ UNCHANGED <<now, saved, turn, knowledge, history>>

\* DELETE /api/chat/sessions/{id}: the default thread of the session.
DeleteTab(s) ==
  /\ job["tab"].pc = "idle"
  /\ saved[<<"a2a", s>>] # Empty
  /\ job' = [job EXCEPT !["tab"] = [NoJob EXCEPT !.pc = "next", !.todo = {<<"a2a", s>>}]]
  /\ UNCHANGED <<now, saved, turn, knowledge, history>>

\* _retire_thread begins: the transcript is what is saved by now.
Read(j, th) ==
  /\ job[j].pc = "next" /\ th \in job[j].todo
  /\ job' = [job EXCEPT ![j].pc = "delete", ![j].th = th, ![j].todo = @ \ {th},
                         ![j].read = saved[th].said]
  /\ raced' = raced \union {t \in Turns : Running(t) /\ turn[t].th = th}
  /\ UNCHANGED <<now, saved, turn, knowledge, dropped>>

\* Mutation: what the summary is made of is read, but never added.
DeleteBug(j, ok) ==
  LET th == job[j].th
  IN /\ job[j].pc = "delete"
     /\ saved' = [saved EXCEPT ![th] = Empty]
     /\ dropped' = IF ok THEN dropped ELSE dropped \union saved[th].said
     /\ job' = [job EXCEPT ![j] = [NoJob EXCEPT !.pc = "next", !.todo = job[j].todo]]
     /\ UNCHANGED <<now, turn, knowledge, raced>>

\* The summary is written, or it failed or is switched off; the thread is deleted
\* either way.
Delete(j, ok) ==
  LET th == job[j].th
  IN /\ job[j].pc = "delete"
     /\ ok => Harvest
     /\ knowledge' = IF ok THEN knowledge \union job[j].read ELSE knowledge
     /\ saved' = [saved EXCEPT ![th] = Empty]
     /\ dropped' = IF ok THEN dropped ELSE dropped \union saved[th].said
     /\ job' = [job EXCEPT ![j] = [NoJob EXCEPT !.pc = "next", !.todo = job[j].todo]]
     /\ UNCHANGED <<now, turn, raced>>

JobEnds(j) ==
  /\ job[j].pc = "next" /\ job[j].todo = {}
  /\ job' = [job EXCEPT ![j] = NoJob]
  /\ UNCHANGED <<now, saved, turn, knowledge, history>>

\* prune_checkpoints, one transaction: the age rule if nothing is harvested, then
\* the cap.
Prune ==
  LET gone == IF Harvest THEN {} ELSE {th \in Threads : Aged(th)}
  IN /\ job["sweep"].pc = "idle"
     /\ saved' = [th \in Threads |-> IF th \in gone THEN Empty ELSE Capped(saved[th])]
     /\ saved' # saved
     /\ dropped' = dropped \union UNION {saved[th].said : th \in gone}
     /\ UNCHANGED <<now, turn, job, knowledge, raced>>
-----------------------------------------------------------------------------
Next ==
  \/ Tick
  \/ \E t \in Turns :
       \/ Begin(t) \/ Resume(t) \/ Shortcut(t)
       \/ Finish(t, Nobody) \/ Finish(t, t)
       \/ Abort(t) \/ Snapshot(t) \/ Again(t) \/ Answer(t)
  \/ Sweep \/ Prune
  \/ \E s \in Sessions : DeleteTab(s)
  \/ \E j \in DOMAIN job :
       \/ JobEnds(j)
       \/ \E th \in Threads : Read(j, th)
       \/ \E ok \in BOOLEAN : Delete(j, ok)

Spec == Init /\ [][Next]_vars
-----------------------------------------------------------------------------
(* Safety *)

\* What a turn said is in its thread or summarised in the knowledge store: caps, the
\* age rule and deletions never lose it, unless the summary failed or is switched off,
\* or the turn ran while another turn or a retirement worked on the same thread.
NothingLost ==
  \A t \in Turns : turn[t].pc # "new" =>
    t \in saved[turn[t].th].said \union knowledge \union dropped \union raced

\* A parked task's question is still pending in its thread, so that its answer is
\* heard: unless another turn used the thread, or the thread was retired.
QuestionPending ==
  \A t \in Turns : turn[t].pc = "parked" =>
    \/ saved[turn[t].th].ask = turn[t].ask
    \/ \E u \in Turns \ {t} : turn[u].pc # "new" /\ turn[u].th = turn[t].th
    \/ t \in knowledge \union dropped

\* A thread keeps what was said in it, and the question it waits on.
ThreadSound == NothingLost /\ QuestionPending

\* "the caller resumes via message/send on the same taskId" (chat.py:547-549): the
\* question an answer to a parked task would resume is that task's own. It is not on
\* a thread that tasks share.
AnswerReaches ==
  \A t \in Turns : turn[t].pc = "parked" => saved[turn[t].th].ask \in {t, Nobody}
=============================================================================
