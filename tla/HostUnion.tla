----------------------------- MODULE HostUnion -----------------------------
(* The configured process, the threads of its turns, what a turn shows, the  *)
(* evaluation of an agent, the notebook and the issue board.  Each behaviour *)
(* is one component's, picked at the start.                                  *)
EXTENDS Integers, Sequences

CONSTANTS
  Workers, Failures, MaxCalls, MaxBoots, Null, Torn,                       \* AgentReload
  Turns, Sessions, Project, Nobody, Keep, MaxAge, Harvest, MaxTime,        \* ChatThread
  Items, MaxItems, MaxRuns, Steps,                                         \* ChatStream
  Suites, Tools, Repeat, MaxAgents, MaxLog, Unset,                         \* EvalRun
  Consoles, Agent, Tabs, First, Pieces, MaxHistory, MaxVersion, MaxLength, \* Notebook
  Absent, Void, UndoTabs, UndoHistory, UndoVersion,
  MaxIssue, MaxMade                                                        \* IssueBoard

VARIABLES pick,
          yaml, secrets, marker, headless, up, conf, bearer, graph, parts, sched, polling, ending,
          posted, call, calls, boots, built, given, torn,
          now, saved, turn, job, knowledge, dropped, raced,
          via, pc, phase, raw, shown, budget, final, noted, sent, runner, queue, cards,
          suite, sweep, turns, log, rows, goals, todo, run, agents, cur, results, waited,
          paper, tmp, view, dirty, save, shares, held, mixed, issues, made, known, refused

hostVars == <<yaml, secrets, marker, headless, up, conf, bearer, graph, parts, sched, polling,
              ending, posted, call, calls, boots, built, given, torn>>
chatVars == <<now, saved, turn, job, knowledge, dropped, raced>>
streamVars == <<via, pc, phase, raw, shown, budget, final, noted, sent, runner, queue, cards>>
evalVars == <<suite, sweep, turns, log, rows, goals, todo, run, agents, cur, results, waited>>
notesVars == <<paper, tmp, view, dirty, save, shares, held, mixed>>
boardVars == <<issues, made, known, refused>>
vars == <<pick, hostVars, chatVars, streamVars, evalVars, notesVars, boardVars>>

Host == INSTANCE AgentReload WITH Threads <- Workers
Chat == INSTANCE ChatThread
Stream == INSTANCE ChatStream
Eval == INSTANCE EvalRun WITH queue <- todo
\* The notebook is checked with two sets of bounds: several tabs and few changes, and one
\* tab with undo over several versions.
Notes == INSTANCE Notebook WITH file <- paper, op <- save, posted <- shares, Empty <- Void
Undo == INSTANCE Notebook WITH
  file <- paper, op <- save, posted <- shares, Empty <- Void, Tabs <- UndoTabs,
  MaxHistory <- UndoHistory, MaxVersion <- UndoVersion
Board == INSTANCE IssueBoard

ASSUME ReloadAssumption == Host!ReloadAssumption
ASSUME ThreadAssumption == Chat!ThreadAssumption
ASSUME StreamAssumption == Stream!StreamAssumption
ASSUME EvalAssumption == Eval!EvalAssumption
ASSUME NotebookAssumption == Notes!NotebookAssumption /\ Undo!NotebookAssumption
ASSUME BoardAssumption == Board!BoardAssumption

\* A component that is not picked stays in one first state.
Init == /\ pick \in {"host", "chat", "stream", "eval", "notes", "undo", "board"}
        /\ Host!Init /\ Chat!Init /\ Stream!Init /\ Eval!Init /\ Board!Init
        /\ (pick # "host" => yaml = [rev |-> 0, sched |-> TRUE, key |-> FALSE] /\ ~headless)
        /\ (pick # "stream" => via = "stream")
        /\ (pick # "eval" => suite = (CHOOSE s \in Suites : TRUE) /\ ~sweep)
        /\ \/ pick = "undo" /\ Undo!Init
           \/ pick # "undo" /\ Notes!Init

Next ==
  \/ pick = "host" /\ Host!Next
     /\ UNCHANGED <<pick, chatVars, streamVars, evalVars, notesVars, boardVars>>
  \/ pick = "chat" /\ Chat!Next
     /\ UNCHANGED <<pick, hostVars, streamVars, evalVars, notesVars, boardVars>>
  \/ pick = "stream" /\ Stream!Next
     /\ UNCHANGED <<pick, hostVars, chatVars, evalVars, notesVars, boardVars>>
  \/ pick = "eval" /\ Eval!Next
     /\ UNCHANGED <<pick, hostVars, chatVars, streamVars, notesVars, boardVars>>
  \/ pick = "notes" /\ Notes!Next
     /\ UNCHANGED <<pick, hostVars, chatVars, streamVars, evalVars, boardVars>>
  \/ pick = "undo" /\ Undo!Next
     /\ UNCHANGED <<pick, hostVars, chatVars, streamVars, evalVars, boardVars>>
  \/ pick = "board" /\ Board!Next
     /\ UNCHANGED <<pick, hostVars, chatVars, streamVars, evalVars, notesVars>>

Spec == Init /\ [][Next]_vars
-----------------------------------------------------------------------------
\* Of a component that is not picked only the first state is seen.
TypeOK ==
  CASE pick = "host" -> Host!TypeOK
    [] pick = "chat" -> Chat!TypeOK
    [] pick = "stream" -> Stream!TypeOK
    [] pick = "eval" -> Eval!TypeOK
    [] pick = "notes" -> Notes!TypeOK
    [] pick = "undo" -> Undo!TypeOK
    [] pick = "board" -> Board!TypeOK

\* What serves is of one configuration, and who is past the wizard has an agent.
ServesConfig == pick = "host" => Host!ServesConfig
\* A scheduler that was switched off or replaced stops polling.
NoOrphan == pick = "host" => Host!NoOrphan
\* What was said on a thread is kept or summarised, and its open question waits.
ThreadSound == pick = "chat" => Chat!ThreadSound
\* What a turn shows is the beginning of its answer, and it ends.
StreamShown == pick = "stream" => Stream!StreamShown
\* An evaluation passes for what its own turn did.
EvalSound == pick = "eval" => Eval!EvalSound
\* The notebook keeps what was written, and an issue's id means that issue.
WorkbenchSound ==
  /\ pick = "notes" => Notes!NotesKept
  /\ pick = "undo" => Undo!NotesKept
  /\ pick = "board" => Board!IdsHold
=============================================================================
