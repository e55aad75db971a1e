----------------------------- MODULE AgentReload ----------------------------
(***************************************************************************)
(* Boot, settings calls and hot reload: server/agent_init.py, the startup  *)
(* and shutdown hooks of server/__init__.py, and the files under them      *)
(* (graph/config_io.py, LangGraphConfig.from_yaml).                        *)
(*                                                                         *)
(* A settings call runs in a worker thread, statement by statement, while  *)
(* the server loop runs the starts and stops it was handed.  A YAML        *)
(* document is the number of the call that wrote it, its scheduler switch  *)
(* and whether it carries a model key of its own; a secret is the number   *)
(* of the call that gave it, 0 for none.                                   *)
(***************************************************************************)
EXTENDS Naturals, Sequences

CONSTANTS
  Threads,    \* worker threads settings calls run in
  Failures,   \* the sets of optional parts whose builder may fail together
  MaxCalls,   \* bound on settings calls
  MaxBoots,   \* bound on starts of the process
  Null,
  Torn        \* a file that open(path, "w") truncated and nothing has filled

Parts == {"memory", "skills", "plugins", "mcp", "workflows", "inbox"}
Doc == [rev : Nat, sched : BOOLEAN, key : BOOLEAN]
Conf == [rev : Nat, sched : BOOLEAN, key : Nat]
Graph == [conf : Conf, tools : SUBSET (Parts \union {"scheduler", "beads"})]
ReloadAssumption ==
  /\ Failures \subseteq SUBSET Parts /\ {} \in Failures
  /\ MaxCalls \in Nat /\ MaxBoots \in Nat
  /\ Null \notin Conf \union Graph

VARIABLES
  yaml,       \* the live langgraph-config.yaml
  secrets,    \* the key in secrets.yaml
  marker,     \* .setup-complete exists
  headless,   \* the process is run without a wizard
  up,
  conf,       \* STATE.graph_config
  bearer,     \* the configuration a2a_auth's token was set from
  graph,      \* STATE.graph: its configuration and groups of tools
  parts,      \* the optional parts STATE holds
  sched,      \* STATE.scheduler
  polling,    \* the backend that holds the owner lock and polls
  ending,     \* its stop() has cancelled the poll task and awaits it
  posted,     \* coroutines handed to the server loop, oldest first
  call,       \* what each worker thread is executing
  calls, boots, built,  \* counters; backends are numbered as they are built
  given,      \* history: the last key the operator stored
  torn        \* history: a write of the YAML was cut short, and by what

files == <<yaml, secrets, marker, headless>>
memory == <<conf, bearer, graph, parts, sched>>
loop == <<polling, ending, posted>>
counters == <<calls, boots, built>>
history == <<given, torn>>
vars == <<files, up, memory, loop, call, counters, history>>

Defaults == [rev |-> 0, sched |-> TRUE, key |-> FALSE]
NoBackend == 0
Idle ==
  [pc |-> "idle", kind |-> "reload", rev |-> 0, switch |-> Null, secret |-> FALSE,
   doc |-> Defaults, cfg |-> Null, next |-> NoBackend, start |-> NoBackend, stop |-> NoBackend,
   parts |-> {}, graph |-> Null]

(* LangGraphConfig.from_yaml: the overlay wins, then the YAML's own value. *)
(* An empty file gives the defaults; one that does not parse raises.       *)
Load(doc) == [rev |-> doc.rev, sched |-> doc.sched,
              key |-> IF secrets # 0 THEN secrets ELSE IF doc.key THEN 1 ELSE 0]
Readable == IF yaml = Torn THEN {Defaults} ELSE {yaml}

TypeOK ==
  /\ yaml \in Doc \union {Torn}
  /\ secrets \in 0..MaxCalls + 1
  /\ {marker, headless, up, ending, torn} \subseteq BOOLEAN
  /\ {conf, bearer} \subseteq Conf \union {Null}
  /\ graph \in Graph \union {Null}
  /\ parts \subseteq Parts
  /\ {sched, polling} \subseteq 0..built
  /\ \A i \in DOMAIN posted : posted[i] \in {"start", "stop"} \X (1..built)
  /\ \A t \in Threads : call[t].pc \in
       {"idle", "secrets", "doc", "open", "write", "soul", "mark", "config",
        "plan", "build", "commit", "swap", "undo"}

-----------------------------------------------------------------------------
(* What a configuration is built into.                                     *)

(* The optional parts: a builder that is switched off or raises is logged  *)
(* and leaves its part out; none of them stops a boot or a reload.         *)
Assemble(failed) == Parts \ failed

(* _build_scheduler: None when switched off, by the configuration or the   *)
(* environment, or when its constructor raises; else a backend of its own. *)
(* (The remote backend neither polls nor holds a lock: it is left out.)    *)
BuildScheduler(cfg, ok) == IF cfg.sched /\ ok THEN built + 1 ELSE NoBackend

(* get_all_tools: a group of tools for each backend that was passed.       *)
ToolGroups(ps, backend, beads) ==
  (ps \intersect {"memory", "inbox"})
    \union (IF backend # NoBackend THEN {"scheduler"} ELSE {})
    \union (IF beads THEN {"beads"} ELSE {})

(* create_agent_graph: core tools, those of plugins and MCP servers, and   *)
(* run_workflow if there is a registry.                                    *)
Compile(cfg, ps, backend, beads) ==
  [conf |-> cfg,
   tools |-> ToolGroups(ps, backend, beads)
               \union (ps \intersect {"plugins", "mcp", "workflows"})]

-----------------------------------------------------------------------------
(* The process.                                                            *)

(* The startup hook awaits the scheduler's start before any request.       *)
StartupHook(backend) == polling' = backend

(* _main, _init_langgraph_agent and the startup hook.  Without the marker  *)
(* a headless process validates and marks, or exits; one with a wizard     *)
(* serves no graph and no scheduler.                                       *)
Boot ==
  /\ ~up /\ boots < MaxBoots
  /\ \E doc \in Readable, failed \in Failures, ok \in BOOLEAN :
       LET cfg == Load(doc)
           ready == marker \/ headless
           ps == IF ready THEN Assemble(failed) ELSE {}
           backend == IF ready THEN BuildScheduler(cfg, ok) ELSE NoBackend
       IN /\ headless /\ ~marker => cfg.key # 0       \* validate_for_headless
          /\ marker' = ready
          /\ conf' = cfg /\ bearer' = cfg
          /\ graph' = IF ready THEN Compile(cfg, ps, backend, TRUE) ELSE Null
          /\ parts' = ps
          /\ sched' = backend
          /\ StartupHook(backend)
          /\ built' = IF backend # NoBackend THEN backend ELSE built
  /\ up' = TRUE /\ boots' = boots + 1
  /\ UNCHANGED <<yaml, secrets, headless, ending, posted, call, calls, history>>

(* The process dies, or shuts down: what is in memory goes, threads too.   *)
Stop ==
  /\ up
  /\ up' = FALSE
  /\ conf' = Null /\ bearer' = Null /\ graph' = Null /\ parts' = {}
  /\ sched' = NoBackend /\ polling' = NoBackend /\ ending' = FALSE /\ posted' = <<>>
  /\ torn' = (torn \/ yaml = Torn)
  /\ call' = [t \in Threads |-> Idle]
  /\ UNCHANGED <<files, counters, given>>

(* /api/config/reset-setup and the drawer's "Re-run setup".                *)
ResetSetup ==
  /\ up /\ marker
  /\ marker' = FALSE
  /\ UNCHANGED <<yaml, secrets, headless, up, memory, loop, call, counters, history>>

-----------------------------------------------------------------------------
(* A settings call.                                                        *)

Goto(t, pc) == call' = [call EXCEPT ![t].pc = pc]
Reply(t) == call' = [call EXCEPT ![t] = Idle]

(* save_all, finish_setup, or a bare reload (a delegate was edited).  A    *)
(* call refused by validation, or by the wizard's probe of the model,      *)
(* changes nothing and is left out.                                        *)
Request(t, kind, switch, secret) ==
  /\ up /\ call[t].pc = "idle" /\ calls < MaxCalls
  /\ calls' = calls + 1
  /\ call' = [call EXCEPT ![t] =
       [Idle EXCEPT !.pc = IF kind = "reload" THEN "config" ELSE "secrets", !.kind = kind,
                    !.rev = calls + 1, !.switch = switch, !.secret = secret]]
  /\ UNCHANGED <<files, up, memory, loop, boots, built, history>>

(* split_secret_updates and save_secrets: a blank is dropped, a secret is  *)
(* merged into the overlay, which is replaced as a whole.                  *)
SaveSecrets(t) ==
  /\ call[t].pc = "secrets"
  /\ \/ /\ IF call[t].secret
             THEN secrets' = call[t].rev + 1 /\ given' = call[t].rev + 1
             ELSE UNCHANGED <<secrets, given>>
        /\ Goto(t, "doc")
     \/ /\ call[t].secret           \* the write raises: "config write: ..."
        /\ Reply(t)
        /\ UNCHANGED <<secrets, given>>
  /\ UNCHANGED <<yaml, marker, headless, up, memory, loop, counters, torn>>

(* load_yaml_doc.                                                          *)
LoadDoc(t) ==
  /\ call[t].pc = "doc"
  /\ \E doc \in Readable : call' = [call EXCEPT ![t].pc = "open", ![t].doc = doc]
  /\ UNCHANGED <<files, up, memory, loop, counters, history>>

(* save_yaml_doc opens the file for writing, which truncates it, ...       *)
OpenYaml(t) ==
  /\ call[t].pc = "open"
  /\ yaml' = Torn
  /\ Goto(t, "write")
  /\ UNCHANGED <<secrets, marker, headless, up, memory, loop, counters, history>>

(* ... and dumps the document: apply_updates_to_yaml merged the call's     *)
(* values into it and strip_secrets_from_doc took the key out.             *)
Merged(c) == [rev |-> c.rev, key |-> FALSE,
              sched |-> IF c.switch \in BOOLEAN THEN c.switch ELSE c.doc.sched]

WriteYaml(t) ==
  /\ call[t].pc = "write"
  /\ yaml' = Merged(call[t])
  /\ Goto(t, "soul")
  /\ UNCHANGED <<secrets, marker, headless, up, memory, loop, counters, history>>

(* write_soul may raise, which ends the call with the YAML already saved;  *)
(* _sync_autostart_with_config only reports.                               *)
WriteSoul(t) ==
  /\ call[t].pc = "soul"
  /\ \/ Goto(t, IF call[t].kind = "setup" THEN "mark" ELSE "config")
     \/ Reply(t)
  /\ UNCHANGED <<files, up, memory, loop, counters, history>>

(* finish_setup marks before it reloads, or the reload would not compile.  *)
MarkComplete(t) ==
  /\ call[t].pc = "mark"
  /\ marker' = TRUE
  /\ Goto(t, "config")
  /\ UNCHANGED <<yaml, secrets, headless, up, memory, loop, counters, history>>

-----------------------------------------------------------------------------
(* _reload_langgraph_agent.                                                *)

Planned(t, cfg) == call' = [call EXCEPT ![t].pc = "plan", ![t].cfg = cfg]

(* Mutation: what was read serves before anything is built from it.        *)
ReadConfigBug(t) ==
  /\ call[t].pc = "config"
  /\ \E doc \in Readable : Planned(t, Load(doc)) /\ conf' = Load(doc)
  /\ UNCHANGED <<files, up, bearer, graph, parts, sched, loop, counters, history>>

(* A file that does not parse ends the reload.                             *)
ReadConfig(t) ==
  /\ call[t].pc = "config"
  /\ \/ \E doc \in Readable : Planned(t, Load(doc))
     \/ yaml = Torn /\ Goto(t, "undo")
  /\ UNCHANGED <<files, up, memory, loop, counters, history>>

(* The scheduler swap is planned from STATE before anything is built:      *)
(* switched off, to be built and started, or kept.                         *)
PlanScheduler(t) ==
  /\ call[t].pc = "plan"
  /\ \E ok \in BOOLEAN :
       LET cfg == call[t].cfg
           new == IF sched = NoBackend THEN BuildScheduler(cfg, ok) ELSE NoBackend
       IN /\ call' = [call EXCEPT
               ![t].pc = "build",
               ![t].next = IF sched = NoBackend THEN new
                           ELSE IF cfg.sched THEN sched ELSE NoBackend,
               ![t].start = new,
               ![t].stop = IF cfg.sched THEN NoBackend ELSE sched]
          /\ built' = IF new # NoBackend THEN new ELSE built
  /\ UNCHANGED <<files, up, memory, loop, calls, boots, history>>

Built(t, ps, g) ==
  call' = [call EXCEPT ![t].pc = "commit", ![t].parts = ps, ![t].graph = g]

(* The graph is built first; if that raises nothing is committed.  The     *)
(* rebuild passes no beads store to create_agent_graph.                    *)
Build(t) ==
  /\ call[t].pc = "build"
  /\ \/ /\ marker
        /\ \E failed \in Failures :
             LET ps == Assemble(failed)
             IN Built(t, ps, Compile(call[t].cfg, ps, call[t].next, FALSE))
     \/ ~marker /\ Built(t, {}, Null)
     \/ marker /\ Goto(t, "undo")
  /\ UNCHANGED <<files, up, memory, loop, counters, history>>

(* Commit: config and the stores, then the bearer, ...                     *)
Late == {"workflows", "inbox"}
Commit(t) ==
  /\ call[t].pc = "commit"
  /\ conf' = call[t].cfg
  /\ parts' = (call[t].parts \ Late) \union (parts \intersect Late)
  /\ bearer' = call[t].cfg
  /\ Goto(t, "swap")
  /\ UNCHANGED <<files, up, graph, sched, loop, counters, history>>

(* Mutation: the backend that is replaced is not stopped.                  *)
SwapBug(t) ==
  /\ call[t].pc = "swap"
  /\ graph' = call[t].graph
  /\ parts' = (parts \ Late) \union (call[t].parts \intersect Late)
  /\ sched' = call[t].next
  /\ posted' = IF call[t].start # NoBackend
               THEN Append(posted, <<"start", call[t].start>>) ELSE posted
  /\ Reply(t)
  /\ UNCHANGED <<files, up, conf, bearer, polling, ending, counters, history>>

(* ... then graph, registry, inbox and scheduler.  The start and the stop  *)
(* are handed to the server loop and not awaited.                          *)
Swap(t) ==
  /\ call[t].pc = "swap"
  /\ graph' = call[t].graph
  /\ parts' = (parts \ Late) \union (call[t].parts \intersect Late)
  /\ sched' = call[t].next
  /\ posted' = posted
       \o (IF call[t].stop # NoBackend THEN << <<"stop", call[t].stop>> >> ELSE <<>>)
       \o (IF call[t].start # NoBackend THEN << <<"start", call[t].start>> >> ELSE <<>>)
  /\ Reply(t)
  /\ UNCHANGED <<files, up, conf, bearer, polling, ending, counters, history>>

(* A failed reload is reported; finish_setup also takes the marker back.   *)
Undo(t) ==
  /\ call[t].pc = "undo"
  /\ marker' = (marker /\ call[t].kind # "setup")
  /\ Reply(t)
  /\ UNCHANGED <<yaml, secrets, headless, up, memory, loop, counters, history>>

-----------------------------------------------------------------------------
(* The server loop: coroutines start in the order they were handed over.   *)

(* start() without the owner lock logs and returns.                        *)
RunStart ==
  /\ posted # <<>> /\ Head(posted)[1] = "start"
  /\ polling' = IF polling = NoBackend THEN Head(posted)[2] ELSE polling
  /\ posted' = Tail(posted)
  /\ UNCHANGED <<files, up, memory, ending, call, counters, history>>

(* stop() cancels its own poll task, if it has one, and awaits it; the     *)
(* lock is released after that.                                            *)
RunStop ==
  /\ posted # <<>> /\ Head(posted)[1] = "stop"
  /\ ending' = (ending \/ polling = Head(posted)[2])
  /\ posted' = Tail(posted)
  /\ UNCHANGED <<files, up, memory, polling, call, counters, history>>

StopEnds ==
  /\ ending
  /\ polling' = NoBackend /\ ending' = FALSE
  /\ UNCHANGED <<files, up, memory, posted, call, counters, history>>

-----------------------------------------------------------------------------
Init ==
  /\ yaml \in {[rev |-> 0, sched |-> s, key |-> k] : s \in BOOLEAN, k \in BOOLEAN}
  /\ secrets = 0 /\ marker = FALSE /\ headless \in BOOLEAN
  /\ up = FALSE /\ conf = Null /\ bearer = Null /\ graph = Null /\ parts = {}
  /\ sched = NoBackend /\ polling = NoBackend /\ ending = FALSE /\ posted = <<>>
  /\ call = [t \in Threads |-> Idle]
  /\ calls = 0 /\ boots = 0 /\ built = 0
  /\ given = (IF yaml.key THEN 1 ELSE 0) /\ torn = FALSE

Step(t) ==
  \/ \E kind \in {"save", "setup"}, switch \in BOOLEAN \union {Null}, secret \in BOOLEAN :
       Request(t, kind, switch, secret)
  \/ Request(t, "reload", Null, FALSE)
  \/ SaveSecrets(t) \/ LoadDoc(t) \/ OpenYaml(t) \/ WriteYaml(t) \/ WriteSoul(t)
  \/ MarkComplete(t) \/ ReadConfig(t) \/ PlanScheduler(t) \/ Build(t)
  \/ Commit(t) \/ Swap(t) \/ Undo(t)

Next ==
  \/ Boot \/ Stop \/ ResetSetup
  \/ \E t \in Threads : Step(t)
  \/ RunStart \/ RunStop \/ StopEnds

Spec == Init /\ [][Next]_vars

-----------------------------------------------------------------------------
Calm == up /\ \A t \in Threads : call[t].pc = "idle"

(* What serves is of one configuration: outside the commit itself the      *)
(* graph, its tools, the stores, the bearer and the scheduler belong       *)
(* together, whichever step of whichever call failed before.               *)
Consistent ==
  up /\ (\A t \in Threads : call[t].pc # "swap") =>
    /\ bearer = conf
    /\ graph # Null =>
         /\ graph.conf = conf
         /\ graph.tools \intersect {"memory", "inbox", "plugins", "mcp", "workflows"}
              = parts \ {"skills"}
         /\ "scheduler" \in graph.tools <=> sched # NoBackend
    /\ sched # NoBackend => conf.sched

(* A user who is past the wizard has an agent: the marker never stands     *)
(* over a process without a graph, whatever failed or was reset.           *)
MarkerMeansGraph == Calm /\ marker => graph # Null

(* What is configured is what serves. *)
ServesConfig == Consistent /\ MarkerMeansGraph

(* A scheduler that was switched off or replaced does not go on polling    *)
(* once the loop has run what it was handed.                               *)
NoOrphan == Calm /\ posted = <<>> /\ ~ending => polling \in {NoBackend, sched}

(* Not so: "a blank value means leave the stored secret unchanged"                 *)
(* (graph/config_io.py, split_secret_updates): between calls the model key *)
(* is the last one the operator stored.                                    *)
KeyKept ==
  Calm /\ yaml # Torn /\ ~torn => Load(yaml).key = given

(* The beads tools are "bound when a beads store is present"               *)
(* (docs/reference/starter-tools.md), and the store always is.             *)
ToolsSurvive == graph # Null => "beads" \in graph.tools
=============================================================================
