# protoTrader, modelled and proved

This directory holds TLA+ models of protoTrader's own control logic, TLC
configurations that check them on small instances, and TLAPS proofs. Paths such
as `scheduler/local.py` are relative to the repository's source root. `PROJECT.json`
maps every definition to the lines it stands for and lists runs, mutations, hazards,
findings and theorems.

To check a run: `tlc -config sched_core.cfg MCScheduler`. To check the
proofs: `tlapm SchedulerProofs.tla`, and likewise TurnProofs, TrafficProofs, NotebookProofs,
HostProofs, StoresProofs, FilesProofs, and Basics for the lemmas they share. HostProofs, StoresProofs,
FilesProofs and TrafficProofs take a quarter of an hour each, the others less.

## 1. The system

protoTrader is one Python process. A FastAPI server on one event loop receives
messages (A2A JSON-RPC, the web console, Discord, its own scheduler), runs each as
a *turn* of a LangGraph agent on a *thread* of a checkpointer, and streams the
result back. Around the turn stand small durable stores (SQLite or JSON files),
background tasks and plugins. `runtime/state.py` holds what they share in one
mutable object, `STATE`. Synchronous handlers and reloads run in worker threads, so
not everything is serialised by the event loop; the skill curator, the plugin
command line, the eval runner and the scheduler's rivals are other processes on the
same files.

### Inventory

| Component | State | Operations | Speaks to | Module |
|---|---|---|---|---|
| Local scheduler, `scheduler/local.py` | jobs table, owner lock (in-process set and flock), poll task | add, cancel, list, start, stop, recover, tick, fire, settle | the agent's own A2A endpoint | Scheduler, JobLedger |
| Remote scheduler, `scheduler/workstacean.py` | none of its own | publish add and cancel | an HTTP bus | RemoteScheduler |
| Executor, `a2a_executor.py` | text buffer, artifact flags, usage of one run | execute, cancel, flush, finalize | a2a-sdk queue, chat stream, terminal hook | TaskLifecycle, TaskProtocol |
| A2A stores, `a2a_stores.py` | task rows, push configurations | save, reconcile at boot, sweep | SQLite | TaskLifecycle |
| Terminal hook, `server/a2a.py`, `telemetry_store.py`, `activity/store.py`, `pricing.py` | a row per turn, the feed, the agent card | record, roll up, price, list | executor, console, event bus | TurnLedger |
| Chat turn, `server/chat.py` | none; the thread is the checkpointer's | run, resume an interrupt, drive a goal, slash commands | graph, goals, workflows | ChatStream, ChatThread, GoalMode |
| Output text, `graph/output_format.py` | the text of a run | extract, show while it is written | chat turn | ChatStream |
| Thread retirement, `graph/checkpoint_prune.py`, `conversation_harvest.py` | checkpoints of threads | prune, harvest, delete | knowledge store | ChatThread |
| Goal mode, `graph/goals/` | one JSON file per session | set, clear, evaluate | verifiers, chat loop | GoalMode |
| Inbox, `inbox/store.py` and its console handlers | items table, deque of fires | add, fire, list, mark delivered | A2A endpoint, `check_inbox` tool | Inbox |
| Event bus, `events/bus.py`, `/api/events` | a bounded queue per subscriber | publish, subscribe, frame, keepalive | console | EventBus |
| Workflow engine, `graph/workflows/engine.py` | pending steps, outputs, a semaphore | validate, resolve inputs, run waves, render | subagents | WorkflowEngine, StepDag |
| Workflow registry, `graph/workflows/registry.py` | recipes by name | load, save, delete | files | – |
| Coding agent, `plugins/coding_agent/` | client cache, locks, process, futures, text buffer | code_with, start, prompt, read, close | an agent process over stdio | AcpClient |
| Delegates, `plugins/delegates/` | delegate list, health, adapters | dispatch, probe, edit | other agents; the ACP client | AcpClient, PeerConsult, ConfigFiles |
| Init, reload, setup, `server/agent_init.py`, hooks of `server/__init__.py` | `STATE`, setup marker | boot, reload, apply settings, finish and reset setup | everything | AgentReload |
| Configuration, `graph/config_io.py`, `settings_schema.py` | YAML, secrets overlay, SOUL.md | save, overlay, validate | files | ConfigFiles, AgentReload |
| Middleware, `graph/middleware/` | session summaries, caches, deferred tools | wrap model and tool calls | stores | TurnContext |
| Enforcement, `enforcement/rate_limiter.py` | sliding windows | check and record | tool calls | Delegation |
| Subagents, `graph/agent.py` | semaphore of a batch | task, task_batch, manual batch, emit a skill | lead agent, operator | Delegation |
| Skills, `graph/skills/` | FTS index with confidence | seed, emit, curate (decay, merge, prune) | files, a cron job | SkillsIndex |
| Knowledge, `knowledge/`, `graph/memory_facts.py` | chunks, vectors, breaker | add, search, consolidate, delete | SQLite, embeddings | KnowledgeBase |
| Scripts, `tools/execute_code.py` | child, pipes, service task | run, serve, kill | tools | ExecuteCode |
| Notes, `operator_api/notes.py`, `tools/notes_tools.py`, notes panel of `apps/web` | one JSON file, copies in consoles | load, write, revert, save | agent and operator | Notebook |
| Issues, `beads/store.py` | rows with counted ids | create, update, close, delete | console, tools | IssueBoard |
| Discord, `surfaces/discord/`, `plugins/discord/` | gateway, bursts, turn log, address | connect, collect, answer, deliver, reload | chat turn, event bus | DiscordGateway |
| Plugins, `graph/plugins/` | code directories, lock file, enabled list | install, uninstall, sync, discover, activate | git, loader | PluginHost |
| Evals, `evals/` | cases, results, an agent under test | run, judge, tear down, sweep | agent, audit log, knowledge | EvalRun |
| Cache warmer, auth, egress, autostart, observability, UI, Google, apps, scripts | nothing the others rely on | | | – |

What makes each of these correct, and what is hard about it:

- **Scheduler.** One poller per table; a stored fire is delivered at least once and
  never early; stale fires are skipped; one bad job starves no other. Hard: rows are
  claimed once and posted over many awaits while worker threads add and cancel; the
  process may die anywhere; several processes and backends may open one table.
- **Executor and task store.** A task ends in one outcome, the same in the store and at
  the hook; its text is stored exactly once; a restart leaves nothing fake-active.
  Hard: pause and resume, cancel against completion, crash between hook and store.
- **Ledger of turns.** Rows, feed, event and the caller's bill agree. Hard: a turn is
  several runs, the hook swallows its errors, canceled and dead turns are never told.
- **What a turn shows.** What the reader saw begins the final answer. Hard: text is
  shown before it is known which tags, retries or reasoning will follow.
- **Threads.** What was said is in the thread or summarised; a parked question waits for
  its own answer. Hard: tasks share threads, and retirement works in three unlocked steps.
- **Goals.** An outcome is grounded in verdicts and stays; a budget counts verdicts;
  every turn ends. Hard: the file is read before and written after a long await.
- **Inbox.** No item vanishes; no duplicates in the window; no storm. Hard: rolling
  windows, restarts, retries.
- **Bus.** A slow console harms only itself; nothing dead stays registered. Hard: what
  cancellation does to a generator.
- **Discord.** A message is answered once, in its chat's context; an event is posted once.
  Hard: bursts, timers, and a reload that awaits between stop and start.
- **Workflows.** A valid recipe runs whole; an invalid one not at all. Hard: arbitrary
  graphs, failing steps, a semaphore.
- **Coding agent.** An answer is one's own and whole; one process per client; a failed
  client is not kept. Hard: every await is a place where the process may die, the
  caller may be cancelled, and another call may come.
- **Reload.** Graph, tools, stores, scheduler and bearer are of one configuration. Hard:
  any of a dozen steps may fail, and the loop is handed work that nobody awaits.
- **Configuration files.** What was asked for is kept, secrets stay out of the YAML.
  Hard: five kinds of writers, whole-file rewrites, no lock, truncation in place.
- **Model calls.** A call gets the prior sessions it should and a goal's turn none; a
  summary never feeds on summaries. Hard: caches, and messages that are injected and then saved.
- **Skills.** No doubles; the curator does what it decided. Hard: another process deletes
  by rowid from a snapshot, and rowids are given out again.
- **Knowledge.** Vectors never cost a keyword hit; facts are not doubled; an outage is
  not hammered. Hard: chunk, vector and breaker change in separate steps.
- **Delegation, scripts.** A batch never sticks, the window holds, nothing is left of a
  script's bridge. Hard: failures and cancellations at each step.
- **Plugins.** Lock file and code agree; nothing runs that nobody enabled. Hard: two
  installers, either killed at any step.
- **Notes, issues.** What the operator saved stays; undo leads back; an id means one
  issue. Hard: one temporary file, whole-file saves, counting up from the highest id.
- **Evals.** A pass is earned by the case's own turn; nothing is left between cases.
  Hard: attribution by time, turns that outlive their case.

The hazards behind these, line by line, are in `PROJECT.json` under `hazards`.

## 2. The modules

A definition whose name ends in `Bug` is a mutation of the definition that follows it:
a slip the code could have. No specification uses one. Each exists to show that a
property notices it. A definition whose comment begins with "Not so" is a statement
the code does not keep; section 5 lists them.

### Scheduler (`scheduler/local.py`), implementing JobLedger

`JobLedger` is the promise: an occurrence, one fire of one job, is *owed* once stored;
it may *land* any number of times when due; it stops being owed only after it landed
or because it was *waived* (cancelled, or missed by the whole recovery window).

`Scheduler` is the code. `jobs` is the table, `locks` and `paths` the two halves of the owner lock
(flock and `_LOCKED_PATHS`), `task[b]` what the poll task of backend `b` awaits, `due[b]` and
`cur[b]` the rows this tick claimed, `tick[b]` its `fired_at`. An action is what runs
between two awaits of the poll loop, or one commit of a call from a worker thread:
`AddJob`, `CancelJob`, `Start` (acquire, `_recover_missed_fires`, create the task), `StopBegin` and `StopEnd`
(around the await of the cancelled task), `Tick`, `FireOk` (2xx, `_reschedule_or_delete`, next post),
`FireFail`, and the external `Accept`. `Crash` drops memory and the flock; `Boot` restarts. `GiveUp` says that a POST
nobody waits for may still have reached the agent. A row carries a generation, so that
two jobs that were given one id can be told apart. The refinement maps `owed` to `jobs`.

### TaskLifecycle (`a2a_executor.py`, `a2a_stores.py`), implementing TaskProtocol

`TaskProtocol` gives the edges along which the stored state of a task may move.
`TaskLifecycle` has the `execute()` coroutine (`run`), the SDK's queue (`queue`, external: stored in
order, later), the rows (`store`, `text`, `old`). Actions: `Message`, `Write`
(with `_flush_text`), `Pause`, `Done`, `Complete` (`_finalize`, `_notify_terminal`), `Fail`, `Cancel`, `StoreEvent`, `Age`,
`Crash`, `Boot` (reconcile, then sweep; either may fail). Text is a sequence of numbered pieces, so that
a piece twice, missing or out of order shows.

### TurnLedger (`a2a_executor.py`, `server/a2a.py`, `telemetry_store.py`, `activity/store.py`, `pricing.py`)

The same runs seen from the books. `run[t]` holds the locals of `execute()` that count: calls, models,
cost, origin. `ModelCall` and `ToolStart` are usage frames, `Complete` and `Fail` go through `Notify`: `Telemetry` writes the
row (or fails to), `Surface` writes the feed entry and then publishes the event. `Cancel` tells nobody, `Pause` throws the run's
counts away. `RateFor` is the price lookup, with its longest-substring rule on names as sequences of words;
`Structured` adds a skill's result, whose type should be on the `card` built at `Boot`. `Percentile`, `Outliers` and
`Summary` are the rollups; an ASSUME of MCTraffic checks the first two on every list up to five turns.

### ChatStream (`server/chat.py`, `graph/output_format.py`, `a2a_executor.py`)

A turn from the dispatch of its message to `done`. The model writes items (words, a literal "<", tags, closed blocks); `raw`
is what it wrote in this run, `Visible` is `visible_output_so_far`, `Extract` is
`extract_output`, with the regular expressions as operators on sequences of items. `Frame` yields what is new and `sent` is the
executor's side: everything sent, the unflushed part, the artifact. `Retry` is the kicker of a run that
dropped its output, `Continue` the goal's next run. A workflow command runs in a task of its own that fills `queue`
while the turn drains it.

### ChatThread (`server/chat.py`, `checkpoint_prune.py`, `conversation_harvest.py`, `_retire_thread`)

`saved[th]` is the newest checkpoint of a thread: what was said in it and the question it waits on. A run keeps its
state to itself from `Begin` (input saved first) to `Finish`, so overlapping runs overwrite each other. `Sweep`,
`DeleteTab`, `Read`, `Delete` and `Prune` are retirement in the steps it has. `dropped` and `raced` are
history: what went without a summary, and which turns met another on their thread.

### GoalMode (`graph/goals/`, the goal loop of `server/chat.py`)

`goal` is the file; `turn[t]` is where a turn is, with the record it read before the
verifier was awaited (`held`). `SetGoal` and `ClearGoal` are the commands; `Verify` reads, `Verdict` decides
(`Decide`) and writes what it *read*, whatever the file holds by then. The other actions are the
ways a turn ends: pause, error, plain answer, hard cap, failing verifier, restart.
`record`, `retired`, `spoiled` and `stalled` are history: what the verifier really said, and which goals
suffered a failed write or a write based on a stale read.

### Inbox (`inbox/store.py`, `POST /api/inbox`, `check_inbox`)

`rows` is the table, `fires` the storm guard's deque, `posting` the now-fires awaited, `carried`
what `check_inbox` returned to a turn that has not stored it yet. `Add` is the whole handler up to
its first await: dedup, insert, guard, fire or suppress.

### EventBus (`events/bus.py`, `_sse_event_stream`)

`queue[c]` is the bounded queue, `stream[c]` where the response generator is. `Keepalive` is what
`asyncio.wait_for` does on a timeout: it cancels `__anext__`, and that ends the bus's generator, whose
`finally` clause unregisters the queue.

### DiscordGateway (`surfaces/discord/`, `plugins/discord/__init__.py`)

`buffer` holds the burst of each chat, `flushes` the bursts an agent turn runs for, `tlog` the turn log a burst is
warmed from. `Receive` joins or opens a burst, `Flush` reads the log, records the messages and starts the turn, `Reply` ends it.
A reload is `Teardown`, `DeliveryStopped`, `SweeperStopped` and `Launch`, the steps between its awaits, while gateways come up.

### WorkflowEngine (`graph/workflows/engine.py`), implementing StepDag

`StepDag` is the promise: each step at most once, after its dependencies, no more than
`Width` at a time. `WorkflowEngine` validates (`Invalid`, with `_has_cycle` as the depth-first search
it is, a recursive function of a node and the marks), resolves inputs, and runs *waves*: `StartWave` is one
`gather`, `Acquire` the semaphore in its order of arrival, `Finish` a step's answer or exception,
`EndWave` the recording of the whole wave, in the order of the recipe (`InOrder`). `MaxConcurrency` is at least 1, as the engine's `max(1, ...)` makes it. A rendered prompt is the set of the outputs in it.

### AcpClient (`plugins/coding_agent/`, the acp adapter of `plugins/delegates/`)

`cache` and `lock` are `_CLIENTS` and `_LOCKS` for one configured agent; a client has a start lock
(`starter`), a process (`proc`) and a text buffer (`answer`); a process lives, exits, is reaped, and has a reader.
`Call` fetches the client *before* the lock is taken. `Leave` is the end of a call in every form: the
tool drops the client on an `AcpError` only, `async with` gives the locks back. Calls in `Delegated` take
no lock and drop nothing. `ReaderEnds` fails the futures of the whole client.

### PeerConsult (`tools/peer_tools.py`, the a2a adapter of `plugins/delegates/`)

A call is one `Send`, then a `Poll` a second; `Last` is the loop's condition, `ExtractText` where the code looks for a text. The peer
(`PeerTakes`, `PeerWorks`) moves between any two of them, and is external. `RpcFails` is any call that raises; the peer may have taken it.

### RemoteScheduler (`scheduler/workstacean.py`)

Several agents publish to one `bus`; the install (`Take`, external) takes the commands in order, as the adapter's
fire-and-forget use of it implies. Names and ids are sequences of `Words`, so that one may begin another. `Publish` has three outcomes: accepted, accepted with the answer lost, not accepted. `told` is what
an agent's last call about a job told it.

### AgentReload (`server/agent_init.py`, hooks of `server/__init__.py`, `config_io.py`)

`yaml`, `secrets` and `marker` are the files; `conf`, `graph`, `parts`, `sched` and `bearer` what serves. A settings call is a
program counter in a worker thread: `SaveSecrets`, `LoadDoc`, `OpenYaml` (which truncates), `WriteYaml`, `WriteSoul`, `MarkComplete`,
`ReadConfig`, `PlanScheduler`, `Build`, `Commit`, `Swap`, `Undo`, each of which may fail where the code can. `Swap` hands start and
stop to the loop (`posted`), which runs them as `RunStart`, `RunStop`, `StopEnds`. `Boot`, `Stop` and `ResetSetup` are the rest.

### ConfigFiles (`config_io.py`, `settings_schema.py`, `plugins/delegates/`, `installer.py`)

The two files, without the process: `writer[a]` is a run of settings save, wizard, delegates panel, plugin removal or
editor between its reads, truncations and dumps. A form's PUT sends the settings it *shows* (`panel`). The health
prober reads along. `want` is what the operator asked for, `spoiled` the keys that a failed or overlapping run may
have lost: the property is about all the others.

### TurnContext (`graph/middleware/`)

`ModelCall` is the chain of before- and wrap-hooks of one model call, which do not await: gather, inject or deliver, expose tools.
`cache` holds each middleware's copy of the prior sessions with its age; `Answer` writes the session's summary
from its messages, injected ones included, in the way the code filters them. `files` has the sessions' files, `Newer` those
that a directory listing sorts before one.

### SkillsIndex (`graph/skills/`)

`rows` maps rowids to skills. `Seed` and `SeedOne` replace what came from files, `Emit` and `EmitInsert` replace an emitted skill in
the two transactions the code uses, `CuratorLoads` judges the snapshot (`Decayed`, dedup, prune) and the other
curator actions delete and update row by row. A cluster of look-alikes is named by its leader, the first of them in order. A day stands for one half-life and confidence is in sixteenths.

### KnowledgeBase (`knowledge/`, `graph/memory_facts.py`)

`op` is what the server does: a write is chunk, embedding, vector; a search is keyword ranking,
query embedding, fusion (reciprocal ranks, k = 60, in exact integers), hydration of what only vectors found. `breaker` and `failed` are the
embedding's. Any order may be a ranking. `Delete` is the eval runner, and leaves vectors behind.

### Delegation (`graph/agent.py`, `enforcement/`)

`TaskBatch` passes the gate and its sliding window, `ManualBatch` does not; each batch has its own semaphore. A subagent's run
ends with a history of messages, from which the result and the skill are taken, or raises. `window` is what the limiter lists,
`ran` the history of all it let through.

### ExecuteCode (`tools/execute_code.py`)

Parent, child and service task around two pipes; `Leave` is the `finally` clauses after exit, timeout, failed start or
cancellation. Responses are matched with calls by order alone, as the child does it.

### PluginHost (`graph/plugins/`)

`code`, `lock` and `enabled` are the directories, plugins.lock and the configuration; `actor[a]` is an installer run of the
server or the command line, which may be killed at any step (`Fail`). `Discovered` and `Active` are what the next load would run.

### EvalRun (`evals/`)

The runner's case, step by step (`Start`, `ApplySetup`, `ClearGoal`, `SetGoal`, `Send`, answer or `GiveUp`, `Judge`, `Teardown`), against turns that call tools, store
facts and load goals in their own time. The log's length is the clock. `NextRun` repeats the suite, `NextAgent` is the sweep.

### Notebook, IssueBoard

`Notebook` has the file, its temporary file as an *open file* several savers may hold, the consoles' copies, and the undo
history inside each tab. `IssueBoard` is the table with its way of counting ids.

### Composition

The components meet at narrow places, and each model has the other side as an external
actor whose behaviour the neighbour's model justifies: the scheduler's POST and the
inbox's now-fire start a task (`Accept`, `FireEnds`; a task accepted is `Message` in TaskLifecycle); the chat
stream behind `Write`, `Pause` and `Done` is ChatStream, whose goal loop is GoalMode and whose thread is ChatThread; a
workflow's step is a subagent's run that answers or fails (Delegation); what ConfigFiles stores AgentReload
loads; a turn's outcome goes to TurnLedger, whose event EventBus carries and DiscordGateway delivers.

Four *union* modules, TurnUnion, TrafficUnion, StoresUnion and HostUnion, check several components
each. The variable `pick` is chosen at the start; the component it names runs, the others
stay in one initial state. MCTurns, MCTraffic, MCStores and MCHost give their constants values for TLC; TurnProofs,
TrafficProofs, StoresProofs and FilesProofs, and HostProofs extend the unions themselves. So the runs and the theorems
are about the same `Spec` and the same properties, the theorems for any constants. A union is the disjoint union of the components' state spaces, not their product:
that is sound because components of one union share no state in these models. (Where they do share state in the code, one
module has both sides: the scheduler's lock and table, the client cache of two plugins, the thread and
its retirement, all writers of a file.) Each property of a union is one component's, or for `TypeOK` and `DelegationSound` the one of
the component picked.

## 3. The runs

| Run | Module | Shows | Distinct states |
|---|---|---|---|
| `sched_core` | MCScheduler | one poller, no lost, early, repeated or stale fire; JobLedger is implemented | 770 000 |
| `sched_live` | MCScheduler, with fairness | one bad job starves no other | |
| `turns_core` | MCTurns, with fairness | TaskLifecycle, GoalMode, WorkflowEngine: outcomes are true, told once and kept; TaskProtocol and StepDag are implemented; every task, turn and run ends | 65 000 |
| `traffic_core` | MCTraffic | Inbox, EventBus, DiscordGateway, AcpClient, TurnLedger: nothing lost, doubled or mixed up, no call waits for ever, the books balance | 1 370 000 |
| `stores_core` | MCStores | SkillsIndex, TurnContext, KnowledgeBase, Delegation, PeerConsult, RemoteScheduler, ExecuteCode, PluginHost, ConfigFiles: no doubles, no lost hits, no echo, nothing stuck or left behind, no answer missed, no setting lost | 850 000 |
| `host_core` | MCHost | AgentReload, ChatThread, ChatStream, EvalRun, Notebook (twice), IssueBoard: one configuration serves, what was said and shown holds, passes are earned, notes and ids hold | 1 450 000 |
| `sched_rpc_error` | MCScheduler | counterexample: a refusal in a 200 loses the fire | |
| `task_pause_text` | TaskLifecycle | counterexample: text before a pause is replaced on resume | |
| `goal_cleared` | GoalMode | counterexample: a cleared goal comes back | |
| `bus_idle` | EventBus | counterexample: a keepalive ends the stream it should hold open | |
| `reload_beads` | AgentReload | counterexample: the first hot reload drops the issue tools | |
| `chat_cross` | ChatThread | counterexample: an answer resumes another task's question | |

The properties of the passing runs, by what they are made of (the parts are named conjuncts in the modules):

| Property | Parts | In words |
|---|---|---|
| `OnePoller`, `NoLostFire`, `NeverEarly`, `NoStrayFire`, `LedgerSpec`, `OthersFire` | | the scheduler's promises, see section 4 |
| `OutcomeSound` | `NoFakeActive`, `HookAgrees`, `AnswerOnce` | after a restart no row claims to run; hook and store tell one outcome; the answer is stored once |
| `ProtocolSpec`, `NeverStuck` | | stored states move along the protocol; none stays "working" |
| `Grounded` | `Accounted`, `OutcomeGrounded`, `CapIsSlack` | iterations and outcomes are those of the verdicts; the hard cap is only a net |
| `OutcomeKept`, `TurnEnds` | | an outcome stays; every goal turn ends |
| `RunSound`, `DagSpec`, `RunEnds` | `Verdict`, `PromptsFilled`, `RunIsWhole` | a recipe runs if and only if it can, whole, with its references filled, in the graph's order, to an end |
| `InboxSound` | `NothingVanishes`, `NoStorm`, `DedupHolds` | delivery, storm guard, deduplication |
| `StreamSound` | `NothingElseLost`, `NoLeak` | gap-free but for one's own drops; no dead queue is fed |
| `Heard` | `EachOnce`, `WarmedRight`, `PostedOnce` | a message is answered as often as it was taken, in its context |
| `AnswerIntact`, `AgentsSound` | `AnswerMine`, `AnswerWhole`; `OneProcess`, `CacheIsSound`, `NeverWaits` | the coding agents |
| `LedgerSound` | `BooksBalance`, `FeedTrue`, `ResultsAdvertised` | rows, totals, bill, feed and card agree |
| `IndexSound` | `OnePerName`, `QuietRunExact` | no doubles; the curator does what it decided |
| `NoEcho`, `CallsSound` | `ContinuityFresh`, `GoalCallsAddNone` | summaries do not feed on summaries; a call gets the sessions it should |
| `KnowledgeSound` | `HitsSurvive`, `FactsDistinct`, `OutageBounded` | fusion loses no hit; facts once; the breaker holds |
| `DelegationSound` | `WindowHeld`, `BatchMoves`; `AnswerInTime` of PeerConsult; `JobsApart` of RemoteScheduler | the rate limit holds; no batch is stuck; a peer's answer is not missed; agents that share an install keep their jobs |
| `BridgeSound` | `Released`, `OwnAnswers` | nothing is left of a script; it reads its own answers |
| `PluginsSound` | `LockAgrees`, `EnabledByHand`, `NoShadow` | lock file and code agree; nothing runs unasked |
| `FilesSound` | `AskedIsKept`, `SecretsApart`, `HealthOfEntry` | what was asked is kept; secrets apart; health is of the entry shown |
| `ServesConfig`, `NoOrphan` | `Consistent`, `MarkerMeansGraph` | what serves is of one configuration; a replaced scheduler stops |
| `ThreadSound` | `NothingLost`, `QuestionPending` | what was said is somewhere; a parked question waits |
| `StreamShown` | `ShownIsAnswer`, `NeverWaits`, `CardsClose` | what was shown begins the answer |
| `EvalSound` | `PassIsEarned`, `CleanSlate` | a pass is the case's own |
| `WorkbenchSound` | `NotesKept`, `IdsHold` | the notebook and the issue board |

### Bounds, and why they are enough

- **Scheduler.** Two backends in two processes: the lock is a contest of two. (Two backends
  in one process, reused ids and failing writes are covered by the theorems, for any
  number.) Two job ids, two adds: a row, and one that is added, cancelled or replaced while the first
  is posted. Clock 0..3 with a window of 2: a fire can be on time, late, and stale. Cron times 1, 3 and 4:
  two fires in the horizon and one beyond it, as the assumption on the constants asks.
  The liveness run has one process and one backend, writes that may fail, and a second
  job whose messages may be refused for ever.
- **TaskLifecycle.** One task: tasks share only crashes and boots, and every disjunct is indexed by
  one. Three pieces of text and three runs: paused twice, something streamed before,
  something buffered after.
- **GoalMode.** Two turns of one session and one goal, with budgets below and
  above the hard cap (Default 1, cap 3, budgets: the default and 3), two kinds of evidence, a no-progress limit of 2. The
  counterexample run uses one turn and clears its goal.
- **WorkflowEngine.** All 512 graphs on three steps, cyclic ones included, with references
  beyond and within the dependencies; one recipe for each other reason to refuse; a
  semaphore of two, so that a third step waits.
- **Inbox.** Two items, one key or none, a dedup window and a storm window of one tick and a clock of three:
  in, at and beyond both windows' edges. One allowed fire per window: the guard's limit
  is met by the second. Three items and a clock of two were checked apart.
- **EventBus.** Two consoles, a queue of two, four events, two connections
  each: overflow twice, and reconnect after each kind of end.
- **DiscordGateway.** A direct chat and a guild chat, three messages (a burst, one that joins it and one
  that comes while it is answered), a turn log of two, one reload, one activity event.
- **AcpClient.** Two locked calls, one delegated, two processes: an interrupted turn, its successor
  on the same or a fresh client, and a call that ignores the lock.
- **PeerConsult.** Two calls, two polls: the peer ends before, between and after them.
- **RemoteScheduler.** Two agents, ids that already carry either name and one that does not, three calls, two prompts: an add is replaced, cancelled and added again.
- **TurnLedger.** Two tasks, one call each, one model whose name has two matching prices, a reload that
  changes the skills. Checked apart: three model names and three sets of skills with one task outside the feed (1.7 M
  states), and two calls per task (0.8 M).
- **SkillsIndex.** Two look-alike names, one of them in files; three rowids, so that one is reused; one seeding and one
  curator run at any point of it; a pause of three half-lives, which is beyond the prune threshold.
- **TurnContext.** Two sessions, a cache life of one tick on a clock of two, one tool kept and one deferred, with and without store and
  skills, three messages.
- **KnowledgeBase.** Two texts, two chunks, a threshold of two failures and a cooldown of one tick: the breaker opens, closes and opens.
- **Delegation.** Two batches of two tasks, the concurrency configured as 0, one call per window of two ticks.
- **ExecuteCode.** Two scripts, one after the other, with two calls each: a stale answer of the first would meet the second.
- **PluginHost.** Two repositories and a bundled plugin, two commits, the server and the command line.
- **ConfigFiles.** Two settings and a secret, one plugin that owns one of each, one delegate, three writers of which two run. Three runs were checked apart (1.2 M states).
- **AgentReload.** One worker thread, two settings calls, two boots, and parts that fail singly or together.
- **ChatThread.** Two turns with two runs each on one or two threads, and both kinds of retirement.
- **ChatStream.** All eight items, four per turn, two runs, one workflow step; five items in three runs with two steps were checked apart (3.9 M states).
- **EvalRun.** Suites for each kind of case and for what one case may leave the next; each suite is run twice, also by a sweep that boots one agent. A larger instance was checked apart (8.1 M states).
- **Notebook.** One console and the agent; once two tabs and a history of one, once one tab and a history of two, so that undo goes back
  twice. Larger instances were checked apart (up to 2.7 M states).
- **IssueBoard.** Two ids and three issues: an id is reused.

`CHECK_DEADLOCK FALSE` is set where the only deadlocks are those of a bound: the clock's end,
the runs of a task, the events, connections, messages and calls. In GoalMode, which has none,
deadlock is checked. A call that waits for ever is looked for where it matters: `NeverWaits`
of AcpClient and of ChatStream, `BatchMoves`, `OwnAnswers`, and the liveness
properties.

### Fairness, and why the code justifies it

- **Scheduler** (`Fairness`): the poll loop catches every exception and goes on; a POST has a 30 s
  timeout; a cancelled task ends at its next await; a supervisor restarts a dead process,
  whose startup hook starts the backend, and who switched it off switches it on.
  Strong fairness is only for the agent accepting messages of the *good* jobs. Crashes and
  stops cease.
- **TaskLifecycle**: a stream ends (recursion limit, model timeouts), the SDK consumes its queue, a
  dead process is booted, crashes cease, and the last boot can reconcile.
- **GoalMode**: model runs end (recursion_limit), verifiers end (verify_timeout).
- **WorkflowEngine**: steps answer, fail or hit their turn cap; the event loop runs what is ready.

TurnUnion states these once more, each for its component only. No liveness property assumes that something
succeeds, except the accepting agent above.

### Mutations

For every property of every passing run there is a mutation of a mapped definition under which TLC
finds it violated: the lock released before the task ended, settlement by "due" instead of by id, a window
off by one, a buffer not emptied, a semaphore not released, a ledger row kept per
session instead of per task, an old lock-file entry left beside the new one, and so on.

## 4. The proofs

Each theorem is about the `Spec` the runs check, for all values of the constants that satisfy the named assumptions. Those are
what the code's types and its configuration give (natural numbers, a sentinel that is no member, distinct names), and TLC evaluates
them on every run. Where a theorem has a hypothesis of its own it is named below with the reason. The shape is always
the same: an inductive invariant that TLC has checked on the run's instance, `Init => Inv`, one lemma per action or group
of actions for `Inv /\ [Next]_vars => Inv'`, and `Inv => property`.

### Scheduler (`SchedulerProofs`)

- `TypeCorrect`, `TypeOK`. Strengthened by `PostHasRow`: a post under way has its row. The one
  arithmetic fact is `NextCronLater`, that croniter's next match exists and is later,
  which rests on the well-foundedness of the naturals and the assumption that the
  schedule has a match beyond the clock's bound.
- `PollerIsUnique`, `OnePoller`. `LockInv`: a running poll task
  holds the flock, and the flock has one holder. `OnePoller` alone is not inductive: it does not
  say why a second start is refused.
- `FiresAreNeverEarly`, `NeverEarly`. `EarlyInv`: whatever a tick holds was due at the tick, and so is now,
  wherever the table has moved since. Also with reused ids, refused messages and failing writes.
- `NoFireIsLost`, `NoLostFire`, for generated ids and an agent that refuses by HTTP status; without
  either hypothesis it is false (`sched_rpc_error` is the counterexample for the second). `TableInv`: ids are
  unique in the table and generations are unique over time. `ClaimInv`: a claimed row is
  in the table as it was claimed, or was cancelled. The proof covers failing writes and any
  number of backends because `LockInv` excludes a second settlement.
- `NoFireIsStray`, `NoStrayFire`, for generated ids and a table that takes its writes (a settlement that fails to
  commit is posted again by design). `SpentInv`: what was settled, or was stale at a start, is not held, and a row
  that still has its id is due later.
- `LedgerIsKept`: `Spec => LedgerSpec`, under the three hypotheses together. Every step of lock, loop and table is a step
  of JobLedger or leaves it alone; the invariants above say which.

### Tasks, goals, workflows (`TurnProofs`)

- `TaskOutcomes`, `OutcomeSound`, and `TaskKeepsProtocol`, `Spec => ProtocolSpec`. `TaskInv` says of each task which events may be queued at
  each point of its run (`Shape`), that the hook was told exactly what the queue will still store (`Hooked`), and that the
  stored text with the queued appends and the buffer is what was written (`Leads`, `Written`). The store lags behind the run, so neither
  property says anything about a step on its own. A crash and a boot that fails to reconcile are covered.
- `GoalsAreGrounded`, `Grounded`, and `GoalKeepsOutcome`, the action property `OutcomeKept`. `GoalInv`: the record in the file
  is justified by the verdicts of its own goal, exactly or, for a goal that met a failed or stale write, from below; a turn has not driven a goal
  more often than its count says (`Spent`). The assumption `budget <= MaxCount` only says that the bound of the
  model cuts no budget off.
- `WavesKeepTheDag`, `Spec => DagSpec`: the waves implement StepDag for every recipe, graph and width. `FlowInv` relates slots, waves and
  outputs. `PromptsAreFilled` and `ReturnedRunsAreWhole` are `PromptsFilled` and, but for the list of failures, `RunIsWhole`, parts of `RunSound`: `WholeInv` says that the steps are waiting, in the wave or done, and
  that what is done had all it waits for; `Upstream` is a set of paths, so the first needs a counting argument (a chain that stops growing has stopped).
- `WorkflowsAreSound`, `RunSound` whole, with `Verdict`: a recipe is refused if and only if an id or a reference is amiss, an input is missing, or no order of its steps
  has each after what it depends on. The depth-first search is reasoned about as a function over pairs of a node and marks. It exists because each visit of a dependency is less
  deep (`Depth`, `VisitExists`), and does what it should by induction on that depth (`GoodVisit`): the nodes that are done hold no knot (`Explored`), and the search was led to a node along those
  it is visiting (`Chained`). A knot is a set of steps none of which could be the first. A search that finds a cycle leaves a knot (`CycleIsKnot`), steps in order have none
  (`OrderMeansNoKnot`), and steps without one are put in order one by one (`NoKnotMeansOrder`). `TallyInv` adds the list of failures: each once, in the order of waves and,
  within one, of the recipe.
- `TurnsTyped`, `TypeOK` of TaskLifecycle, GoalMode and WorkflowEngine. Besides the shapes of the values it says that no more steps run than the semaphore has permits.

### Traffic (`TrafficProofs`)

- `StreamsAreSound`, `StreamSound`. `BusInv`: what a console got, then its queue, are the events since it connected with as many missing as were
  dropped (`Streamed`).
- `InboxIsSound`, `InboxSound`. `InboxInv`: the deque is the end of all fires that were allowed, and what it has lost is
  older than the window (`Guarded`). `NoStorm` counts over every window there was, not only the one that is checked.
- `AnswersAreIntact` and `AgentsAreSound`, `AnswerIntact` and `AgentsSound`. `AcpInv` says who may hold the lock and the start lock (`Locked`), which process of a client may
  live (`Launches`), whose turn an agent is at work for (`AtWork`), what the buffer may hold besides (`Buffered`), and that an unsound client in the cache is
  one that a call will drop when it fails, or one a cancelled call or a delegate left (`Cached`, `Tainted`, `Doomed`). That a call in "hello" or with a lost future cannot answer is what makes
  `Cached` inductive. The first attempt failed for a good reason: see the note on the reader in section 5. `GaveUp` therefore includes calls that
  were told their agent had exited.
- `EveryoneIsHeard`, `Heard`, for reloads that do not overlap: with two in flight a replaced gateway and its delivery loop may stay.
  `TalkInv`: all copies of a message are in one place, its chat's burst, a burst that is being answered or the answers (`OnePlace`), and what a burst is warmed with
  is older than it and complete up to the log's length (`InOrder`, `WarmOf`). `LoopInv`: at most one delivery loop runs, and none while a reload is under way.
- `TheBooksBalance`, `LedgerSound`, for finitely many tasks. `LedgerCore`: a run counts what was made since the last pause (`Counting`), the row of an ended task says what its
  last run counted (`Rowed`), what was told of a task is how it ended (`Told`), the feed has a part of that in the same order (`Fed`), and the card lists the types of the results (`OnCard`). That the totals of the summary, its parts by kind and by model and
  the bill are the same sum rests on lemmas of Basics about sums over finite sets (`SumRemove`, `SumPlus`, `SumUnion`, `SumByKind`).
- `PercentilesCover`: of any list in ascending order, at least p percent is no more than its p-th percentile, and a higher percentile is no less. The rounding is half-even
  and the rank is clamped at both ends, so the lists of one and of two are where it could go wrong. It is the part of `RollupsSound` on percentiles, for lists of any length.
- `TrafficTyped`, `TypeOK` of the five. `TypesHold` joins the invariants above with what they do not say: the lists of a stream stay within the queue's length, the fires of the
  inbox within `MaxFires`, and a delivery loop belongs to a gateway there was (`DiscordWhere`). It needs no hypothesis about reloads.

### Host (`HostProofs`, `NotebookProofs`)

All properties of HostUnion are proved.


- `OneConfigServes` and `NoPollerIsOrphaned`, `ServesConfig` and `NoOrphan`, for settings calls that run one at a time (`Workers` has one member); with two neither
  holds. `HostInv`: what a call has read and built fits what it will replace (`CallFits`), what serves fits together but during a swap (`Served`), the marker is
  over no graph only while a setup is under way (`InSetup`), and every backend that polls or will poll and should not has its stop behind it in the loop's queue (`StopQueued`).
  Any part and any step may fail, and the process may be stopped anywhere.
- `ThreadsKeepWhatIsSaid`, `ThreadSound`. `ChatInv`: what turns said on a thread is in what a run will save (`RunKnows`) and in what a retirement has read
  (`JobKnows`), or summarised, or the turn was raced. The three unlocked steps of retirement are why the property does not carry itself.
- `TurnsShowTheirAnswer`, `StreamShown`. `TextInv`: what was shown lies between the part of the text that is visible now and the
  part that can never be taken back (`Between`, with `Sure`), and what was written is the parts already stored, then the buffer (`Written`, `Buffered`). That `Visible` only
  grows while `Sure` does is the lemma it rests on: a mark opened later can hide only what was held back. `FlowInv` is about the workflow's events: while the
  stream drains its queue, either the engine's task runs or the last thing queued is its end (`OverComes`), and each card that runs has its end queued or its step still
  at work (`EndsCome`). That is why the `get` without a timeout cannot wait forever.
- `PassesAreEarned`, `EvalSound`, for any suite. `Attributed`: unless an earlier turn was given up on (`waited`), one turn runs at a time (`OneRuns`), and what the log after its mark, the rows with the
  case's token and its goal say is of that turn. The clean-up before and after a case keeps it from one case to the next.
- `WorkbenchHolds`, `WorkbenchSound`. The notebook's part is in NotebookProofs, about Notebook alone and for any number of consoles, tabs and versions; HostProofs
  instantiates it. It relates the file to the last save that was not overlapped, what a console holds to a version of it, and each tab's history to the
  texts the agent replaced. `BoardInv`: every id handed out is known with the issue it was given to.
- `HostTyped`, `TypeOK` of all six components, for any number of workers: what `HostInv` gives for one worker is proved anew, weaker, for overlapping calls (`HostSafe`).

### Stores and tools (`StoresProofs`, `FilesProofs`)

- `PluginsAreSound`, `PluginsSound`. `PlugInv`: an installer's copy of the lock is right about every plugin in order (`CopyAgrees`), and a
  run that was not overtaken is alone and its code is where it put it (`Undisturbed`). Kills at every step are covered.
- `CallsAreSound`, the action property `CallsSound`, without an instance id: with one, the middleware reads another directory than the one
  that is written. `Known`: a cached block has every summary older than it that is still among the newest.
  `NoSummaryEchoes`, `NoEcho`, needs no such hypothesis.
- `BridgeIsSound`, `BridgeSound`. `CodeInv`: while parent and child run, a call is in exactly one of the request pipe, the service's hands and the
  response pipe (`InHand`); afterwards only the last answer can be left in it (`LeftBehind`).
- `DelegationIsSound`, `DelegationSound`, of its three components. `DelegInv`: the limiter lists every call it let through within the window (`Listed`), and no window that has passed
  held more (`Held`); no more subagents run than there are permits, also when the limit is configured as 0. `PeerInv`: a finished call returned what it read, and stopped
  early only where nothing was to come. `RemoteInv`: what the bus will do to a job, in order, is as its agent was told (`Final`), for agents none of whose names begins
  another's; this is `Apart`, a premise of `JobsApart` itself.
- `IndexIsSound`, `IndexSound`. `SkillInv`: a name that is still to be inserted is in no row (`Unseeded`, `Unemitted`); in a run nobody disturbed, the emitted skills are
  those the curator read, less what it has deleted (`Came`); and each skill it read that has not faded is covered by a look-alike it keeps, as sure or surer (`Covers`).
- `KnowledgeIsSound`, `KnowledgeSound`. `BaseInv`: the breaker has counted the calls that failed and is open for a cooldown after the last (`Counted`), a batch knows the recent facts it is
  compared with, those it stored among them (`BatchCovered`), and the first thing a search has found or is about to fetch is a keyword hit, if there is one (`Hydrating`).
- `FilesAreSound`, `FilesSound`. `FileInv`: what a run holds agrees with the files on every key but its own (`Agrees`), says of its own what was asked (`Says`), and what it has
  written is still there (`Wrote`), except for spoiled keys; overlapping runs have spoiled theirs (`Overlap`); nothing on its way to the YAML holds a secret that was not put there by hand
  (`Tidy`). `HealthInv`: what a round of the prober found or has still to probe is of the entries there are. `FilesAssumption` keeps plain keys, secrets and delegate names apart, as the
  schema's sections do. The proof showed that the case analysis of `Asked` overlapped, and it is now one.
- `StoresTyped`, `TypeOK` of the nine. `StoresHold` joins their invariants with what those leave open: what was cached was read by now (`TurnTimes`), a task is one that somebody gave
  or its answer, and a mined skill is text a subagent wrote (`TasksFit`), a script asks no more than it may (`CodeHolds`), the jobs of the install and what their agents were told of them are of prompts and agents there are (`RemoteTyped`), and only
  those who write have runs, on keys there are (`FileMore`).

### What is only model-checked, and why

Every invariant and every action property of the passing runs is stated by a theorem. What is left:

- *Out of the prover's reach*: `OthersFire`, `NeverStuck`, `TurnEnds`, `RunEnds` (liveness), and anything about ENABLED.
- *Assumptions TLC evaluates*: that fewer than half of the turns are `Outliers` (`RollupsSound` of TurnLedger), over bounded inputs: a median is a sorted list's, and the library
  sorts by an operator parameter. And the assumptions on the constants.
- *Under hypotheses*: theorems that have one name it above with the reason; the runs of section 3 check what they check without any other.
- *Findings* are counterexamples of TLC, by nature about one instance.

## 5. What the models found

Six disagreements have a run (`findings` in `PROJECT.json` quotes both sides): a refusal in a 200 response
loses a fire; text persisted at a pause is replaced on resume; a cleared goal returns; the keepalive ends the
stream it should hold open; a hot reload drops the issue tools; an answer to one task resumes the question of another
on the same thread.

### Statements the code does not keep

These are defined beside the properties, in the words of a doc or comment, and are in no passing run; TLC violates
them on the instances above, or on larger ones.

- `AgentReload.KeyKept`: a blank value leaves the stored key unchanged. A key that was written in the YAML by hand is stripped by any save.
- `ChatStream.ArtifactIsAnswer`: the artifact is the final text. Once text was streamed, what comes only at the end (a goal's verdict) is not added.
- `Delegation.NoSkillOnFailure`, `Delegation.OutputIsOwn`: a subagent that ended with an error text can leave a skill, and its "output" can be its prompt or a tool's message when it wrote nothing.
- `DiscordGateway.OneGateway`: two reloads that overlap in their awaits leave a gateway the plugin does not hold.
- `EvalRun.AbstainMeansNone`: `expected_tools: []` asserts nothing, though `evals/runner.py:246-248` says it asserts that no tool fired.
- `ExecuteCode.NoOrphan`: a cancelled turn leaves the script's process running.
- `KnowledgeBase.TopK`: vectors of deleted chunks take places of a search's k.
- `PeerConsult.RepliesOnly`: a reply that comes as a plain message is reported as "no text"; word of progress, a question or the reason of a failure is relayed as the reply.
- `RemoteScheduler.JobsAlwaysApart`: agents that share an install do not cross-fire. Agent `gina` with the job `work-x` and agent `gina-work` with the job `x` share the id `gina-work-x`.
- `SkillsIndex.DiskPinned`, `HalfLife`, `OnlyJudged`: a reused rowid lets the curator overwrite or delete a skill it never read; decay is applied again at each run to what it already decayed.
- `TurnContext.ContextDelivered`: what the knowledge middleware gathers is shown to the model. It returns it under the state key `context`, which the graph has
  not: `create_agent` is called without a state schema (`graph/agent.py:702`), no middleware declares one, `ProtoAgentState` is used nowhere, and LangGraph drops keys it does not
  know. (LangGraph is external; that it drops them is the model's assumption, `Channels`.) `TurnContext.GoalTurnClean`: the sessions an earlier turn put into the messages are still there in a goal's turn.
- `TurnLedger.AlwaysAdvertised`: after a reload a structured result may have a type that the card, built at boot, lacks.

### Observations without a run

Scheduler, inbox, tasks, goals, workflows, coding agent:

- A producer's retry of a now-item that was already *delivered* is a new item and fires a
  second turn (`inbox/store.py:11-12` says retries do not each fire). A fired now-item stays pending, so `check_inbox` surfaces it again.
- A job added under a reused id while the old one is posted is deleted by the old one's settlement. A turn longer than
  the scheduler's 30 s timeout is repeated.
- The 24 h sweep deletes paused tasks that could still be answered. The hook is told before the SDK stores: a crash in between leaves the two apart.
- Session ids that differ only in characters outside `[A-Za-z0-9-_.]` share one goal file. Overlapping turns of one session can
  re-activate a goal that had an outcome; a goal's own budget may exceed a turn's hard cap.
- A wave waits for its slowest step, so a workflow's latency is not that of its critical path (`docs/guides/workflows.md`).
- An acp delegate takes no lock, drops no failed client and ignores `confirm`, though `docs/guides/coding-agents.md` says both
  paths share one client discipline. Dropped clients are never closed.
- A reader that ends fails the pending requests of its client, not of its process (`acp_client.py:153-159`). When an agent has exited, was reaped and
  replaced before its reader ended, that reader fails the new process's turn: the call reports "agent exited" while its agent
  goes on writing, and a call that had fetched the same client before gets that text in its answer. The proof of `AnswersAreIntact` found it: it takes three calls, one more than the run has.

Ledger of turns:

- Canceled turns get no row, though `telemetry_store.py:10-11` says that they are captured. A resumed task's row and feed entry hold its last run only, and name who resumed it.
- Workflow and subagent short-cuts and the structured finalizer's model calls report no usage. The split by model puts a turn of several models on its first.
- `_percentile` rounds half to even, so the median of two values is the larger. Nothing calls `TelemetryStore.prune`.

Peers:

- `peer_consult` and the a2a adapter send `message/send` and read parts by `kind`, the shapes before A2A 1.0, while the server and the eval client
  speak 1.0 (ADR 0014). "rejected" is no terminal state to them: such a task is polled 30 times. Nothing cancels the peer's task when the turn is cancelled.

Reload, configuration, plugins:

- `set_disabled_tools` is applied before a rebuild that may fail. A reload does not read plugin workflow directories, plugin skills,
  thread resolver or plugin subagents again. A first setup through a reload leaves goal controller and cache warmer unset until a restart.
- Off and on again in quick succession: the start is refused while the old backend holds the lock, and not tried again. Two overlapping reloads can orphan a poller.
- A save truncates the YAML in place, so that a concurrent reader sees an empty file and may write everything else away. Deleting a delegate
  leaves its secret; editing one keeps only the schema's fields; a stale form reverts others' changes; overlapping reloads can install an older roster.
- Install writes to one directory while the loader may read another (`plugins.dir`); sync records the commit as the requested ref; a manifest's `enabled: true` needs no operator.

Threads and text:

- Harvest failing still deletes the thread. `_last_ai` returns an earlier answer when the run pauses.
- An empty `<output></output>` shows a literal `</output>`; a stray `</think>` inside the output is streamed though stripped from the final text; the first `<output>` of any model call of a turn is its answer.

Stores and tools:

- Nothing bumps a skill's `last_used` on loading, though `graph/skills/index.py:206` says so. Facts harvested without a namespace are compared with every namespace's.
- The manual batch hands no skill index to its subagents. Every batch has its own semaphore, so batches side by side exceed the limit.
- Overlapping notebook saves share one temporary file; an unreadable file silently becomes a new workspace; the agent's load-change-save can overwrite a console's save; an edit made during a save loses its mark.
- An issue's id is reused when the highest was deleted; `update(status="closed")` sets no `closed_at`, and reopening keeps it.
- Discord: when `GET /users/@me` fails at start the gateway never connects; two bursts of a chat can run two turns on one thread; the gateway identifies anew and never resumes.
- Evals: a sweep's agents write their audit log under the instance id, which `verify._audit_path` does not read; a turn given up on is credited to later cases; any server on the port counts as healthy.

## 6. Not modelled

The map covers about 30 % of the implementation's lines. Left out, with the reasons per component in `PROJECT.json`:

- *Pure predicates and formatting*: auth, egress, URL policy, prompts, redaction, compaction, observability. A model would restate them.
- *Wrappers of one external call*: most agent tools, Google, the openai adapter, the cache warmer.
- *Clients*: console, desktop shell, Gradio UI (but for the notes panel and the event stream's reader).
- *Data*: subagent definitions, settings fields, recipes; the workflow registry is a directory read once per reload.
- *What SQLite or a model computes*: rankings, similarity, texts. They are any order, any relation, any sequence of items.
- *Products of components.* Only the interfaces of section 2 connect them; no run has two components at work at once, apart from those that share a module.
- Overlapping reloads are in no passing run: AgentReload has one worker thread there, for with two `NoOrphan` does not hold.

## 7. What comes next

1. *Products of components*: a reload while turns run on the old graph, a retirement while the task store sweeps. Section 2 says which variables would be shared.
2. *More of the source*: the parts section 6 lists that have state of their own, the workflow registry and the prompt-cache warmer first.
3. *Liveness* of the scheduler and the task store, once a prover with fairness rules is at hand; their fairness is stated in section 3.
