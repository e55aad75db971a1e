---------------------------- MODULE StoresUnion ----------------------------
(* The skill index, what a model call is shown, the knowledge base, the     *)
(* delegation tools, the peers and the remote scheduler that are asked, the *)
(* script tool, the plugins from git and the configuration files.  Each     *)
(* behaviour is one component's, picked at the start.                       *)
EXTENDS Integers, Sequences

CONSTANTS
  Null,
  Names, DiskNames, Similar, MaxRow, Days, MaxSeeds, MaxCurations,          \* SkillsIndex
  Sessions, Tools, Keep, MaxSessions, Ttl, Scoped, MaxMessages, MaxTime,    \* TurnContext
  Contents, Near, Namespaces, VectorK, BreakAfter, Cooldown, FactLimit,     \* KnowledgeBase
  MaxChunk,
  Calls, Tasks, MaxConcurrency, MaxGated, Window,                           \* Delegation
  MaxPolls,                                                                 \* PeerConsult
  Agents, JobIds, Words, Prompts, MaxPublished,                         \* RemoteScheduler
  MaxAsked, Scripts,                                                        \* ExecuteCode
  Plugins, Builtin, SelfOn, Commits, Installers, Syncers, Switched,         \* PluginHost
  Plain, Secret, Purged, Delegated, Values, Savers, Loop, Remover, MaxSaves \* ConfigFiles

VARIABLES pick,
          rows, day, seeds, seeding, emitting, curator,
          conf, now, thread, running, files, cache, call,
          hybrid, chunks, last, vectors, breaker, failed, clock, op,
          job, task, skills, window, ran, time,
          consult, peer, bus, jobs, told, calls,
          parent, runs, child, req, resp, service, got, fds, file,
          code, lock, enabled, actor, trusted, broken,
          yaml, secrets, torn, writer, saves, panel, sweep, health, want, spoiled, hand, changed

skillVars == <<rows, day, seeds, seeding, emitting, curator>>
turnVars == <<conf, now, thread, running, files, cache, call>>
baseVars == <<hybrid, chunks, last, vectors, breaker, failed, clock, op>>
jobVars == <<job, task, skills, window, ran, time>>
peerVars == <<consult, peer>>
remoteVars == <<bus, jobs, told, calls>>
codeVars == <<parent, runs, child, req, resp, service, got, fds, file>>
plugVars == <<code, lock, enabled, actor, trusted, broken>>
fileVars == <<yaml, secrets, torn, writer, saves, panel, sweep, health, want, spoiled, hand,
              changed>>
vars == <<pick, skillVars, turnVars, baseVars, jobVars, peerVars, remoteVars, codeVars, plugVars,
          fileVars>>

Skills == INSTANCE SkillsIndex WITH Alike <- Similar, MaxId <- MaxRow, MaxRuns <- MaxCurations
Turn == INSTANCE TurnContext
Base == INSTANCE KnowledgeBase WITH
  now <- clock, Texts <- Contents, Alike <- Near, Threshold <- BreakAfter, MaxId <- MaxChunk
Delegates == INSTANCE Delegation WITH call <- job, now <- time, MaxCalls <- MaxGated
Peers == INSTANCE PeerConsult
Remote == INSTANCE RemoteScheduler WITH Ids <- JobIds, MaxCalls <- MaxPublished
Code == INSTANCE ExecuteCode WITH MaxCalls <- MaxAsked, Runs <- Scripts
Plug == INSTANCE PluginHost WITH Actors <- Installers, None <- Null
Config == INSTANCE ConfigFiles WITH
  runs <- saves, Names <- Delegated, MaxRuns <- MaxSaves, None <- Null

ASSUME SkillsAssumption == Skills!SkillsAssumption
ASSUME ContextAssumption == Turn!ContextAssumption
ASSUME KnowledgeAssumption == Base!KnowledgeAssumption
ASSUME DelegationAssumption == Delegates!DelegationAssumption
ASSUME ConsultAssumption == Peers!ConsultAssumption
ASSUME RemoteAssumption == Remote!RemoteAssumption
ASSUME CodeAssumption == Code!CodeAssumption
ASSUME PluginAssumption == Plug!PluginAssumption
ASSUME FilesAssumption == Config!FilesAssumption

\* A component that is not picked stays in its first state.
Init == /\ pick \in {"skills", "turn", "base", "delegates", "peers", "remote", "code", "plugins",
                    "config"}
        /\ Skills!Init /\ Turn!Init /\ Base!Init /\ Delegates!Init
        /\ Peers!Init /\ Remote!Init /\ Code!Init /\ Plug!Init /\ Config!Init
        /\ (pick # "turn" => conf = [store |-> TRUE, skills |-> TRUE])
        /\ (pick # "base" => hybrid)

Next ==
  \/ pick = "skills" /\ Skills!Next
     /\ UNCHANGED <<pick, turnVars, baseVars, jobVars, peerVars, remoteVars, codeVars, plugVars, fileVars>>
  \/ pick = "turn" /\ Turn!Next
     /\ UNCHANGED <<pick, skillVars, baseVars, jobVars, peerVars, remoteVars, codeVars, plugVars, fileVars>>
  \/ pick = "base" /\ Base!Next
     /\ UNCHANGED <<pick, skillVars, turnVars, jobVars, peerVars, remoteVars, codeVars, plugVars, fileVars>>
  \/ pick = "delegates" /\ Delegates!Next
     /\ UNCHANGED <<pick, skillVars, turnVars, baseVars, peerVars, remoteVars, codeVars, plugVars, fileVars>>
  \/ pick = "peers" /\ Peers!Next
     /\ UNCHANGED <<pick, skillVars, turnVars, baseVars, jobVars, remoteVars, codeVars, plugVars, fileVars>>
  \/ pick = "remote" /\ Remote!Next
     /\ UNCHANGED <<pick, skillVars, turnVars, baseVars, jobVars, peerVars, codeVars, plugVars, fileVars>>
  \/ pick = "code" /\ Code!Next
     /\ UNCHANGED <<pick, skillVars, turnVars, baseVars, jobVars, peerVars, remoteVars, plugVars, fileVars>>
  \/ pick = "plugins" /\ Plug!Next
     /\ UNCHANGED <<pick, skillVars, turnVars, baseVars, jobVars, peerVars, remoteVars, codeVars, fileVars>>
  \/ pick = "config" /\ Config!Next
     /\ UNCHANGED <<pick, skillVars, turnVars, baseVars, jobVars, peerVars, remoteVars, codeVars, plugVars>>

Spec == Init /\ [][Next]_vars

\* Of a component that is not picked only the first state is seen.
TypeOK ==
  CASE pick = "skills" -> Skills!TypeOK
    [] pick = "turn" -> Turn!TypeOK
    [] pick = "base" -> Base!TypeOK
    [] pick = "delegates" -> Delegates!TypeOK
    [] pick = "peers" -> Peers!TypeOK
    [] pick = "remote" -> Remote!TypeOK
    [] pick = "code" -> Code!TypeOK
    [] pick = "plugins" -> Plug!TypeOK
    [] pick = "config" -> Config!TypeOK

IndexSound == pick = "skills" => Skills!IndexSound
NoEcho == pick = "turn" => Turn!NoEcho
CallsSound == Turn!CallsSound
KnowledgeSound == pick = "base" => Base!KnowledgeSound
\* What the agent has others do: subagents, peers, the remote scheduler.
DelegationSound == /\ pick = "delegates" => Delegates!DelegationSound
                   /\ pick = "peers" => Peers!AnswerInTime
                   /\ pick = "remote" => Remote!JobsApart
BridgeSound == pick = "code" => Code!BridgeSound
PluginsSound == pick = "plugins" => Plug!PluginsSound
FilesSound == pick = "config" => Config!FilesSound
=============================================================================
