---------------------------- MODULE TurnContext ----------------------------
(***************************************************************************)
(* What one model call is shown (graph/middleware).  Before each call the  *)
(* knowledge middleware gathers prior sessions, hot facts, skills and hits *)
(* into the state key "context"; without a store the memory middleware     *)
(* puts the prior sessions into the messages instead; around the call the  *)
(* prompt-cache middleware delivers the context and the deferral           *)
(* middleware trims the tools.  After a turn's last message the memory     *)
(* middleware writes the session's summary file, which later calls of all  *)
(* sessions read through caches of a minute.                               *)
(*                                                                         *)
(* The hooks run on the event loop without a wait, so a call's preparation *)
(* is one step; turns of different sessions interleave between calls.      *)
(***************************************************************************)
EXTENDS Integers, Sequences, FiniteSets

CONSTANTS Sessions, Tools, Keep, MaxSessions, Ttl,
          Scoped,       \* an instance id (PROTOAGENT_INSTANCE) is set
          MaxTime,      \* bound: the clock
          MaxMessages,  \* bound: messages of a thread
          Null

ContextAssumption ==
  /\ Keep \subseteq Tools /\ Scoped \in BOOLEAN
  /\ {MaxSessions, Ttl, MaxTime, MaxMessages} \subseteq Nat /\ MaxSessions > 0

VARIABLES conf,     \* which parts the configuration switches on
          now,
          thread,   \* session -> its checkpointed messages
          running,  \* session -> Null or its turn, and whether a goal drives it
          files,    \* session -> its summary, for those that have a file
          cache,    \* middleware -> the prior sessions it last read
          call      \* the model call being prepared: what was gathered and what is shown

vars == <<conf, now, thread, running, files, cache, call>>

Confs == [store: BOOLEAN, skills: BOOLEAN]
Parts == {"facts", "skills"}
Messages == [kind: {"human", "ai", "prior", "search"}, data: SUBSET Tools]
NoCall == [session |-> Null, gathered |-> {}, block |-> {}, shown |-> {}, tools |-> {}]

Message(k, d) == [kind |-> k, data |-> d]

Init == /\ conf \in Confs
        /\ now = 0
        /\ thread = [s \in Sessions |-> << >>]
        /\ running = [s \in Sessions |-> Null]
        /\ files = << >>
        /\ cache = [m \in {"knowledge", "memory"} |-> Null]
        /\ call = NoCall

(***************************************************************************)
(* Prior sessions.  The block holds the newest summary files; without the  *)
(* directory, which the first summary makes, it is empty.  The knowledge middleware passes the literal  *)
(* "/sandbox/memory/", the memory middleware the path scoped by instance.  *)
(***************************************************************************)
Newer(s) == {t \in DOMAIN files : files[t].at > files[s].at}
LoadPriorSessions ==
  {<<s, files[s].at>> : s \in {t \in DOMAIN files : Cardinality(Newer(t)) < MaxSessions}}

LoadMemory == IF Scoped THEN {} ELSE LoadPriorSessions

\* Mutation: the cache is never refreshed.
StaleBug(m) == cache[m] = Null

Stale(m) == cache[m] = Null \/ (cache[m] # Null /\ now - cache[m].at > Ttl)
Read(m, block) == IF Stale(m) THEN [block |-> block, at |-> now] ELSE cache[m]

(* The knowledge middleware is built for a store or for skills. *)
HasKnowledge == conf.store \/ conf.skills

(* KnowledgeMiddleware.before_model: the parts of {"context": ...}. *)
KnowledgeParts(goal, got) ==
  (IF Read("knowledge", LoadMemory).block # {} /\ ~goal THEN {"prior"} ELSE {})
    \cup {p \in got : IF p = "skills" THEN conf.skills ELSE conf.store}

(* MemoryMiddleware.before_model returns the messages with the block in front. *)
MemoryActs(goal) == ~conf.store /\ ~goal
WithPrior(msgs) ==
  IF Read("memory", LoadPriorSessions).block = {} \/ msgs = << >> THEN msgs
  ELSE <<Message("prior", {})>> \o msgs

(* The add_messages reducer: messages the thread already has stay in their *)
(* places, and the others are added at the end.                            *)
AddMessages(old, new) == old \o SubSeq(new, 1, Len(new) - Len(old))

(* create_agent is given no state schema, so these are the keys a node's   *)
(* update may set; other keys are dropped.                                 *)
Channels == {"messages"}

(* PromptCacheMiddleware appends state["context"] after the stable prompt. *)
Deliver(context) == IF "context" \in Channels THEN context ELSE {}

(* ToolDeferralMiddleware: the base tools and what search_tools returned.  *)
Activated(msgs) == UNION {msgs[i].data : i \in {j \in DOMAIN msgs : msgs[j].kind = "search"}}
Exposed(msgs) ==
  LET kept == Keep \cup Activated(msgs) IN IF kept = {} THEN Tools ELSE kept

(***************************************************************************)
(* Turns.                                                                  *)
(***************************************************************************)
StartTurn(s, goal) ==
  /\ running[s] = Null /\ Len(thread[s]) < MaxMessages
  /\ running' = [running EXCEPT ![s] = [goal |-> goal, at |-> "ready"]]
  /\ thread' = [thread EXCEPT ![s] = Append(@, Message("human", {}))]
  /\ UNCHANGED <<conf, now, files, cache, call>>

ModelCall(s, got) ==
  /\ running[s] # Null /\ running[s].at = "ready"
  /\ LET goal == running[s].goal
         gathered == IF HasKnowledge THEN KnowledgeParts(goal, got) ELSE {}
         view == IF MemoryActs(goal) THEN AddMessages(thread[s], WithPrior(thread[s]))
                 ELSE thread[s]
     IN /\ cache' = [m \in DOMAIN cache |->
                       IF m = "knowledge"
                       THEN IF HasKnowledge THEN Read(m, LoadMemory) ELSE cache[m]
                       ELSE IF MemoryActs(goal) THEN Read(m, LoadPriorSessions) ELSE cache[m]]
        /\ thread' = [thread EXCEPT ![s] = view]
        /\ call' = [session |-> s, gathered |-> gathered,
                    block |-> IF "prior" \in gathered THEN Read("knowledge", LoadMemory).block
                              ELSE IF MemoryActs(goal) THEN Read("memory", LoadPriorSessions).block
                              ELSE {},
                    shown |-> Deliver(gathered), tools |-> Exposed(view)]
  /\ running' = [running EXCEPT ![s].at = "asked"]
  /\ UNCHANGED <<conf, now, files>>

(* The model calls search_tools, which lists tools that are not kept. *)
SearchTools(s, found) ==
  /\ running[s] # Null /\ running[s].at = "asked" /\ Len(thread[s]) < MaxMessages
  /\ found \subseteq Tools \ Keep
  /\ thread' = [thread EXCEPT ![s] = @ \o <<Message("ai", {}), Message("search", found)>>]
  /\ running' = [running EXCEPT ![s].at = "ready"]
  /\ call' = NoCall /\ UNCHANGED <<conf, now, files, cache>>

\* Mutation: system messages are kept.
SummaryBug(msgs) ==
  LET said == {i \in DOMAIN msgs : msgs[i].kind # "search"}
  IN [at |-> now, msgs |-> [i \in said |-> msgs[i]]]

(* _persist_session writes the human and assistant messages, in one rename. *)
Summary(msgs) ==
  LET said == {i \in DOMAIN msgs : msgs[i].kind \in {"human", "ai"}}
  IN [at |-> now, msgs |-> [i \in said |-> msgs[i]]]

Answer(s) ==
  /\ running[s] # Null /\ running[s].at = "asked"
  /\ thread' = [thread EXCEPT ![s] = Append(@, Message("ai", {}))]
  /\ files' = [t \in DOMAIN files \cup {s} |-> IF t = s THEN Summary(thread'[s]) ELSE files[t]]
  /\ running' = [running EXCEPT ![s] = Null]
  /\ call' = NoCall /\ UNCHANGED <<conf, now, cache>>

(* A turn that fails or is cancelled reaches no after_agent. *)
Abort(s) == /\ running[s] # Null
            /\ running' = [running EXCEPT ![s] = Null]
            /\ call' = NoCall /\ UNCHANGED <<conf, now, thread, files, cache>>

Tick == now < MaxTime /\ now' = now + 1
        /\ UNCHANGED <<conf, thread, running, files, cache, call>>

Next == \/ \E s \in Sessions :
             \/ \E goal \in BOOLEAN : StartTurn(s, goal)
             \/ \E got \in SUBSET Parts : ModelCall(s, got)
             \/ \E found \in SUBSET Tools \ {{}} : SearchTools(s, found)
             \/ Answer(s) \/ Abort(s)
        \/ Tick

Spec == Init /\ [][Next]_vars

(***************************************************************************)
(* Properties                                                              *)
(***************************************************************************)
(* Messages, files, caches and the configuration have their types. *)
TypeOK ==
  /\ conf \in Confs /\ now \in 0..MaxTime
  /\ \A s \in Sessions : \A i \in DOMAIN thread[s] : thread[s][i] \in Messages
  /\ \A m \in DOMAIN cache : cache[m] = Null \/ cache[m].at \in 0..now
  /\ DOMAIN files \subseteq Sessions /\ \A s \in DOMAIN files : files[s].at \in 0..now

(* Continuity has a bound: when prior sessions are put before the model,    *)
(* every session summary older than the cache's lifetime is among them, at  *)
(* its latest version, up to the newest MaxSessions files (the caches are   *)
(* refreshed so that sessions persisted after boot become visible).         *)
Prepared == call' # call /\ call'.session # Null
ForGoal == running[call'.session].goal
View == thread'[call'.session]
Due(s) == files[s].at + Ttl < now /\ Cardinality(Newer(s)) < MaxSessions
ContinuityFresh ==
  ~ForGoal => \A s \in DOMAIN files : Due(s) => <<s, files[s].at>> \in call'.block

(* A goal-driven turn is not prepared with other sessions' history: its     *)
(* calls add no prior sessions to the context nor to the messages.          *)
GoalCallsAddNone ==
  ForGoal => call'.block = {} /\ "prior" \notin call'.gathered /\ thread' = thread

(* What a model call is given of other sessions is right for its turn.      *)
CallsSound == [][Prepared => ContinuityFresh /\ GoalCallsAddNone]_vars

(* What one session's summary feeds to the others is its own conversation:  *)
(* injected blocks are never written to a summary again, and a summary ends *)
(* with the answer that completed the turn.                                 *)
Ends(msgs) == \E i \in DOMAIN msgs : msgs[i].kind = "ai" /\ \A j \in DOMAIN msgs : j <= i
NoEcho == \A s \in DOMAIN files :
            /\ \A i \in DOMAIN files[s].msgs : files[s].msgs[i].kind # "prior"
            /\ Ends(files[s].msgs)

(* Not so: "context delivery happens regardless" (prompt_cache.py:20), what *)
(* was gathered is shown.  The graph has no channel for it.                 *)
ContextDelivered == call.gathered \subseteq call.shown

(* Not so: a goal's turn has no prior sessions among its messages.  Those   *)
(* that an earlier turn put there stay.                                     *)
GoalTurnClean == [][Prepared /\ ForGoal => \A i \in DOMAIN View : View[i].kind # "prior"]_vars
=============================================================================
