----------------------------- MODULE TurnLedger -----------------------------
(***************************************************************************)
(* What is kept of a turn beside its answer: a2a_executor.py counts what   *)
(* its stream reports, the terminal hook of server/a2a.py writes a row of  *)
(* telemetry (telemetry_store.py) and, for a turn of the Activity thread,  *)
(* an entry of the feed (activity/store.py) and an event on the bus.  A    *)
(* skill with an output schema adds a structured result to the answer; the *)
(* agent card that advertises it is built once, at start.                  *)
(*                                                                         *)
(* Order and storage of the task's own events are in TaskLifecycle.  Tokens*)
(* are one per model call; a duration is not followed.  World-state deltas,*)
(* confidence, tool cards, Prometheus and the push notifications are left  *)
(* out.                                                                    *)
(***************************************************************************)
EXTENDS Integers, SequencesExt

CONSTANTS
  Tasks, Activity,     \* task ids; those whose context is the Activity thread
  Names,               \* model names a provider reports: sequences of words
  Rates,               \* [name -> price of a token]: MODEL_RATES without its default
  DefaultRate,
  Origins,             \* what may trigger a turn
  SkillSets,           \* the a2a.skills a configuration may declare
  MaxCalls,            \* bound on the model calls of a task
  Unset                \* no such key

LedgerAssumption ==
  /\ IsFiniteSet(Tasks) /\ Activity \subseteq Tasks
  /\ \A name \in Names \union DOMAIN Rates : name \in Seq(ToSet(name))
  /\ DefaultRate \in Nat /\ \A k \in DOMAIN Rates : Rates[k] \in Nat
  /\ MaxCalls \in Nat

(* A skill is its id and the MIME type of its result; without a schema, Unset. *)
Template == {[id |-> "chat", mime |-> Unset]}

VARIABLES
  live,      \* the process runs
  specs,     \* a2a.skills of the current configuration
  card,      \* MIME types on the agent card of this process
  phase,     \* how each task stands
  run,       \* the locals of execute()
  ledger,    \* the row of telemetry of each task that has one
  feed,      \* entries of the Activity feed
  news,      \* history: activity.message events published
  bill,      \* cost on the artifact of a task's answer
  results,   \* history: MIME types of the structured results of this process
  made,      \* history: model calls of a task
  parked,    \* history: those made before its last pause
  missed,    \* history: tasks whose row could not be written
  spoken,    \* history: tasks whose reported run had an answer
  stale      \* history: the configuration changed since the card was built

vars == <<live, specs, card, phase, run, ledger, feed, news, bill, results, made, parked,
          missed, spoken, stale>>
books == <<ledger, feed, news, missed, spoken>>

NoRun == [pc |-> "none"]
Ended == {"completed", "failed"}

TypeOK ==
  /\ {live, stale} \subseteq BOOLEAN
  /\ phase \in [Tasks -> {"new", "running", "paused", "canceled", "lost"} \union Ended]
  /\ \A t \in Tasks : run[t].pc \in {"none", "stream", "finalize"}
  /\ DOMAIN ledger \subseteq Tasks
  /\ \A t \in DOMAIN ledger : ledger[t].task = t /\ ledger[t].state \in Ended
  /\ \A i \in DOMAIN feed : feed[i].task \in Activity
  /\ \A i \in DOMAIN news : news[i].task \in Activity
  /\ bill \in [Tasks -> Nat] /\ made \in [Tasks -> 0..MaxCalls] /\ parked \in [Tasks -> 0..MaxCalls]
  /\ missed \subseteq Tasks /\ spoken \subseteq Tasks

Init ==
  /\ live = FALSE /\ specs \in SkillSets /\ card = {}
  /\ phase = [t \in Tasks |-> "new"] /\ run = [t \in Tasks |-> NoRun]
  /\ ledger = [t \in {} |-> Unset] /\ feed = <<>> /\ news = <<>> /\ results = {}
  /\ bill = [t \in Tasks |-> 0] /\ made = [t \in Tasks |-> 0] /\ parked = [t \in Tasks |-> 0]
  /\ missed = {} /\ spoken = {} /\ stale = FALSE
-----------------------------------------------------------------------------
(* Skills and the card *)

(* _resolved_skill_specs *)
Resolved == IF specs = {} THEN Template ELSE specs

(* _agent_skills: the output modes of the card. *)
Advertised == {s.mime : s \in Resolved} \ {Unset}

(* structured_skill_schema: the result type of a skill, or Unset. *)
SchemaOf(id) ==
  LET typed == {s \in Resolved : s.id = id /\ s.mime # Unset}
  IN IF typed = {} THEN Unset ELSE (CHOOSE s \in typed : TRUE).mime

Boot ==
  /\ ~live /\ live' = TRUE
  /\ card' = Advertised /\ stale' = FALSE /\ results' = {}
  /\ UNCHANGED <<specs, phase, run, books, bill, made, parked>>

(* A reload replaces the configuration; the card stays. *)
Reload ==
  /\ live
  /\ specs' \in SkillSets \ {specs}
  /\ stale' = TRUE
  /\ UNCHANGED <<live, card, phase, run, books, bill, results, made, parked>>
-----------------------------------------------------------------------------
(* Prices *)

(* rate_for: the name itself or the longest priced name within it.         *)
RateFor(name) ==
  LET within == {k \in DOMAIN Rates :
                   \E i \in 1..(Len(name) - Len(k) + 1) : SubSeq(name, i, i + Len(k) - 1) = k}
  IN IF within = {} THEN DefaultRate
     ELSE Rates[CHOOSE k \in within : \A j \in within : Len(j) <= Len(k)]
-----------------------------------------------------------------------------
(* The run of a turn *)

(* _request_metadata: the request's keys over those of the message.        *)
Metadata(message, request) ==
  [k \in {"origin", "skillHint"} |-> IF request[k] = Unset THEN message[k] ELSE request[k]]

NewRun(md) ==
  [pc |-> "stream", origin |-> md.origin, hint |-> md.skillHint, calls |-> 0, tools |-> 0,
   cost |-> 0, models |-> <<>>, said |-> FALSE, mime |-> Unset]

(* A message starts a task, or goes on with a paused one.                  *)
Begin(t) ==
  /\ live /\ phase[t] \in {"new", "paused"}
  /\ \E origin \in Origins \union {Unset}, hint \in {s.id : s \in Resolved} \union {Unset},
        routed \in BOOLEAN :
       LET silent == [origin |-> Unset, skillHint |-> Unset]
           keys == [origin |-> origin, skillHint |-> hint]
       IN run' = [run EXCEPT ![t] = NewRun(IF routed THEN Metadata(silent, keys)
                                                     ELSE Metadata(keys, silent))]
  /\ phase' = [phase EXCEPT ![t] = "running"]
  /\ UNCHANGED <<live, specs, card, books, bill, results, made, parked, stale>>

Stays == <<live, specs, card, phase, books, bill, results, parked, stale>>

(* A "usage" event: one model call, with what it cost and who answered.    *)
ModelCall(t, name) ==
  /\ run[t].pc = "stream" /\ made[t] < MaxCalls
  /\ made' = [made EXCEPT ![t] = @ + 1]
  /\ LET r == run[t] IN
     run' = [run EXCEPT ![t] = [r EXCEPT !.calls = @ + 1, !.cost = @ + RateFor(name),
                                         !.models = IF Contains(@, name) THEN @
                                                    ELSE Append(@, name)]]
  /\ UNCHANGED Stays

(* "tool_start" *)
ToolStart(t) ==
  /\ run[t].pc = "stream" /\ run[t].tools < run[t].calls
  /\ run' = [run EXCEPT ![t].tools = @ + 1]
  /\ UNCHANGED <<Stays, made>>

(* "text" *)
Say(t) ==
  /\ run[t].pc = "stream" /\ ~run[t].said
  /\ run' = [run EXCEPT ![t].said = TRUE]
  /\ UNCHANGED <<Stays, made>>

(* "input_required": what this run counted goes with its locals.           *)
Pause(t) ==
  /\ run[t].pc = "stream"
  /\ phase' = [phase EXCEPT ![t] = "paused"]
  /\ run' = [run EXCEPT ![t] = NoRun]
  /\ parked' = [parked EXCEPT ![t] = made[t]]
  /\ UNCHANGED <<live, specs, card, books, bill, results, made, stale>>

(* "done", or the end of the stream: the answer is what the stream says it *)
(* is, or what it said.  The skill that was asked for is looked up before  *)
(* the model is asked to reshape the answer.                               *)
Done(t) ==
  /\ run[t].pc = "stream"
  /\ \E text \in {run[t].said, TRUE} :
       run' = [run EXCEPT ![t].pc = "finalize", ![t].said = text,
                          ![t].mime = IF text /\ run[t].hint # Unset THEN SchemaOf(run[t].hint)
                                      ELSE Unset]
  /\ UNCHANGED <<Stays, made>>
-----------------------------------------------------------------------------
(* The terminal hook *)

Session(t) == IF t \in Activity THEN "activity" ELSE t

Row(t, outcome) ==
  [task |-> t, session |-> Session(t), state |-> outcome,
   success |-> IF outcome = "completed" THEN 1 ELSE 0,
   model |-> IF run[t].models = <<>> THEN Unset ELSE Head(run[t].models),
   models |-> run[t].models, calls |-> run[t].calls, tools |-> run[t].tools,
   cost |-> run[t].cost]

(* The rows of S, with this one in the place of its task's. *)
Upserted(S, row) == [t \in S \union {row.task} |-> IF t = row.task THEN row ELSE ledger[t]]

(* Mutation: a row per session.                                            *)
RecordBug(row) ==
  ledger' = Upserted({t \in DOMAIN ledger : ledger[t].session # row.session}, row)

(* TelemetryStore.record: task_id is the key of the table.                 *)
Record(row) == ledger' = Upserted(DOMAIN ledger, row)

(* _record_a2a_telemetry: nothing if the store is off or fails.            *)
Telemetry(t, outcome) ==
  \/ Record(Row(t, outcome)) /\ UNCHANGED missed
  \/ missed' = missed \union {t} /\ UNCHANGED ledger

Entry(t, outcome) ==
  [task |-> t, state |-> outcome,
   origin |-> IF run[t].origin = Unset THEN "operator" ELSE run[t].origin]

(* _a2a_terminal: a feed that cannot be written does not silence the event.*)
Surface(t, outcome) ==
  IF t \in Activity /\ run[t].said
  THEN /\ feed' \in {Append(feed, Entry(t, outcome)), feed}
       /\ news' = Append(news, Entry(t, outcome))
  ELSE UNCHANGED <<feed, news>>

Notify(t, outcome) ==
  /\ Telemetry(t, outcome)
  /\ Surface(t, outcome)
  /\ spoken' = IF run[t].said THEN spoken \union {t} ELSE spoken

(* _terminal_parts: no cost part without a model call.                     *)
Billed(t) == bill' = [bill EXCEPT ![t] = IF run[t].calls = 0 THEN 0 ELSE run[t].cost]

(* finalize_structured: a model that does not fit the answer to the schema *)
(* in two calls leaves it as text.                                         *)
Structured(t) ==
  \/ UNCHANGED results
  \/ run[t].mime # Unset /\ results' = results \union {run[t].mime}

(* _finalize and complete() *)
Complete(t) ==
  /\ run[t].pc = "finalize"
  /\ Billed(t)
  /\ Structured(t)
  /\ Notify(t, "completed")
  /\ phase' = [phase EXCEPT ![t] = "completed"]
  /\ run' = [run EXCEPT ![t] = NoRun]
  /\ UNCHANGED <<live, specs, card, made, parked, stale>>

(* "error" or an exception *)
Fail(t) ==
  /\ run[t].pc # "none"
  /\ Notify(t, "failed")
  /\ phase' = [phase EXCEPT ![t] = "failed"]
  /\ run' = [run EXCEPT ![t] = NoRun]
  /\ UNCHANGED <<live, specs, card, bill, results, made, parked, stale>>

(* cancel(): the hook is not told.                                         *)
Cancel(t) ==
  /\ live /\ phase[t] \in {"running", "paused"}
  /\ phase' = [phase EXCEPT ![t] = "canceled"]
  /\ run' = [run EXCEPT ![t] = NoRun]
  /\ UNCHANGED <<live, specs, card, books, bill, results, made, parked, stale>>

(* The next boot fails what was running; nobody counts it.                 *)
Crash ==
  /\ live /\ live' = FALSE
  /\ phase' = [t \in Tasks |-> IF phase[t] = "running" THEN "lost" ELSE phase[t]]
  /\ run' = [t \in Tasks |-> NoRun]
  /\ UNCHANGED <<specs, card, books, bill, results, made, parked, stale>>
-----------------------------------------------------------------------------
(* Rollups: of numbers in ascending order, and of any list.                 *)

(* round(): to the nearest, a half to the even one. *)
Round(num, den) ==
  LET whole == num \div den
      rest == 2 * (num % den)
  IN IF rest > den \/ (rest = den /\ whole % 2 = 1) THEN whole + 1 ELSE whole

(* _percentile *)
Percentile(sorted, pct) ==
  IF sorted = <<>> THEN 0
  ELSE LET k == Round(pct * Len(sorted) + 50, 100) - 1
       IN sorted[1 + Max({0, Min({Len(sorted) - 1, k})})]

(* Twice the _median, to stay with whole numbers. *)
Median2(list) ==
  LET s == SortSeq(list, <)
      mid == Len(s) \div 2
  IN IF s = <<>> THEN 0
     ELSE IF Len(s) % 2 = 1 THEN 2 * s[mid + 1] ELSE s[mid] + s[mid + 1]

(* outliers: what is at least so many times the median, if that is not 0.  *)
Outliers(list, multiple) ==
  {i \in DOMAIN list : Median2(list) > 0 /\ 2 * list[i] >= Median2(list) * multiple}

Total(numbers) == FoldFunction(+, 0, numbers)

(* summary: totals, and the split by the first model of each turn.         *)
Summary ==
  LET among(S, field) == Total([t \in S |-> ledger[t][field]])
      rows == DOMAIN ledger
      of(m) == {t \in rows : ledger[t].model = m}
  IN [turns |-> Cardinality(rows), calls |-> among(rows, "calls"), cost |-> among(rows, "cost"),
      successes |-> among(rows, "success"),
      byModel |-> [m \in {ledger[t].model : t \in rows} |-> among(of(m), "cost")]]

-----------------------------------------------------------------------------
Next ==
  \/ Boot \/ Reload \/ Crash
  \/ \E t \in Tasks :
       \/ Begin(t) \/ ToolStart(t) \/ Say(t) \/ Pause(t) \/ Done(t)
       \/ Complete(t) \/ Fail(t) \/ Cancel(t)
       \/ \E name \in Names : ModelCall(t, name)

Spec == Init /\ [][Next]_vars
-----------------------------------------------------------------------------
(* A percentile is a member that enough others do not exceed, and grows    *)
(* with its rank; fewer than half the turns are far above the median.      *)
RollupsSound(values, length) ==
  \A list \in UNION {[1..n -> values] : n \in 1..length} :
    LET s == SortSeq(list, <)
        upTo(v) == Cardinality({i \in DOMAIN s : s[i] <= v})
    IN /\ \A pct \in {50, 95} : 100 * upTo(Percentile(s, pct)) >= pct * Len(s)
       /\ Percentile(s, 50) <= Percentile(s, 95)
       /\ 2 * Cardinality(Outliers(list, 5)) < Len(list)

(* An ended turn has a row, unless it could not be written, and no other    *)
(* turn has one: it counts the turn's calls since its last pause, and the   *)
(* caller was billed what it says.  All that the totals leave out is what   *)
(* paused runs, canceled and lost turns and unwritten rows spent.           *)
BooksBalance ==
  /\ DOMAIN ledger = {t \in Tasks : phase[t] \in Ended /\ t \notin missed}
  /\ \A t \in DOMAIN ledger :
       /\ ledger[t].state = phase[t] /\ ledger[t].calls = made[t] - parked[t]
       /\ Len(ledger[t].models) <= ledger[t].calls
       /\ phase[t] = "completed" => ledger[t].cost = bill[t]
  /\ Summary.calls + Total([t \in Tasks |-> IF t \in DOMAIN ledger THEN parked[t] ELSE made[t]])
     = Total(made)
  /\ Total(Summary.byModel) = Summary.cost

(* The feed and the event stream tell every answer of the Activity thread   *)
(* once, in one order, with the outcome that the ledger has; the feed may   *)
(* lack one that could not be written.                                      *)
FeedTrue ==
  /\ \A i, j \in DOMAIN news : i # j => news[i].task # news[j].task
  /\ {news[i].task : i \in DOMAIN news} = spoken \intersect Activity
  /\ ToSet(feed) \subseteq ToSet(news)
  /\ \A i, j \in DOMAIN news, k, l \in DOMAIN feed :
       news[i] = feed[k] /\ news[j] = feed[l] /\ k < l => i < j
  /\ \A i \in DOMAIN news :
       news[i].task \in DOMAIN ledger => ledger[news[i].task].state = news[i].state

(* While the configuration is the one the card was built from, a structured *)
(* result has a type that the card advertises.                              *)
ResultsAdvertised == ~stale => results \subseteq card

(* What is told of a turn afterwards is what happened.                      *)
LedgerSound == BooksBalance /\ FeedTrue /\ ResultsAdvertised

(* Not so: the feed names what triggered a turn.  A resumed turn is put     *)
(* down to whoever resumed it; and after a reload the card is out of date.  *)
AlwaysAdvertised == results \subseteq card
=============================================================================
