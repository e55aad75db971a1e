------------------------------ MODULE Scheduler ------------------------------
(***************************************************************************)
(* The bundled scheduler backend (scheduler/local.py): one jobs table, the *)
(* owner lock that elects its poller, the poll loop that fires due jobs at *)
(* the agent's own A2A endpoint, and the calls that add and cancel jobs    *)
(* while a fire is under way.                                              *)
(*                                                                         *)
(* A backend object lives in an agent process.  Several processes may open *)
(* the same jobs.db (two instances with one name), and one process may     *)
(* hold several backends over time (a reload builds a new one).  A step is *)
(* what runs between two awaits of the poll loop or one SQLite commit of a *)
(* call made from a worker thread.                                         *)
(*                                                                         *)
(* Abstracted: prompts, wording, column values nothing reads (last_fire,   *)
(* created_at; enabled is never cleared by the code), the non-POSIX lock.  *)
(* A tick that finds nothing due, a start that finds the lock taken or the *)
(* loop running, a refused add and a cancel of an unknown id change no     *)
(* state and are stuttering.  The agent answering a POST is external; a    *)
(* POST that was given up on lands at once or never.                       *)
(***************************************************************************)
EXTENDS Naturals, FiniteSets

CONSTANTS
  Procs,        \* agent processes that open this jobs.db
  Backends,     \* LocalScheduler objects
  Home,         \* Home[b] is the process backend b lives in
  Ids,          \* job ids
  CronTimes,    \* the instants the cron expression matches
  Window,       \* _MISSED_FIRE_WINDOW_S
  MaxTime,      \* bound on the clock
  MaxGen,       \* bound on the number of jobs added
  ReuseIds,     \* callers may pass the id of a job that was removed
  RpcErrors,    \* the agent may refuse a message in a 200 response
  DbFaults,     \* sqlite may refuse a write ("database is locked")
  NoRow         \* no job is being posted

ASSUME SchedulerAssumption ==
  /\ Home \in [Backends -> Procs]
  /\ CronTimes \subseteq Nat
  /\ MaxTime \in Nat
  /\ \E m \in CronTimes : m > MaxTime
  /\ Window \in Nat \ {0}
  /\ MaxGen \in Nat
  /\ {ReuseIds, RpcErrors, DbFaults} \subseteq BOOLEAN

VARIABLES
  now,          \* the clock, in units of at least one poll interval
  jobs,         \* the rows of the jobs table
  up,           \* the processes that are running
  paths,        \* processes with this path in _LOCKED_PATHS
  locks,        \* backends with an open fd that holds the flock
  task,         \* what the poll task of a backend awaits
  stopping,     \* backends inside stop(), awaiting their cancelled task
  tick,         \* fired_at: the clock when the current tick began
  due,          \* rows this tick claimed and has not posted yet
  cur,          \* the row being posted
  \* History, read by the properties only.
  adds,         \* the number of jobs added so far
  made,         \* every row that was ever in the table
  landed,       \* rows whose prompt the agent accepted as a turn
  waived,       \* rows taken out by cancel_job or by recovery
  acked,        \* rows whose fire was settled in the table
  stale         \* rows past the window when the current poller started

table == <<jobs, adds, made>>
lockVars == <<up, paths, locks>>
loopVars == <<task, stopping, tick, due, cur>>
history == <<landed, waived, acked, stale>>
vars == <<now, table, lockVars, loopVars, history>>

Kinds == {"cron", "once"}

\* A row of the jobs table. gen tells two jobs that were given one id apart.
Row == [id : Ids, gen : 1..MaxGen, kind : Kinds, next : Nat]

ASSUME NoRowAssumption == NoRow \notin Row

TaskState == {"none", "sleep", "sent", "accepted"}

TypeOK ==
  /\ now \in 0..MaxTime
  /\ jobs \subseteq Row
  /\ adds \in 0..MaxGen
  /\ made \subseteq Row
  /\ up \subseteq Procs
  /\ paths \subseteq Procs
  /\ locks \subseteq Backends
  /\ task \in [Backends -> TaskState]
  /\ stopping \subseteq Backends
  /\ tick \in [Backends -> 0..MaxTime]
  /\ due \in [Backends -> SUBSET Row]
  /\ cur \in [Backends -> Row \union {NoRow}]
  /\ landed \subseteq Row
  /\ waived \subseteq Row
  /\ acked \subseteq Row
  /\ stale \subseteq Row

Init ==
  /\ now = 0
  /\ jobs = {}
  /\ adds = 0
  /\ made = {}
  /\ up = {}
  /\ paths = {}
  /\ locks = {}
  /\ task = [b \in Backends |-> "none"]
  /\ stopping = {}
  /\ tick = [b \in Backends |-> 0]
  /\ due = [b \in Backends |-> {}]
  /\ cur = [b \in Backends |-> NoRow]
  /\ landed = {}
  /\ waived = {}
  /\ acked = {}
  /\ stale = {}
-----------------------------------------------------------------------------
(* Schedules and rows *)

\* Definitions that end in Bug are mutations of the one that follows: each is
\* a slip the code could have, which the properties must notice.

\* The match at the reference instant itself counts as the next one.
NextCronBug(t) ==
  CHOOSE m \in CronTimes : m >= t /\ \A n \in CronTimes : n >= t => m <= n

\* croniter(schedule, t).get_next: the first match strictly after t.
NextCron(t) ==
  CHOOSE m \in CronTimes : m > t /\ \A n \in CronTimes : n > t => m <= n

\* _compute_next_fire
NextFire(kind, at) == IF kind = "cron" THEN NextCron(now) ELSE at

WithId(id) == {r \in jobs : r.id = id}

DueRowsBug(t) == jobs

DueRows(t) == {r \in jobs : r.next <= t}

\* UPDATE jobs SET next_fire = ... WHERE id IN ...
MoveTo(rows, ids, t) ==
  {IF r.id \in ids THEN [r EXCEPT !.next = t] ELSE r : r \in rows}

SetJobs(rows) ==
  /\ jobs' = rows
  /\ made' = made \union rows

-----------------------------------------------------------------------------
(* Calls made by the agent's tools and the operator console *)

\* add_job: insert a row; sqlite's primary key refuses an id in use. Generated
\* ids are fresh, an id the caller chose may have been used before. The next
\* fire of a one-shot is the given instant, which may be in the past.
AddJob(id, kind, at) ==
  /\ up # {}
  /\ WithId(id) = {}
  /\ ReuseIds \/ \A r \in made : r.id # id
  /\ adds < MaxGen
  /\ adds' = adds + 1
  /\ SetJobs(jobs \union {[id |-> id, gen |-> adds + 1, kind |-> kind,
                           next |-> NextFire(kind, at)]})
  /\ UNCHANGED <<now, lockVars, loopVars, history>>

\* cancel_job: delete the row. The rows a tick has already claimed stay claimed.
CancelJob(id) ==
  /\ up # {}
  /\ WithId(id) # {}
  /\ SetJobs(jobs \ WithId(id))
  /\ waived' = waived \union WithId(id)
  /\ UNCHANGED <<now, adds, lockVars, loopVars, landed, acked, stale>>

-----------------------------------------------------------------------------
(* The owner lock, start and stop *)

\* Without the flock: only collisions within one process are seen.
LockFreeBug(b) == Home[b] \notin paths

\* _acquire_jobs_lock: the in-process set first, then a non-blocking flock.
LockFree(b) == Home[b] \notin paths /\ locks = {}

Missed(t) == {r \in jobs : r.next + Window <= t}

IdsOf(rows) == {r.id : r \in rows}

\* _recover_missed_fires, when the transaction commits: stale one-shots are
\* dropped, stale cron jobs move to their next match without firing.
Recover ==
  LET old == Missed(now)
      moved == {r \in old : r.kind = "cron"}
  IN /\ SetJobs(MoveTo(jobs \ (old \ moved), IdsOf(moved), NextCron(now)))
     /\ waived' = waived \union old

\* start(): take the lock, recover, create the poll task, with no await between.
Start(b) ==
  /\ Home[b] \in up
  /\ task[b] = "none"
  /\ LockFree(b)
  /\ locks' = locks \union {b}
  /\ paths' = paths \union {Home[b]}
  /\ \/ Recover
     \/ DbFaults /\ UNCHANGED <<jobs, made, waived>>
  /\ task' = [task EXCEPT ![b] = "sleep"]
  /\ stale' = Missed(now)
  /\ UNCHANGED <<now, adds, up, stopping, tick, due, cur, landed, acked>>

\* The lock is released before the cancelled task has ended.
StopBeginBug(b) ==
  /\ task[b] # "none"
  /\ b \notin stopping
  /\ stopping' = stopping \union {b}
  /\ locks' = locks \ {b}
  /\ paths' = paths \ {Home[b]}
  /\ UNCHANGED <<now, table, up, task, tick, due, cur, history>>

\* stop(), up to its await: the task is cancelled and sees it at its next await.
StopBegin(b) ==
  /\ task[b] # "none"
  /\ b \notin stopping
  /\ stopping' = stopping \union {b}
  /\ UNCHANGED <<now, table, lockVars, task, tick, due, cur, history>>

\* Whatever the loop was doing, its row is taken for posted.
GiveUpBug(b) ==
  \/ UNCHANGED landed
  \/ landed' = landed \union {cur[b]}

\* A POST that nobody waits for any more may still have reached the agent.
GiveUp(b) ==
  \/ UNCHANGED landed
  \/ task[b] = "sent" /\ landed' = landed \union {cur[b]}

Idle(S) ==
  /\ task' = [b \in Backends |-> IF b \in S THEN "none" ELSE task[b]]
  /\ due' = [b \in Backends |-> IF b \in S THEN {} ELSE due[b]]
  /\ cur' = [b \in Backends |-> IF b \in S THEN NoRow ELSE cur[b]]
  /\ stopping' = stopping \ S
  /\ locks' = locks \ S

\* stop(), after its await: the task is gone, the lock is released.
StopEnd(b) ==
  /\ b \in stopping
  /\ GiveUp(b)
  /\ Idle({b})
  /\ paths' = paths \ {Home[b]}
  /\ UNCHANGED <<now, table, up, tick, waived, acked, stale>>

\* The process dies: its memory and its fds go, the kernel drops the flock.
Crash(p) ==
  /\ p \in up
  /\ up' = up \ {p}
  /\ paths' = paths \ {p}
  /\ Idle({b \in Backends : Home[b] = p})
  /\ UNCHANGED <<now, table, tick, history>>

Boot(p) ==
  /\ p \notin up
  /\ up' = up \union {p}
  /\ UNCHANGED <<now, table, paths, locks, loopVars, history>>

-----------------------------------------------------------------------------
(* The poll loop *)

\* The next claimed row, ORDER BY next_fire, is posted; or the tick ends.
PostNext(b, rows) ==
  \/ /\ rows = {}
     /\ task' = [task EXCEPT ![b] = "sleep"]
     /\ due' = [due EXCEPT ![b] = {}]
     /\ cur' = [cur EXCEPT ![b] = NoRow]
  \/ \E r \in rows :
     /\ \A q \in rows : r.next <= q.next
     /\ task' = [task EXCEPT ![b] = "sent"]
     /\ due' = [due EXCEPT ![b] = rows \ {r}]
     /\ cur' = [cur EXCEPT ![b] = r]

\* _tick: read the clock and the due rows once, post the first of them.
Tick(b) ==
  /\ task[b] = "sleep"
  /\ b \notin stopping
  /\ DueRows(now) # {}
  /\ tick' = [tick EXCEPT ![b] = now]
  /\ PostNext(b, DueRows(now))
  /\ UNCHANGED <<now, table, lockVars, stopping, history>>

\* The agent's A2A handler accepts the message: the turn has started.
Accept(b) ==
  /\ task[b] = "sent"
  /\ task' = [task EXCEPT ![b] = "accepted"]
  /\ landed' = landed \union {cur[b]}
  /\ UNCHANGED <<now, table, lockVars, stopping, tick, due, cur, waived, acked, stale>>

\* What _fire takes for a delivery: any response below 400. It does not look for
\* an error object in the body.
Answered2xx(b) == task[b] = "accepted" \/ (RpcErrors /\ task[b] = "sent")

\* Every one-shot that was due at the tick goes, posted or not.
SettledJobsBug(r, t) ==
  IF r.kind = "cron"
  THEN MoveTo(jobs, {r.id}, NextCron(t))
  ELSE jobs \ {q \in DueRows(t) : q.kind = "once"}

\* _reschedule_or_delete, by id alone: cron rows move on from the tick's clock,
\* one-shots go.
SettledJobs(r, t) ==
  IF r.kind = "cron" THEN MoveTo(jobs, {r.id}, NextCron(t)) ELSE jobs \ WithId(r.id)

FireOk(b) ==
  /\ Answered2xx(b)
  /\ b \notin stopping
  /\ \/ /\ SetJobs(SettledJobs(cur[b], tick[b]))
        /\ acked' = acked \union {cur[b]}
     \/ DbFaults /\ UNCHANGED <<jobs, made, acked>>
  /\ PostNext(b, due[b])
  /\ UNCHANGED <<now, adds, lockVars, stopping, tick, landed, waived, stale>>

\* A failed fire ends the tick, so the oldest row is always the next one tried.
FireFailBug(b) ==
  /\ task[b] \in {"sent", "accepted"}
  /\ b \notin stopping
  /\ GiveUp(b)
  /\ PostNext(b, {})
  /\ UNCHANGED <<now, table, lockVars, stopping, tick, waived, acked, stale>>

\* Connection error, HTTP status of 400 or more, or the 30 s client timeout,
\* which leaves an accepted turn running. The row stays for the next tick.
FireFail(b) ==
  /\ task[b] \in {"sent", "accepted"}
  /\ b \notin stopping
  /\ GiveUp(b)
  /\ PostNext(b, due[b])
  /\ UNCHANGED <<now, table, lockVars, stopping, tick, waived, acked, stale>>

-----------------------------------------------------------------------------
Pass ==
  /\ now < MaxTime
  /\ now' = now + 1
  /\ UNCHANGED <<table, lockVars, loopVars, history>>

Next ==
  \/ \E id \in Ids : CancelJob(id)
  \/ \E id \in Ids, kind \in Kinds, at \in 0..MaxTime : AddJob(id, kind, at)
  \/ \E b \in Backends : Start(b) \/ StopBegin(b) \/ StopEnd(b)
  \/ \E b \in Backends : Tick(b) \/ Accept(b) \/ FireOk(b) \/ FireFail(b)
  \/ \E p \in Procs : Crash(p) \/ Boot(p)
  \/ Pass

Spec == Init /\ [][Next]_vars
-----------------------------------------------------------------------------
(* Safety *)

\* At most one backend polls a jobs.db, across the processes that open it and
\* the backends a process builds (local.py:51-54): the poller holds the flock and
\* its process is marked in _LOCKED_PATHS.
OnePoller ==
  \A a, b \in Backends : task[a] # "none" /\ task[b] # "none" => a = b

\* No fire is lost: an occurrence that was ever in the table is still there,
\* or was started as a turn, or was withdrawn (local.py:346-351). Holds when ids
\* are not reused and the agent refuses messages by HTTP status.
NoLostFire == made \subseteq jobs \union landed \union waived

\* A job never starts before its instant, whatever was cancelled, moved or added
\* under its id while a tick held its row.
NeverEarly == \A r \in landed : r.next <= now

\* Once a fire has been settled in the table no poller, in this process or in
\* another, posts it again. Holds while sqlite accepts the writes.
NoRepost ==
  \A b \in Backends : cur[b] \notin acked /\ due[b] \intersect acked = {}

\* What was missed by the whole window when the poller started is never fired
\* (local.py:21-25): it was dropped or moved, before the first tick.
StaleNeverFires ==
  \A b \in Backends : cur[b] \notin stale /\ due[b] \intersect stale = {}

\* No fire that is not owed any more is about to be posted.
NoStrayFire == NoRepost /\ StaleNeverFires

\* The backend keeps the ledger of occurrences JobLedger describes.
Ledger == INSTANCE JobLedger WITH Occurrence <- Row, owed <- jobs

LedgerSpec == Ledger!Spec
-----------------------------------------------------------------------------
(* Liveness *)

\* The poll loop keeps running, a POST is answered or times out, a cancelled
\* task ends, the clock moves; a supervisor boots a dead process, whose startup
\* hook calls start(); whoever switched the scheduler off switches it on again.
\* Crashes and stops may happen any number of times but cease.
\* The agent accepts a message of the given jobs if it is posted again and again.
Fairness(ids) ==
  /\ <>[][~\E p \in Procs, b \in Backends : Crash(p) \/ StopBegin(b)]_vars
  /\ WF_vars(Pass)
  /\ \A p \in Procs : WF_vars(Boot(p))
  /\ \A b \in Backends :
       /\ WF_vars(Start(b))
       /\ WF_vars(Tick(b))
       /\ WF_vars(FireOk(b) \/ FireFail(b))
       /\ WF_vars(StopEnd(b))
       /\ \A id \in ids : SF_vars(cur[b] # NoRow /\ cur[b].id = id /\ Accept(b))

\* A job that came due is eventually started as a turn or withdrawn, through
\* failed posts, crashes and restarts, and even if the agent refuses every
\* message of the jobs outside ids: one that keeps failing starves no other.
EventuallyFires(ids) ==
  \A r \in [id : ids, gen : 1..MaxGen, kind : Kinds, next : 0..MaxTime] :
    r \in jobs ~> r \in landed \union waived
=============================================================================
