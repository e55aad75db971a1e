--------------------------- MODULE SchedulerProofs ---------------------------
(* Theorems about Scheduler, for every value of its constants. *)
EXTENDS Scheduler, Basics, TLAPS

(* croniter's next match exists for every clock value, and is strictly later. *)
LEMMA NextCronLater ==
  ASSUME NEW t \in 0..MaxTime
  PROVE  NextCron(t) \in Nat /\ NextCron(t) > t
<1> DEFINE Later == {m \in CronTimes : m > t}
<1>1. PICK m \in CronTimes : m > t
  BY SchedulerAssumption
<1>2. \E n \in Later : \A k \in Later : n <= k
  <2>1. Later \in SUBSET Nat /\ m \in Later
    BY <1>1, SchedulerAssumption
  <2> HIDE DEF Later
  <2> QED
    BY <2>1, LeastMember
<1>3. \E n \in CronTimes : n > t /\ \A k \in CronTimes : k > t => n <= k
  BY <1>2
<1>4. NextCron(t) \in CronTimes /\ NextCron(t) > t
  BY <1>3 DEF NextCron
<1> QED
  BY <1>4, SchedulerAssumption

-----------------------------------------------------------------------------
(* A post under way always has its row. *)
PostHasRow == \A b \in Backends : task[b] \in {"sent", "accepted"} => cur[b] \in Row

TypeInv == TypeOK /\ PostHasRow

LEMMA MoveToType ==
  ASSUME NEW rows \in SUBSET Row, NEW ids, NEW t \in Nat
  PROVE  MoveTo(rows, ids, t) \in SUBSET Row
  BY DEF MoveTo, Row

LEMMA TypeInit == Init => TypeInv
  BY SchedulerAssumption DEF Init, TypeInv, TypeOK, PostHasRow, TaskState

LEMMA PostNextType ==
  ASSUME TypeInv, NEW b \in Backends, NEW rows \in SUBSET Row, PostNext(b, rows)
  PROVE  /\ task' \in [Backends -> TaskState]
         /\ due' \in [Backends -> SUBSET Row]
         /\ cur' \in [Backends -> Row \union {NoRow}]
         /\ PostHasRow'
<1> USE DEF TypeInv, TypeOK, PostHasRow, TaskState
<1>1. CASE rows = {} /\ task' = [task EXCEPT ![b] = "sleep"]
           /\ due' = [due EXCEPT ![b] = {}] /\ cur' = [cur EXCEPT ![b] = NoRow]
  BY <1>1
<1>2. ASSUME NEW r \in rows, task' = [task EXCEPT ![b] = "sent"],
             due' = [due EXCEPT ![b] = rows \ {r}], cur' = [cur EXCEPT ![b] = r]
      PROVE  /\ task' \in [Backends -> TaskState]
             /\ due' \in [Backends -> SUBSET Row]
             /\ cur' \in [Backends -> Row \union {NoRow}]
             /\ PostHasRow'
  BY <1>2
<1> QED
  BY <1>1, <1>2 DEF PostNext

LEMMA IdleType ==
  ASSUME TypeInv, NEW S \in SUBSET Backends, Idle(S)
  PROVE  /\ task' \in [Backends -> TaskState]
         /\ due' \in [Backends -> SUBSET Row]
         /\ cur' \in [Backends -> Row \union {NoRow}]
         /\ stopping' \subseteq Backends
         /\ locks' \subseteq Backends
         /\ PostHasRow'
  BY DEF TypeInv, TypeOK, PostHasRow, TaskState, Idle

LEMMA GiveUpType ==
  ASSUME TypeInv, NEW b \in Backends, GiveUp(b)
  PROVE  landed' \subseteq Row
  BY DEF TypeInv, TypeOK, PostHasRow, GiveUp

LEMMA SettledType ==
  ASSUME TypeInv, NEW r \in Row, NEW t \in 0..MaxTime
  PROVE  SettledJobs(r, t) \subseteq Row
<1>1. CASE r.kind = "cron"
  BY <1>1, NextCronLater, MoveToType DEF SettledJobs, TypeInv, TypeOK
<1>2. CASE r.kind # "cron"
  BY <1>2 DEF SettledJobs, TypeInv, TypeOK
<1> QED
  BY <1>1, <1>2

LEMMA TypeStep == TypeInv /\ [Next]_vars => TypeInv'
<1> SUFFICES ASSUME TypeInv, [Next]_vars PROVE TypeInv'
  OBVIOUS
<1> USE DEF TypeInv, TypeOK, PostHasRow, SetJobs
<1>1. ASSUME NEW id \in Ids, CancelJob(id) PROVE TypeInv'
  BY <1>1 DEF CancelJob, WithId, lockVars, loopVars
<1>2. ASSUME NEW id \in Ids, NEW kind \in Kinds, NEW at \in 0..MaxTime, AddJob(id, kind, at)
      PROVE  TypeInv'
  <2>1. NextFire(kind, at) \in Nat
    BY NextCronLater DEF NextFire
  <2>2. adds + 1 \in 1..MaxGen /\ adds + 1 \in 0..MaxGen
    BY <1>2, SchedulerAssumption DEF AddJob
  <2>3. [id |-> id, gen |-> adds + 1, kind |-> kind, next |-> NextFire(kind, at)] \in Row
    BY <2>1, <2>2 DEF Row
  <2> QED
    BY <1>2, <2>2, <2>3 DEF AddJob, lockVars, loopVars, history
<1>3. ASSUME NEW b \in Backends, Start(b) PROVE TypeInv'
  <2>1. Missed(now) \subseteq Row
    BY DEF Missed
  <2>2. jobs' \subseteq Row /\ made' \subseteq Row /\ waived' \subseteq Row
    <3>1. CASE Recover
      BY <3>1, <2>1, NextCronLater, MoveToType DEF Recover
    <3>2. CASE UNCHANGED <<jobs, made, waived>>
      BY <3>2
    <3> QED
      BY <3>1, <3>2, <1>3 DEF Start
  <2> QED
    BY <1>3, <2>1, <2>2, SchedulerAssumption DEF Start, TaskState
<1>4. ASSUME NEW b \in Backends, StopBegin(b) PROVE TypeInv'
  BY <1>4 DEF StopBegin, table, lockVars, history
<1>5. ASSUME NEW b \in Backends, StopEnd(b) PROVE TypeInv'
  <2>1. {b} \in SUBSET Backends /\ Idle({b}) /\ GiveUp(b)
    BY <1>5 DEF StopEnd
  <2> QED
    BY <1>5, <2>1, IdleType, GiveUpType DEF StopEnd, table
<1>6. ASSUME NEW b \in Backends, Tick(b) PROVE TypeInv'
  <2>1. DueRows(now) \in SUBSET Row
    BY DEF DueRows
  <2> QED
    BY <1>6, <2>1, PostNextType DEF Tick, table, lockVars, history
<1>7. ASSUME NEW b \in Backends, Accept(b) PROVE TypeInv'
  BY <1>7 DEF Accept, TaskState, table, lockVars
<1>8. ASSUME NEW b \in Backends, FireOk(b) PROVE TypeInv'
  <2>1. cur[b] \in Row /\ tick[b] \in 0..MaxTime
    BY <1>8 DEF FireOk, Answered2xx
  <2>2. jobs' \subseteq Row /\ made' \subseteq Row /\ acked' \subseteq Row
    BY <1>8, <2>1, SettledType DEF FireOk
  <2>3. due[b] \in SUBSET Row /\ PostNext(b, due[b])
    BY <1>8 DEF FireOk
  <2> QED
    BY <1>8, <2>2, <2>3, PostNextType DEF FireOk, lockVars
<1>9. ASSUME NEW b \in Backends, FireFail(b) PROVE TypeInv'
  <2>1. due[b] \in SUBSET Row /\ PostNext(b, due[b]) /\ GiveUp(b)
    BY <1>9 DEF FireFail
  <2> QED
    BY <1>9, <2>1, PostNextType, GiveUpType DEF FireFail, table, lockVars
<1>10. ASSUME NEW p \in Procs, Crash(p) PROVE TypeInv'
  <2>1. Idle({b \in Backends : Home[b] = p})
    BY <1>10 DEF Crash
  <2> QED
    BY <1>10, <2>1, IdleType DEF Crash, table, history
<1>11. ASSUME NEW p \in Procs, Boot(p) PROVE TypeInv'
  BY <1>11 DEF Boot, table, loopVars, history
<1>12. CASE Pass
  BY <1>12, SchedulerAssumption DEF Pass, table, lockVars, loopVars, history
<1>13. CASE UNCHANGED vars
  BY <1>13 DEF vars, table, lockVars, loopVars, history
<1> QED
  BY <1>1, <1>2, <1>3, <1>4, <1>5, <1>6, <1>7, <1>8, <1>9, <1>10, <1>11, <1>12, <1>13 DEF Next

(* Every variable of the scheduler keeps its type. *)
THEOREM TypeCorrect == Spec => []TypeOK
<1>1. TypeInv => TypeOK
  BY DEF TypeInv
<1> QED
  BY <1>1, TypeInit, TypeStep, PTL DEF Spec

-----------------------------------------------------------------------------
(* One poller.  A backend that polls holds the flock, and only one can. *)
LockInv ==
  /\ \A b \in Backends : task[b] # "none" => b \in locks
  /\ \A a, b \in locks : a = b
  /\ \A b \in Backends : task[b] = "none" => due[b] = {}

LEMMA PostNextTask ==
  ASSUME TypeInv, NEW b \in Backends, NEW rows, PostNext(b, rows)
  PROVE  /\ \A a \in Backends \ {b} : task'[a] = task[a] /\ due'[a] = due[a] /\ cur'[a] = cur[a]
         /\ task'[b] = "sleep" \/ task'[b] = "sent"
         /\ due'[b] \subseteq rows
         /\ task'[b] = "sleep" => due'[b] = {}
         /\ task'[b] = "sent" => cur'[b] \in rows /\ due'[b] = rows \ {cur'[b]}
  BY DEF PostNext, TypeInv, TypeOK

LEMMA LockStep == TypeInv /\ LockInv /\ [Next]_vars => LockInv'
<1> SUFFICES ASSUME TypeInv, LockInv, [Next]_vars PROVE LockInv'
  OBVIOUS
<1>1. ASSUME NEW b \in Backends, Start(b) PROVE LockInv'
  BY <1>1 DEF Start, LockFree, LockInv, TypeInv, TypeOK
<1>2. ASSUME NEW b \in Backends, StopEnd(b) PROVE LockInv'
  BY <1>2 DEF StopEnd, Idle, LockInv, TypeInv, TypeOK
<1>3. ASSUME NEW p \in Procs, Crash(p) PROVE LockInv'
  BY <1>3 DEF Crash, Idle, LockInv, TypeInv, TypeOK
<1>4. ASSUME NEW b \in Backends, Tick(b) \/ FireOk(b) \/ FireFail(b) PROVE LockInv'
  <2>1. PICK rows \in {DueRows(now), due[b]} : PostNext(b, rows)
    BY <1>4 DEF Tick, FireOk, FireFail
  <2>2. task[b] # "none" /\ locks' = locks
    BY <1>4 DEF Tick, FireOk, FireFail, Answered2xx, lockVars
  <2> QED
    BY <2>1, <2>2, PostNextTask DEF LockInv
<1>5. ASSUME NEW b \in Backends, Accept(b) PROVE LockInv'
  BY <1>5 DEF Accept, LockInv, TypeInv, TypeOK, lockVars
<1>6. CASE \/ \E id \in Ids : CancelJob(id)
           \/ \E id \in Ids, kind \in Kinds, at \in 0..MaxTime : AddJob(id, kind, at)
           \/ \E b \in Backends : StopBegin(b)
           \/ \E p \in Procs : Boot(p)
           \/ Pass
           \/ UNCHANGED vars
  BY <1>6 DEF LockInv, CancelJob, AddJob, StopBegin, Boot, Pass, vars, lockVars, loopVars
<1> QED
  BY <1>1, <1>2, <1>3, <1>4, <1>5, <1>6 DEF Next

LEMMA LockInvariant == Spec => [](TypeInv /\ LockInv)
<1>1. Init => LockInv
  BY DEF Init, LockInv
<1> QED
  BY <1>1, TypeInit, TypeStep, LockStep, PTL DEF Spec

(* No two backends poll one jobs.db, however many processes open it, in any     *)
(* interleaving of start, stop, crash and reboot: the owner lock of ADR 0004.   *)
THEOREM PollerIsUnique == Spec => []OnePoller
<1>1. LockInv => OnePoller
  BY DEF LockInv, OnePoller
<1> QED
  BY <1>1, LockInvariant, PTL

-----------------------------------------------------------------------------
(* The rows a backend holds in its hands: claimed, or being posted. *)
Held(b) == due[b] \union {r \in {cur[b]} : task[b] \in {"sent", "accepted"}}

LEMMA PostNextHeld ==
  ASSUME TypeInv, NEW b \in Backends, NEW rows, PostNext(b, rows)
  PROVE  /\ \A a \in Backends \ {b} : Held(a)' = Held(a)
         /\ Held(b)' \subseteq rows
  BY PostNextTask DEF Held

LEMMA IdleHeld ==
  ASSUME TypeInv, NEW S \in SUBSET Backends, Idle(S)
  PROVE  \A a \in Backends : Held(a)' \subseteq Held(a)
  BY DEF Idle, Held, TypeInv, TypeOK

EarlyInv ==
  /\ NeverEarly
  /\ \A b \in Backends : \A r \in Held(b) : r.next <= now

LEMMA GiveUpEarly ==
  ASSUME EarlyInv, NEW b \in Backends, GiveUp(b)
  PROVE  \A r \in landed' : r.next <= now
  BY DEF EarlyInv, NeverEarly, GiveUp, Held

LEMMA EarlyStep == TypeInv /\ EarlyInv /\ [Next]_vars => EarlyInv'
<1> SUFFICES ASSUME TypeInv, EarlyInv, [Next]_vars PROVE EarlyInv'
  OBVIOUS
<1>1. ASSUME NEW b \in Backends, Start(b) PROVE EarlyInv'
  <2>1. \A a \in Backends : Held(a)' = Held(a)
    BY <1>1 DEF Start, Held, TypeInv, TypeOK
  <2> QED
    BY <1>1, <2>1 DEF Start, EarlyInv, NeverEarly
<1>2. ASSUME NEW b \in Backends, StopEnd(b) PROVE EarlyInv'
  <2>1. Idle({b}) /\ GiveUp(b) /\ now' = now
    BY <1>2 DEF StopEnd
  <2> QED
    BY <2>1, IdleHeld, GiveUpEarly DEF EarlyInv, NeverEarly
<1>3. ASSUME NEW p \in Procs, Crash(p) PROVE EarlyInv'
  <2>1. Idle({b \in Backends : Home[b] = p}) /\ now' = now /\ landed' = landed
    BY <1>3 DEF Crash, history
  <2> QED
    BY <2>1, IdleHeld DEF EarlyInv, NeverEarly
<1>4. ASSUME NEW b \in Backends, Tick(b) PROVE EarlyInv'
  <2>1. PostNext(b, DueRows(now)) /\ now' = now /\ landed' = landed
    BY <1>4 DEF Tick, history
  <2>2. \A r \in DueRows(now) : r.next <= now
    BY DEF DueRows
  <2> QED
    BY <2>1, <2>2, PostNextHeld DEF EarlyInv, NeverEarly
<1>5. ASSUME NEW b \in Backends, FireOk(b) PROVE EarlyInv'
  <2>1. PostNext(b, due[b]) /\ now' = now /\ landed' = landed
    BY <1>5 DEF FireOk
  <2> QED
    BY <2>1, PostNextHeld DEF EarlyInv, NeverEarly, Held
<1>6. ASSUME NEW b \in Backends, FireFail(b) PROVE EarlyInv'
  <2>1. PostNext(b, due[b]) /\ now' = now /\ GiveUp(b)
    BY <1>6 DEF FireFail
  <2> QED
    BY <2>1, PostNextHeld, GiveUpEarly DEF EarlyInv, NeverEarly, Held
<1>7. ASSUME NEW b \in Backends, Accept(b) PROVE EarlyInv'
  BY <1>7 DEF Accept, EarlyInv, NeverEarly, Held, TypeInv, TypeOK
<1>8. CASE Pass
  <2>1. \A a \in Backends : Held(a)' = Held(a) /\ Held(a) \subseteq Row
    BY <1>8 DEF Pass, loopVars, Held, TypeInv, TypeOK, PostHasRow
  <2>2. \A r \in Row : r.next <= now => r.next <= now'
    BY <1>8 DEF Pass, Row, TypeInv, TypeOK
  <2> QED
    BY <1>8, <2>1, <2>2 DEF Pass, EarlyInv, NeverEarly, history, TypeInv, TypeOK
<1>9. CASE \/ \E id \in Ids : CancelJob(id)
           \/ \E id \in Ids, kind \in Kinds, at \in 0..MaxTime : AddJob(id, kind, at)
           \/ \E b \in Backends : StopBegin(b)
           \/ \E p \in Procs : Boot(p)
           \/ UNCHANGED vars
  <2>1. UNCHANGED <<now, landed, task, due, cur>>
    BY <1>9 DEF CancelJob, AddJob, StopBegin, Boot, vars, loopVars, history
  <2> QED
    BY <2>1 DEF EarlyInv, NeverEarly, Held
<1> QED
  BY <1>1, <1>2, <1>3, <1>4, <1>5, <1>6, <1>7, <1>8, <1>9 DEF Next

(* No job's turn starts before its instant, also under reused ids, refused      *)
(* messages and failing writes: what a tick claimed stays due.                  *)
THEOREM FiresAreNeverEarly == Spec => []NeverEarly
<1>1. Init => EarlyInv
  BY DEF Init, EarlyInv, NeverEarly, Held
<1>2. EarlyInv => NeverEarly
  BY DEF EarlyInv
<1> QED
  BY <1>1, <1>2, TypeInit, TypeStep, EarlyStep, PTL DEF Spec

-----------------------------------------------------------------------------
(* What a settlement and a recovery do to the table. *)
TableInv ==
  /\ jobs \subseteq made
  /\ \A r, q \in jobs : r.id = q.id => r = q

LEMMA MovedRows ==
  ASSUME TypeInv, TableInv, NEW ids, NEW t
  PROVE  /\ \A r \in MoveTo(jobs, ids, t) : r.id \notin ids => r \in jobs
         /\ \A r \in jobs : r.id \notin ids => r \in MoveTo(jobs, ids, t)
         /\ \A r \in MoveTo(jobs, ids, t) : \E q \in jobs : q.id = r.id
         /\ \A r \in MoveTo(jobs, ids, t) : r.id \in ids => r.next = t
         /\ \A r, q \in MoveTo(jobs, ids, t) : r.id = q.id => r = q
<1> DEFINE New(r) == IF r.id \in ids THEN [r EXCEPT !.next = t] ELSE r
<1>1. \A r \in jobs : New(r).id = r.id
  BY DEF TypeInv, TypeOK, Row
<1>2. MoveTo(jobs, ids, t) = {New(r) : r \in jobs}
  BY DEF MoveTo
<1>3. \A r \in jobs : r.id \notin ids => New(r) = r
  OBVIOUS
<1>4. \A r \in jobs : r.id \in ids => New(r).next = t
  BY DEF TypeInv, TypeOK, Row
<1> HIDE DEF New
<1>5. \A r, q \in MoveTo(jobs, ids, t) : r.id = q.id => r = q
  BY <1>1, <1>2 DEF TableInv
<1> QED
  BY <1>1, <1>2, <1>3, <1>4, <1>5

\* The row of that id, if there is one, goes or moves on; the others stay.
LEMMA SettledTable ==
  ASSUME TypeInv, TableInv, NEW c, NEW t, SetJobs(SettledJobs(c, t))
  PROVE  /\ TableInv' /\ made' = made \union jobs'
         /\ \A r \in jobs' : r.id # c.id => r \in jobs
         /\ \A r \in jobs : r.id # c.id => r \in jobs'
         /\ \A r \in jobs' : r.id = c.id => r.next = NextCron(t) /\ \E q \in jobs : q.id = c.id
<1>1. CASE c.kind = "cron"
  <2>1. jobs' = MoveTo(jobs, {c.id}, NextCron(t)) /\ made' = made \union jobs'
    BY <1>1 DEF SetJobs, SettledJobs
  <2>2. \A r, q \in MoveTo(jobs, {c.id}, NextCron(t)) : r.id = q.id => r = q
    BY MovedRows
  <2>3. TableInv'
    BY <2>1, <2>2 DEF TableInv
  <2> QED
    BY <2>1, <2>3, MovedRows
<1>2. CASE c.kind # "cron"
  BY <1>2 DEF SetJobs, SettledJobs, TableInv, WithId
<1> QED
  BY <1>1, <1>2

\* Exactly the rows past the window go, and what stands for them lies ahead.
LEMMA RecoveredTable ==
  ASSUME TypeInv, TableInv, Recover
  PROVE  /\ TableInv' /\ made' = made \union jobs' /\ waived' = waived \union Missed(now)
         /\ \A r \in jobs \ Missed(now) : r \in jobs'
         /\ \A r \in jobs' : \/ r \in jobs \ Missed(now)
                             \/ r.next = NextCron(now) /\ \E o \in Missed(now) : o.id = r.id
         /\ \A r \in Missed(now) : r.next < NextCron(now)
         /\ jobs' \intersect Missed(now) = {}
<1> DEFINE old == Missed(now)
           moved == {r \in old : r.kind = "cron"}
           kept == jobs \ (old \ moved)
<1>1. /\ jobs' = MoveTo(kept, IdsOf(moved), NextCron(now))
      /\ made' = made \union jobs'
      /\ waived' = waived \union old
  BY DEF Recover, SetJobs
<1>2. \A r \in jobs' : r \in MoveTo(jobs, IdsOf(moved), NextCron(now))
  BY <1>1 DEF MoveTo
<1>3. TableInv'
  <2>1. \A r, q \in MoveTo(jobs, IdsOf(moved), NextCron(now)) : r.id = q.id => r = q
    BY MovedRows
  <2>2. jobs' \subseteq made'
    BY <1>1
  <2> QED
    BY <1>2, <2>1, <2>2 DEF TableInv
<1>4. ASSUME NEW r \in jobs, r \notin old PROVE r \in jobs'
  <2>1. r.id \notin IdsOf(moved)
    BY <1>4 DEF IdsOf, TableInv, Missed
  <2> QED
    BY <1>1, <1>4, <2>1 DEF MoveTo
<1>5. ASSUME NEW r \in jobs'
      PROVE  \/ r \in jobs \ old
             \/ r.next = NextCron(now) /\ \E o \in old : o.id = r.id
  <2>1. PICK q \in kept : r = IF q.id \in IdsOf(moved) THEN [q EXCEPT !.next = NextCron(now)] ELSE q
    BY <1>1, <1>5 DEF MoveTo
  <2>2. CASE q.id \in IdsOf(moved)
    <3>1. q \in Row
      BY DEF TypeInv, TypeOK
    <3>2. r.id = q.id /\ r.next = NextCron(now)
      BY <2>1, <2>2, <3>1 DEF Row
    <3> QED
      BY <2>2, <3>2 DEF IdsOf
  <2>3. CASE q.id \notin IdsOf(moved)
    <3>1. q \notin moved
      BY <2>3 DEF IdsOf
    <3> QED
      BY <2>1, <2>3, <3>1
  <2> QED
    BY <2>2, <2>3
<1>6. ASSUME NEW r \in old PROVE r.next < NextCron(now)
  <2>1. r.next \in Nat /\ r.next + Window <= now
    BY DEF Missed, TypeInv, TypeOK, Row
  <2>2. NextCron(now) \in Nat /\ NextCron(now) > now
    BY NextCronLater DEF TypeInv, TypeOK
  <2> QED
    BY <2>1, <2>2, SchedulerAssumption DEF TypeInv, TypeOK
<1>7. jobs' \intersect old = {}
  <2>1. \A r \in old : r.next # NextCron(now)
    <3> TAKE r \in old
    <3>1. r.next \in Nat
      BY DEF Missed, TypeInv, TypeOK, Row
    <3> QED
      BY <1>6, <3>1
  <2> QED
    BY <1>5, <2>1
<1> HIDE DEF old, moved, kept
<1> QED
  BY <1>1, <1>3, <1>4, <1>5, <1>6, <1>7 DEF old

-----------------------------------------------------------------------------
(* What a poller holds is what the table says of that id, unless the row was    *)
(* cancelled meanwhile; so settling by id settles the row that was posted.      *)
ClaimInv ==
  \A b \in Backends :
    /\ \A c \in Held(b) : c \in made /\ \A r \in jobs : r.id = c.id => r = c
    /\ \A c, d \in due[b] : c.id = d.id => c = d
    /\ task[b] \in {"sent", "accepted"} => \A c \in due[b] : c.id # cur[b].id

HoldInv == TableInv /\ ClaimInv

LEMMA PostNextClaim ==
  ASSUME TypeInv, NEW b \in Backends, NEW rows, PostNext(b, rows),
         \A c, d \in rows : c.id = d.id => c = d
  PROVE  /\ \A c, d \in due'[b] : c.id = d.id => c = d
         /\ task'[b] \in {"sent", "accepted"} => \A c \in due'[b] : c.id # cur'[b].id
  BY PostNextTask

LEMMA IdleClaim ==
  ASSUME TypeInv, ClaimInv, NEW S \in SUBSET Backends, Idle(S), UNCHANGED <<jobs, made>>
  PROVE  ClaimInv'
<1>1. ASSUME NEW a \in Backends
      PROVE  /\ task'[a] = IF a \in S THEN "none" ELSE task[a]
             /\ due'[a] = IF a \in S THEN {} ELSE due[a]
             /\ cur'[a] = IF a \in S THEN NoRow ELSE cur[a]
  BY <1>1 DEF Idle
<1>2. \A a \in Backends : Held(a)' \subseteq Held(a)
  BY IdleHeld
<1> QED
  BY <1>1, <1>2 DEF ClaimInv

\* While one backend polls, the others hold nothing.
LEMMA OthersHoldNothing ==
  ASSUME TypeInv, LockInv, NEW b \in Backends, task[b] # "none"
  PROVE  \A a \in Backends \ {b} : task[a] = "none" /\ due[a] = {} /\ Held(a) = {}
  BY DEF LockInv, Held

\* A new poller starts with empty hands.
LEMMA StartHolds ==
  ASSUME TypeInv, LockInv, NEW b \in Backends, Start(b)
  PROVE  \A a \in Backends : /\ Held(a)' = {} /\ due'[a] = {} /\ due[a] = {}
                             /\ task'[a] \in {"none", "sleep"} /\ task[a] = "none"
<1>1. \A a \in Backends : task[a] = "none" /\ due[a] = {}
  BY DEF Start, LockFree, LockInv
<1> QED
  BY <1>1 DEF Start, Held, TypeInv, TypeOK

LEMMA HoldStep ==
  ASSUME ReuseIds = FALSE
  PROVE  TypeInv /\ LockInv /\ HoldInv /\ [Next]_vars => HoldInv'
<1> SUFFICES ASSUME TypeInv, LockInv, HoldInv, [Next]_vars PROVE HoldInv'
  OBVIOUS
<1> USE DEF HoldInv
<1>1. ASSUME NEW id \in Ids, CancelJob(id) PROVE HoldInv'
  <2>1. /\ jobs' = jobs \ WithId(id) /\ made' = made \union jobs'
        /\ UNCHANGED <<task, due, cur>>
    BY <1>1 DEF CancelJob, SetJobs, loopVars
  <2> QED
    BY <2>1 DEF TableInv, ClaimInv, Held, WithId
<1>2. ASSUME NEW id \in Ids, NEW kind \in Kinds, NEW at \in 0..MaxTime, AddJob(id, kind, at)
      PROVE  HoldInv'
  <2> DEFINE r == [id |-> id, gen |-> adds + 1, kind |-> kind, next |-> NextFire(kind, at)]
  <2>1. /\ jobs' = jobs \union {r} /\ made' = made \union jobs'
        /\ \A q \in made : q.id # r.id
        /\ UNCHANGED <<task, due, cur>>
    BY <1>2 DEF AddJob, SetJobs, loopVars
  <2> HIDE DEF r
  <2>2. TableInv'
    BY <2>1 DEF TableInv
  <2>3. ClaimInv'
    BY <2>1 DEF ClaimInv, Held
  <2> QED
    BY <2>2, <2>3
<1>3. ASSUME NEW b \in Backends, Start(b) PROVE HoldInv'
  <2>1. ClaimInv'
    BY <1>3, StartHolds DEF ClaimInv
  <2>2. CASE Recover
    BY <2>1, <2>2, RecoveredTable
  <2>3. CASE UNCHANGED <<jobs, made, waived>>
    BY <2>1, <2>3 DEF TableInv
  <2> QED
    BY <1>3, <2>2, <2>3 DEF Start
<1>4. ASSUME NEW b \in Backends, StopEnd(b) PROVE HoldInv'
  <2>1. Idle({b}) /\ UNCHANGED <<jobs, made>>
    BY <1>4 DEF StopEnd, table
  <2> QED
    BY <2>1, IdleClaim DEF TableInv
<1>5. ASSUME NEW p \in Procs, Crash(p) PROVE HoldInv'
  <2>1. Idle({b \in Backends : Home[b] = p}) /\ UNCHANGED <<jobs, made>>
    BY <1>5 DEF Crash, table
  <2> QED
    BY <2>1, IdleClaim DEF TableInv
<1>6. ASSUME NEW b \in Backends, Tick(b) PROVE HoldInv'
  <2>1. PostNext(b, DueRows(now)) /\ UNCHANGED <<jobs, made>>
    BY <1>6 DEF Tick, table
  <2>2. DueRows(now) \subseteq jobs
    BY DEF DueRows
  <2>3. ClaimInv'
    BY <2>1, <2>2, PostNextTask, PostNextHeld, PostNextClaim DEF ClaimInv, TableInv
  <2> QED
    BY <2>1, <2>3 DEF TableInv
<1>7. ASSUME NEW b \in Backends, FireFail(b) PROVE HoldInv'
  <2>1. PostNext(b, due[b]) /\ UNCHANGED <<jobs, made>>
    BY <1>7 DEF FireFail, table
  <2>2. ClaimInv'
    BY <2>1, PostNextTask, PostNextHeld, PostNextClaim DEF ClaimInv, Held
  <2> QED
    BY <2>1, <2>2 DEF TableInv
<1>8. ASSUME NEW b \in Backends, Accept(b) PROVE HoldInv'
  <2>1. /\ task' = [task EXCEPT ![b] = "accepted"] /\ task[b] = "sent"
        /\ UNCHANGED <<jobs, made, due, cur>>
    BY <1>8 DEF Accept, table
  <2>2. \A a \in Backends : Held(a)' = Held(a)
    BY <2>1 DEF Held, TypeInv, TypeOK
  <2> QED
    BY <2>1, <2>2 DEF TableInv, ClaimInv, TypeInv, TypeOK
<1>9. ASSUME NEW b \in Backends, FireOk(b) PROVE HoldInv'
  <2> DEFINE c == cur[b]
  <2>1. task[b] \in {"sent", "accepted"} /\ c \in Held(b) /\ PostNext(b, due[b])
    BY <1>9 DEF FireOk, Answered2xx, Held
  <2>2. \A a \in Backends \ {b} : Held(a)' = {} /\ due'[a] = {} /\ task'[a] = "none"
    BY <2>1, PostNextTask, OthersHoldNothing, PostNextHeld
  <2>3. CASE UNCHANGED <<jobs, made>>
    <3>1. ClaimInv'
      BY <2>1, <2>2, <2>3, PostNextTask, PostNextHeld, PostNextClaim DEF ClaimInv, Held
    <3> QED
      BY <2>1, <2>3, <3>1 DEF TableInv
  <2>4. CASE SetJobs(SettledJobs(c, tick[b]))
    <3>1. /\ TableInv' /\ made' = made \union jobs'
          /\ \A r \in jobs' : r.id # c.id => r \in jobs
      BY <2>4, SettledTable
    <3>2. \A d \in due[b] : d \in made /\ d.id # c.id /\ \A r \in jobs : r.id = d.id => r = d
      BY <2>1 DEF ClaimInv, Held
    <3>3. \A d \in Held(b)' : d \in made' /\ \A r \in jobs' : r.id = d.id => r = d
      BY <2>1, <3>1, <3>2, PostNextHeld
    <3>4. ClaimInv'
      BY <2>1, <2>2, <3>3, PostNextClaim DEF ClaimInv
    <3> QED
      BY <3>1, <3>4
  <2> QED
    BY <1>9, <2>3, <2>4 DEF FireOk
<1>10. CASE \/ \E b \in Backends : StopBegin(b)
            \/ \E p \in Procs : Boot(p)
            \/ Pass
            \/ UNCHANGED vars
  <2>1. UNCHANGED <<jobs, made, task, due, cur>>
    BY <1>10 DEF StopBegin, Boot, Pass, vars, table, loopVars
  <2> QED
    BY <2>1 DEF TableInv, ClaimInv, Held
<1> QED
  BY <1>1, <1>2, <1>3, <1>4, <1>5, <1>6, <1>7, <1>8, <1>9, <1>10 DEF Next

LEMMA HoldInit == Init => LockInv /\ HoldInv
  BY DEF Init, LockInv, HoldInv, TableInv, ClaimInv, Held

-----------------------------------------------------------------------------
(* No lost fire.  A row that _fire settles had its turn, and no other row goes. *)
AcceptedLanded == \A b \in Backends : task[b] = "accepted" => cur[b] \in landed

LossInv == NoLostFire /\ AcceptedLanded

LEMMA LossStep ==
  ASSUME RpcErrors = FALSE
  PROVE  TypeInv /\ LockInv /\ HoldInv /\ LossInv /\ [Next]_vars => LossInv'
<1> SUFFICES ASSUME TypeInv, LockInv, HoldInv, LossInv, [Next]_vars PROVE LossInv'
  OBVIOUS
<1> USE DEF LossInv, HoldInv
<1>1. ASSUME NEW id \in Ids, CancelJob(id) PROVE LossInv'
  BY <1>1 DEF CancelJob, SetJobs, WithId, loopVars, NoLostFire, AcceptedLanded
<1>2. ASSUME NEW id \in Ids, NEW kind \in Kinds, NEW at \in 0..MaxTime, AddJob(id, kind, at)
      PROVE  LossInv'
  BY <1>2 DEF AddJob, SetJobs, loopVars, history, NoLostFire, AcceptedLanded
<1>3. ASSUME NEW b \in Backends, Start(b) PROVE LossInv'
  <2>1. landed' = landed /\ AcceptedLanded'
    BY <1>3, StartHolds DEF Start, AcceptedLanded
  <2>2. CASE Recover
    BY <2>1, <2>2, RecoveredTable DEF NoLostFire
  <2>3. CASE UNCHANGED <<jobs, made, waived>>
    BY <2>1, <2>3 DEF NoLostFire
  <2> QED
    BY <1>3, <2>2, <2>3 DEF Start
<1>4. ASSUME NEW S \in SUBSET Backends, Idle(S), landed \subseteq landed',
             UNCHANGED <<jobs, made, waived>>
      PROVE  LossInv'
  BY <1>4 DEF Idle, NoLostFire, AcceptedLanded
<1>5. ASSUME NEW b \in Backends, StopEnd(b) PROVE LossInv'
  BY <1>4, <1>5 DEF StopEnd, GiveUp, table
<1>6. ASSUME NEW p \in Procs, Crash(p) PROVE LossInv'
  BY <1>4, <1>6 DEF Crash, table, history
<1>7. ASSUME NEW b \in Backends, NEW rows, PostNext(b, rows), landed \subseteq landed'
      PROVE  AcceptedLanded'
  BY <1>7, PostNextTask DEF AcceptedLanded
<1>8. ASSUME NEW b \in Backends, Tick(b) \/ FireFail(b) PROVE LossInv'
  <2>1. landed \subseteq landed' /\ UNCHANGED <<jobs, made, waived>>
    BY <1>8 DEF Tick, FireFail, GiveUp, table, history
  <2>2. PICK rows \in {DueRows(now), due[b]} : PostNext(b, rows)
    BY <1>8 DEF Tick, FireFail
  <2> QED
    BY <1>7, <2>1, <2>2 DEF NoLostFire
<1>9. ASSUME NEW b \in Backends, Accept(b) PROVE LossInv'
  BY <1>9 DEF Accept, table, NoLostFire, AcceptedLanded, TypeInv, TypeOK
<1>10. ASSUME NEW b \in Backends, FireOk(b) PROVE LossInv'
  <2> DEFINE c == cur[b]
  <2>1. /\ c \in landed /\ c \in Held(b)
        /\ PostNext(b, due[b]) /\ UNCHANGED <<landed, waived>>
    BY <1>10 DEF FireOk, Answered2xx, AcceptedLanded, Held
  <2>2. AcceptedLanded'
    BY <1>7, <2>1
  <2>3. CASE UNCHANGED <<jobs, made>>
    BY <2>1, <2>2, <2>3 DEF NoLostFire
  <2>4. CASE SetJobs(SettledJobs(c, tick[b]))
    <3>1. /\ made' = made \union jobs'
          /\ \A r \in jobs : r.id # c.id => r \in jobs'
      BY <2>4, SettledTable
    <3>2. \A r \in jobs : r.id = c.id => r = c
      BY <2>1 DEF ClaimInv
    <3> QED
      BY <2>1, <2>2, <3>1, <3>2 DEF NoLostFire
  <2> QED
    BY <1>10, <2>3, <2>4 DEF FireOk
<1>11. CASE \/ \E b \in Backends : StopBegin(b)
            \/ \E p \in Procs : Boot(p)
            \/ Pass
            \/ UNCHANGED vars
  BY <1>11 DEF StopBegin, Boot, Pass, vars, table, loopVars, history, NoLostFire, AcceptedLanded
<1> QED
  BY <1>1, <1>2, <1>3, <1>5, <1>6, <1>8, <1>9, <1>10, <1>11 DEF Next

LEMMA LossInit == Init => LossInv
  BY DEF Init, LossInv, NoLostFire, AcceptedLanded

(* At-least-once: when ids are generated and the agent refuses by HTTP status,  *)
(* every occurrence that was ever in the table is still there, was started as a *)
(* turn, or was withdrawn, across crashes, retries, takeovers and failed writes.*)
THEOREM NoFireIsLost ==
  ASSUME ReuseIds = FALSE, RpcErrors = FALSE
  PROVE  Spec => []NoLostFire
<1>1. TypeInv /\ LockInv /\ HoldInv /\ [Next]_vars => HoldInv'
  BY HoldStep
<1>2. TypeInv /\ LockInv /\ HoldInv /\ LossInv /\ [Next]_vars => LossInv'
  BY LossStep
<1>3. LossInv => NoLostFire
  BY DEF LossInv
<1> QED
  BY <1>1, <1>2, <1>3, TypeInit, TypeStep, LockStep, HoldInit, LossInit, PTL DEF Spec

-----------------------------------------------------------------------------
(* No stray fire.  A settled or a missed row is spent: the table has at most a  *)
(* later fire of its job, and no poller holds it.                               *)
Spent == acked \union stale

SpentInv ==
  /\ \A b \in Backends : task[b] \notin {"sent", "accepted"} => cur[b] = NoRow
  /\ \A b \in Backends : \A r \in Held(b) : r.next <= tick[b] /\ r \notin Spent
  /\ Spent \subseteq made
  /\ \A s \in Spent, r \in jobs : r.id = s.id => r.next > s.next

LEMMA SpentIsGone == TypeInv /\ SpentInv => jobs \intersect Spent = {}
  BY DEF SpentInv, TypeInv, TypeOK, Row

LEMMA SpentInit == Init => SpentInv
  BY DEF Init, SpentInv, Spent, Held

LEMMA IdleSpent ==
  ASSUME TypeInv, SpentInv, NEW S \in SUBSET Backends, Idle(S),
         UNCHANGED <<jobs, made, tick, acked, stale>>
  PROVE  SpentInv'
<1>1. ASSUME NEW a \in Backends
      PROVE  /\ task'[a] = IF a \in S THEN "none" ELSE task[a]
             /\ cur'[a] = IF a \in S THEN NoRow ELSE cur[a]
  BY <1>1 DEF Idle
<1>2. \A a \in Backends : Held(a)' \subseteq Held(a)
  BY IdleHeld
<1> QED
  BY <1>1, <1>2 DEF SpentInv, Spent

LEMMA PostNextSpent ==
  ASSUME TypeInv, SpentInv, NEW b \in Backends, NEW rows \in SUBSET Row, PostNext(b, rows),
         \A a \in Backends \ {b} : Held(a) = {},
         \A r \in rows : r.next <= tick'[b] /\ r \notin Spent'
  PROVE  /\ \A a \in Backends : task'[a] \notin {"sent", "accepted"} => cur'[a] = NoRow
         /\ \A a \in Backends : \A r \in Held(a)' : r.next <= tick'[a] /\ r \notin Spent'
<1>1. \A a \in Backends \ {b} : Held(a)' = {} /\ task'[a] = task[a] /\ cur'[a] = cur[a]
  BY PostNextHeld, PostNextTask
<1>2. Held(b)' \subseteq rows
  BY PostNextHeld
<1>3. (task'[b] = "sleep" /\ cur'[b] = NoRow) \/ task'[b] = "sent"
  BY DEF PostNext, TypeInv, TypeOK
<1> QED
  BY <1>1, <1>2, <1>3 DEF SpentInv

LEMMA SpentStep ==
  ASSUME ReuseIds = FALSE, DbFaults = FALSE
  PROVE  TypeInv /\ LockInv /\ HoldInv /\ SpentInv /\ [Next]_vars => SpentInv'
<1> SUFFICES ASSUME TypeInv, LockInv, HoldInv, SpentInv, [Next]_vars PROVE SpentInv'
  OBVIOUS
<1>1. ASSUME NEW id \in Ids, CancelJob(id) PROVE SpentInv'
  <2>1. jobs' \subseteq jobs /\ made' = made \union jobs' /\ UNCHANGED <<task, due, cur, tick, acked, stale>>
    BY <1>1 DEF CancelJob, SetJobs, loopVars
  <2> QED
    BY <2>1 DEF SpentInv, Spent, Held
<1>2. ASSUME NEW id \in Ids, NEW kind \in Kinds, NEW at \in 0..MaxTime, AddJob(id, kind, at)
      PROVE  SpentInv'
  <2> DEFINE r == [id |-> id, gen |-> adds + 1, kind |-> kind, next |-> NextFire(kind, at)]
  <2>1. /\ jobs' = jobs \union {r} /\ made' = made \union jobs'
        /\ \A q \in made : q.id # r.id
        /\ UNCHANGED <<task, due, cur, tick, acked, stale>>
    BY <1>2 DEF AddJob, SetJobs, loopVars, history
  <2> HIDE DEF r
  <2> QED
    BY <2>1 DEF SpentInv, Spent, Held
<1>3. ASSUME NEW b \in Backends, Start(b) PROVE SpentInv'
  <2>1. Recover /\ stale' = Missed(now) /\ UNCHANGED <<cur, acked>>
    BY <1>3 DEF Start
  <2>2. Spent' \subseteq made'
    BY <2>1, RecoveredTable DEF SpentInv, Spent, HoldInv, TableInv, Missed
  <2>3. ASSUME NEW s \in Spent', NEW r \in jobs', r.id = s.id PROVE r.next > s.next
    <3>1. r \in Row /\ s \in Row /\ NextCron(now) \in Nat
      BY <1>3, <2>1, TypeStep, NextCronLater DEF TypeInv, TypeOK, Spent
    <3>2. CASE r \in jobs \ Missed(now)
      <4>1. s \notin Missed(now)
        BY <2>3, <3>2 DEF Missed, HoldInv, TableInv
      <4> QED
        BY <2>1, <2>3, <3>2, <4>1 DEF SpentInv, Spent
    <3>3. CASE r.next = NextCron(now) /\ \E o \in Missed(now) : o.id = r.id
      <4>1. PICK o \in Missed(now) : o.id = r.id
        BY <3>3
      <4>2. o \in jobs /\ o \in Row /\ o.next < NextCron(now)
        BY <2>1, RecoveredTable DEF HoldInv, Missed, TypeInv, TypeOK
      <4>3. CASE s \in Missed(now)
        BY <2>1, <3>1, <3>3, <4>3, RecoveredTable DEF HoldInv, Row
      <4>4. CASE s \in acked
        <5>1. o.next > s.next
          BY <2>3, <4>1, <4>2, <4>4 DEF SpentInv, Spent
        <5> QED
          BY <3>1, <3>3, <4>2, <5>1 DEF Row
      <4> QED
        BY <2>1, <4>3, <4>4 DEF Spent
    <3> QED
      BY <2>1, <3>2, <3>3, RecoveredTable DEF HoldInv
  <2>4. \A a \in Backends : Held(a)' = {} /\ cur'[a] = NoRow
    BY <1>3, <2>1, StartHolds DEF SpentInv
  <2> QED
    BY <2>2, <2>3, <2>4 DEF SpentInv
<1>4. ASSUME NEW b \in Backends, StopEnd(b) PROVE SpentInv'
  <2>1. Idle({b}) /\ UNCHANGED <<jobs, made, tick, acked, stale>>
    BY <1>4 DEF StopEnd, table
  <2> QED
    BY <2>1, IdleSpent
<1>5. ASSUME NEW p \in Procs, Crash(p) PROVE SpentInv'
  <2>1. Idle({b \in Backends : Home[b] = p}) /\ UNCHANGED <<jobs, made, tick, acked, stale>>
    BY <1>5 DEF Crash, table, history
  <2> QED
    BY <2>1, IdleSpent
<1>6. ASSUME NEW b \in Backends, Tick(b) PROVE SpentInv'
  <2>1. /\ PostNext(b, DueRows(now)) /\ tick'[b] = now
        /\ UNCHANGED <<jobs, made, acked, stale>> /\ task[b] # "none"
    BY <1>6 DEF Tick, table, history, TypeInv, TypeOK
  <2>2. DueRows(now) \in SUBSET Row /\ \A r \in DueRows(now) : r.next <= now /\ r \in jobs
    BY DEF DueRows, TypeInv, TypeOK
  <2>3. \A r \in DueRows(now) : r.next <= tick'[b] /\ r \notin Spent'
    BY <2>1, <2>2, SpentIsGone DEF Spent
  <2> QED
    BY <2>1, <2>2, <2>3, PostNextSpent, OthersHoldNothing DEF SpentInv, Spent
<1>7. ASSUME NEW b \in Backends, FireFail(b) PROVE SpentInv'
  <2>1. /\ PostNext(b, due[b]) /\ task[b] # "none"
        /\ UNCHANGED <<jobs, made, tick, acked, stale>>
    BY <1>7 DEF FireFail, table
  <2>2. due[b] \in SUBSET Row /\ \A r \in due[b] : r.next <= tick'[b] /\ r \notin Spent'
    BY <2>1 DEF SpentInv, Spent, Held, TypeInv, TypeOK
  <2> QED
    BY <2>1, <2>2, PostNextSpent, OthersHoldNothing DEF SpentInv, Spent
<1>8. ASSUME NEW b \in Backends, Accept(b) PROVE SpentInv'
  <2>1. /\ task' = [task EXCEPT ![b] = "accepted"] /\ task[b] = "sent"
        /\ UNCHANGED <<jobs, made, due, cur, tick, acked, stale>>
    BY <1>8 DEF Accept, table
  <2>2. \A a \in Backends : Held(a)' = Held(a)
    BY <2>1 DEF Held, TypeInv, TypeOK
  <2> QED
    BY <2>1, <2>2 DEF SpentInv, Spent, TypeInv, TypeOK
<1>9. ASSUME NEW b \in Backends, FireOk(b) PROVE SpentInv'
  <2> DEFINE c == cur[b]
  <2>1. /\ SetJobs(SettledJobs(c, tick[b])) /\ acked' = acked \union {c}
        /\ PostNext(b, due[b]) /\ task[b] \in {"sent", "accepted"} /\ UNCHANGED <<tick, stale>>
    BY <1>9 DEF FireOk, Answered2xx
  <2>2. /\ c \in Held(b) /\ c \in Row /\ c \in made /\ c.next <= tick[b] /\ tick[b] \in 0..MaxTime
        /\ \A r \in jobs : r.id = c.id => r = c
        /\ \A r \in due[b] : r.id # c.id
    BY <2>1 DEF HoldInv, ClaimInv, SpentInv, Held, TypeInv, TypeOK, PostHasRow
  <2>3. Spent' = Spent \union {c}
    BY <2>1 DEF Spent
  <2>4. Spent' \subseteq made'
    BY <2>1, <2>2, <2>3 DEF SpentInv, SetJobs
  <2>5. ASSUME NEW s \in Spent', NEW r \in jobs', r.id = s.id PROVE r.next > s.next
    <3>1. CASE r.id # c.id
      <4>1. r \in jobs /\ s \in Spent
        BY <2>1, <2>3, <2>5, <3>1, SettledTable DEF HoldInv
      <4> QED
        BY <2>5, <4>1 DEF SpentInv
    <3>2. CASE r.id = c.id
      <4>1. r.next = NextCron(tick[b]) /\ c \in jobs
        BY <2>1, <2>2, <3>2, SettledTable DEF HoldInv
      <4>2. NextCron(tick[b]) \in Nat /\ NextCron(tick[b]) > tick[b]
        BY <2>2, NextCronLater
      <4>3. s \in Row /\ (s = c \/ s.next < c.next)
        BY <2>2, <2>3, <2>5, <3>2, <4>1 DEF SpentInv, Spent, TypeInv, TypeOK
      <4> QED
        BY <2>2, <4>1, <4>2, <4>3 DEF Row
    <3> QED
      BY <3>1, <3>2
  <2>6. due[b] \in SUBSET Row /\ \A r \in due[b] : r.next <= tick'[b] /\ r \notin Spent'
    BY <2>1, <2>2, <2>3 DEF SpentInv, Held, TypeInv, TypeOK
  <2> QED
    BY <2>1, <2>4, <2>5, <2>6, PostNextSpent, OthersHoldNothing DEF SpentInv
<1>10. CASE \/ \E b \in Backends : StopBegin(b)
            \/ \E p \in Procs : Boot(p)
            \/ Pass
            \/ UNCHANGED vars
  <2>1. UNCHANGED <<jobs, made, task, due, cur, tick, acked, stale>>
    BY <1>10 DEF StopBegin, Boot, Pass, vars, table, loopVars, history
  <2> QED
    BY <2>1 DEF SpentInv, Spent, Held
<1> QED
  BY <1>1, <1>2, <1>3, <1>4, <1>5, <1>6, <1>7, <1>8, <1>9, <1>10 DEF Next

(* What is settled is not posted again, by this poller or by the next, and what *)
(* was missed by the whole window before the poller started is never fired: when*)
(* ids are generated and sqlite takes the writes, also if refusals ride in 200s.*)
THEOREM NoFireIsStray ==
  ASSUME ReuseIds = FALSE, DbFaults = FALSE
  PROVE  Spec => []NoStrayFire
<1>1. TypeInv /\ LockInv /\ HoldInv /\ [Next]_vars => HoldInv'
  BY HoldStep
<1>2. TypeInv /\ LockInv /\ HoldInv /\ SpentInv /\ [Next]_vars => SpentInv'
  BY SpentStep
<1>3. TypeInv /\ SpentInv => NoStrayFire
  <2> SUFFICES ASSUME TypeInv, SpentInv, NEW b \in Backends
               PROVE  cur[b] \notin Spent /\ due[b] \intersect Spent = {}
    BY DEF NoStrayFire, NoRepost, StaleNeverFires, Spent
  <2>1. NoRow \notin Spent
    BY NoRowAssumption DEF Spent, TypeInv, TypeOK
  <2>2. CASE task[b] \in {"sent", "accepted"}
    BY <2>2 DEF SpentInv, Held
  <2>3. CASE task[b] \notin {"sent", "accepted"}
    BY <2>1, <2>3 DEF SpentInv, Held
  <2> QED
    BY <2>2, <2>3
<1> QED
  BY <1>1, <1>2, <1>3, TypeInit, TypeStep, LockStep, HoldInit, SpentInit, PTL DEF Spec

-----------------------------------------------------------------------------
(* The ledger.  Every step of the backend is one of JobLedger's or stutters:    *)
(* an add stores, a cancel and a recovery waive, an accepted post lands, a      *)
(* settlement settles the row that landed.                                      *)
LEMMA LandStep ==
  ASSUME TypeInv, HoldInv, LossInv, EarlyInv, NEW b \in Backends,
         task[b] \in {"sent", "accepted"}, landed' = landed \union {cur[b]},
         UNCHANGED <<jobs, waived, now>>
  PROVE  [Ledger!Next]_(Ledger!ledgerVars)
<1>1. cur[b] \in Held(b) /\ cur[b] \in made /\ cur[b].next <= now
  BY DEF Held, HoldInv, ClaimInv, EarlyInv
<1>2. CASE cur[b] \in landed
  BY <1>2 DEF Ledger!ledgerVars
<1>3. CASE cur[b] \in jobs \union waived
  BY <1>1, <1>3 DEF Ledger!Next, Ledger!Land
<1> QED
  BY <1>1, <1>2, <1>3 DEF LossInv, NoLostFire

LEMMA SettleStep ==
  ASSUME TypeInv, HoldInv, LossInv, SpentInv, RpcErrors = FALSE,
         NEW b \in Backends, FireOk(b), SetJobs(SettledJobs(cur[b], tick[b]))
  PROVE  [Ledger!Next]_(Ledger!ledgerVars)
<1> DEFINE c == cur[b]
<1>1. /\ c \in Held(b) /\ c \in Row /\ c \in landed
      /\ c.next <= tick[b] /\ tick[b] \in 0..MaxTime
      /\ UNCHANGED <<landed, waived, now>>
  BY DEF FireOk, Answered2xx, Held, LossInv, AcceptedLanded, SpentInv, TypeInv, TypeOK, PostHasRow
<1>2. \A r \in jobs : r.id = c.id => r = c
  BY <1>1 DEF HoldInv, ClaimInv
<1>3. /\ \A r \in jobs' : r.id # c.id => r \in jobs
      /\ \A r \in jobs : r.id # c.id => r \in jobs'
      /\ \A r \in jobs' : r.id = c.id => r.next = NextCron(tick[b]) /\ \E q \in jobs : q.id = c.id
  BY SettledTable DEF HoldInv
<1>4. NextCron(tick[b]) \in Nat /\ NextCron(tick[b]) > tick[b]
  BY <1>1, NextCronLater
<1>5. CASE c \in jobs
  <2>1. \A r \in jobs' : r.id = c.id => r.next > c.next
    BY <1>1, <1>3, <1>4 DEF Row
  <2>2. c \notin jobs'
    BY <1>1, <2>1 DEF Row
  <2>3. Ledger!Gone = {c}
    BY <1>2, <1>3, <1>5, <2>2 DEF Ledger!Gone
  <2>4. \A n \in Ledger!Fresh : n.id = c.id /\ n.next > c.next
    BY <1>3, <2>1 DEF Ledger!Fresh
  <2> QED
    BY <1>1, <1>5, <2>3, <2>4 DEF Ledger!Next, Ledger!Settle
<1>6. CASE c \notin jobs
  <2>1. \A r \in jobs : r.id # c.id
    BY <1>2, <1>6
  <2>2. jobs' = jobs
    BY <1>3, <2>1
  <2> QED
    BY <1>1, <2>2 DEF Ledger!ledgerVars
<1> QED
  BY <1>5, <1>6

LEMMA LedgerStep ==
  ASSUME RpcErrors = FALSE, DbFaults = FALSE
  PROVE  TypeInv /\ HoldInv /\ LossInv /\ EarlyInv /\ SpentInv /\ [Next]_vars
           => [Ledger!Next]_(Ledger!ledgerVars)
<1> SUFFICES ASSUME TypeInv, HoldInv, LossInv, EarlyInv, SpentInv, [Next]_vars
             PROVE  [Ledger!Next]_(Ledger!ledgerVars)
  OBVIOUS
<1>1. ASSUME NEW id \in Ids, CancelJob(id) PROVE Ledger!Waive
  <2>1. /\ Ledger!Gone = WithId(id) /\ Ledger!Fresh = {} /\ WithId(id) # {}
        /\ waived' = waived \union WithId(id)
        /\ UNCHANGED <<landed, now>>
    BY <1>1 DEF CancelJob, SetJobs, WithId, Ledger!Gone, Ledger!Fresh
  <2> QED
    BY <2>1 DEF Ledger!Waive
<1>2. ASSUME NEW id \in Ids, NEW kind \in Kinds, NEW at \in 0..MaxTime, AddJob(id, kind, at)
      PROVE  Ledger!Store
  <2> DEFINE r == [id |-> id, gen |-> adds + 1, kind |-> kind, next |-> NextFire(kind, at)]
  <2>1. jobs' = jobs \union {r} /\ WithId(id) = {} /\ UNCHANGED <<landed, waived, now>>
    BY <1>2 DEF AddJob, SetJobs, history
  <2>2. r \in Row /\ r \notin jobs
    BY <1>2, <2>1, TypeStep DEF WithId, TypeInv, TypeOK
  <2> HIDE DEF r
  <2>3. Ledger!Fresh = {r}
    BY <2>1, <2>2 DEF Ledger!Fresh
  <2> QED
    BY <2>1, <2>2, <2>3 DEF Ledger!Store
<1>3. ASSUME NEW b \in Backends, Start(b) PROVE [Ledger!Next]_(Ledger!ledgerVars)
  <2>1. Recover /\ UNCHANGED <<landed, now>>
    BY <1>3 DEF Start
  <2>2. /\ waived' = waived \union Missed(now)
        /\ \A r \in jobs \ Missed(now) : r \in jobs'
        /\ \A r \in jobs' : \/ r \in jobs \ Missed(now)
                            \/ r.next = NextCron(now) /\ \E o \in Missed(now) : o.id = r.id
        /\ jobs' \intersect Missed(now) = {}
    BY <2>1, RecoveredTable DEF HoldInv
  <2>3. Ledger!Gone = Missed(now)
    BY <2>2 DEF Ledger!Gone, Missed
  <2>4. \A n \in Ledger!Fresh : n.next > now /\ \E o \in Ledger!Gone : o.id = n.id
    BY <2>2, <2>3, NextCronLater DEF Ledger!Fresh, TypeInv, TypeOK
  <2>5. CASE Missed(now) = {}
    <3>1. jobs' = jobs /\ waived' = waived
      BY <2>2, <2>5
    <3> QED
      BY <2>1, <3>1 DEF Ledger!ledgerVars
  <2>6. CASE Missed(now) # {}
    BY <2>1, <2>2, <2>3, <2>4, <2>6 DEF Ledger!Next, Ledger!Waive
  <2> QED
    BY <2>5, <2>6
<1>4. ASSUME NEW b \in Backends, GiveUp(b), UNCHANGED <<jobs, waived, now>>
      PROVE  [Ledger!Next]_(Ledger!ledgerVars)
  BY <1>4, LandStep DEF GiveUp, Ledger!ledgerVars
<1>5. ASSUME NEW b \in Backends, StopEnd(b) \/ FireFail(b)
      PROVE  [Ledger!Next]_(Ledger!ledgerVars)
  BY <1>4, <1>5 DEF StopEnd, FireFail, table
<1>6. ASSUME NEW b \in Backends, Accept(b) PROVE [Ledger!Next]_(Ledger!ledgerVars)
  BY <1>6, LandStep DEF Accept, table
<1>7. ASSUME NEW b \in Backends, FireOk(b) PROVE [Ledger!Next]_(Ledger!ledgerVars)
  BY <1>7, SettleStep DEF FireOk
<1>8. CASE Pass
  BY <1>8 DEF Pass, Ledger!Next, Ledger!Pass, table, history
<1>9. CASE \/ \E b \in Backends : StopBegin(b) \/ Tick(b)
           \/ \E p \in Procs : Boot(p) \/ Crash(p)
           \/ UNCHANGED vars
  BY <1>9 DEF StopBegin, Tick, Boot, Crash, vars, table, history, Ledger!ledgerVars
<1> QED
  BY <1>1, <1>2, <1>3, <1>5, <1>6, <1>7, <1>8, <1>9 DEF Next, Ledger!Next

(* Lock, poll loop, recovery and table keep the ledger of occurrences: what is  *)
(* owed lands once it is due or is waived, and only then is it not owed any more*)
(* (generated ids, refusals by HTTP status, a database that takes the writes).  *)
THEOREM LedgerIsKept ==
  ASSUME ReuseIds = FALSE, RpcErrors = FALSE, DbFaults = FALSE
  PROVE  Spec => LedgerSpec
<1>1. TypeInv /\ LockInv /\ HoldInv /\ [Next]_vars => HoldInv'
  BY HoldStep
<1>2. TypeInv /\ LockInv /\ HoldInv /\ LossInv /\ [Next]_vars => LossInv'
  BY LossStep
<1>3. TypeInv /\ LockInv /\ HoldInv /\ SpentInv /\ [Next]_vars => SpentInv'
  BY SpentStep
<1>4. TypeInv /\ HoldInv /\ LossInv /\ EarlyInv /\ SpentInv /\ [Next]_vars
        => [Ledger!Next]_(Ledger!ledgerVars)
  BY LedgerStep
<1>5. Init => EarlyInv /\ Ledger!Init
  BY DEF Init, EarlyInv, NeverEarly, Held, Ledger!Init
<1> QED
  BY <1>1, <1>2, <1>3, <1>4, <1>5, TypeInit, TypeStep, LockStep, HoldInit, LossInit, SpentInit,
     EarlyStep, PTL DEF Spec, LedgerSpec, Ledger!Spec
=============================================================================
