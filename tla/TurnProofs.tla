----------------------------- MODULE TurnProofs ------------------------------
(* Theorems about TurnUnion, for every value of its constants. *)
EXTENDS TurnUnion, SequenceTheorems, FiniteSetTheorems, Basics, TLAPS

(* The task of a turn *)

State == {"absent", "submitted", "working", "input_required", "completed", "failed", "canceled"}
Ended == {"completed", "failed", "canceled"}
Texts == Seq(0..MaxText)
Event == [kind : {"status"}, state : State]
         \union [kind : {"artifact"}, pieces : Texts, append : BOOLEAN]
RunRecord == [pc : {"none", "stream", "finalize"}, said : Texts, buf : Texts,
              started : BOOLEAN, final : Texts]
Shown(s) == [kind |-> "status", state |-> s]

TaskType ==
  /\ up \in BOOLEAN
  /\ store \in [Tasks -> State]
  /\ text \in [Tasks -> Texts]
  /\ old \subseteq Tasks
  /\ queue \in [Tasks -> Seq(Event)]
  /\ run \in [Tasks -> RunRecord]
  /\ written \in [Tasks -> 0..MaxText]
  /\ turns \in [Tasks -> 0..MaxTurns]
  /\ told \in [Tasks -> Seq({"completed", "failed"})]
  /\ answer \in [Tasks -> Texts]
  /\ before \in [Tasks -> Texts]
  /\ lost \subseteq Tasks
  /\ reconciled \in BOOLEAN

LEMMA TaskMoves ==
  [Next]_vars => [Task!Next]_taskVars
  BY DEF Next, vars, taskVars, TaskStep, GoalStep, FlowStep

LEMMA Bounds == MaxText \in Nat /\ MaxTurns \in Nat
  BY TaskAssumption DEF TaskAssumption, Task!LifecycleAssumption

LEMMA NothingYet == \A S : <<>> \in Seq(S)
  OBVIOUS

LEMMA NoText == <<>> \in Texts
  BY DEF Texts

LEMMA LongerText == \A x \in Texts, p \in 0..MaxText : Append(x, p) \in Texts
  BY DEF Texts

LEMMA JoinedText == \A x, y \in Texts : x \o y \in Texts
  BY DEF Texts

LEMMA LongerRun ==
  ASSUME NEW r \in RunRecord, NEW x \in Texts, NEW y \in Texts
  PROVE  [r EXCEPT !.said = x, !.buf = y] \in RunRecord
  BY DEF RunRecord

LEMMA NoRunType == Task!NoRun \in RunRecord /\ Task!NewRun \in RunRecord
  BY NoText DEF Task!NoRun, Task!NewRun, RunRecord

LEMMA StatusType == \A s \in State : Task!Status(s) \in Event
  BY DEF Task!Status, Event

LEMMA FlushType ==
  ASSUME NEW r \in RunRecord
  PROVE  Task!Flushed(r) \in Seq(Event) /\ Task!AfterFlush(r) \in RunRecord
<1>1. CASE r.buf = <<>>
  BY <1>1 DEF Task!Flushed, Task!AfterFlush
<1>2. CASE r.buf # <<>>
  <2>1. Task!Artifact(r.buf, r.started) \in Event
    BY DEF Task!Artifact, Event, RunRecord
  <2>2. [r EXCEPT !.buf = <<>>, !.started = TRUE] \in RunRecord
    BY NoText DEF RunRecord
  <2> QED
    BY <1>2, <2>1, <2>2 DEF Task!Flushed, Task!AfterFlush
<1> QED
  BY <1>1, <1>2

LEMMA TaskTypeInit == Task!Init => TaskType
<1> SUFFICES ASSUME Task!Init PROVE TaskType
  OBVIOUS
<1> USE Bounds, NothingYet, NoText, NoRunType DEF Task!Init
<1>1. store \in [Tasks -> State] /\ text \in [Tasks -> Texts] /\ run \in [Tasks -> RunRecord]
  BY DEF State
<1>2. queue \in [Tasks -> Seq(Event)]
  OBVIOUS
<1>6. told \in [Tasks -> Seq({"completed", "failed"})]
  OBVIOUS
<1>3. written \in [Tasks -> 0..MaxText] /\ turns \in [Tasks -> 0..MaxTurns]
  OBVIOUS
<1>4. answer \in [Tasks -> Texts] /\ before \in [Tasks -> Texts]
  OBVIOUS
<1> QED
  BY <1>1, <1>2, <1>3, <1>4, <1>6 DEF TaskType

LEMMA TaskTypeStep ==
  ASSUME TaskType, [Task!Next]_taskVars
  PROVE  TaskType'
<1> USE DEF TaskType, Task!durable, Task!history, Task!Enqueue
<1>1. ASSUME NEW t \in Tasks, Task!Message(t) PROVE TaskType'
  <2>1. IF store[t] = "input_required" THEN <<Task!Status("working")>> \in Seq(Event)
        ELSE <<Task!Status("submitted"), Task!Status("working")>> \in Seq(Event)
    BY StatusType DEF State
  <2>2. queue' \in [Tasks -> Seq(Event)]
    BY <1>1, <2>1 DEF Task!Message
  <2>3. run' \in [Tasks -> RunRecord] /\ turns' \in [Tasks -> 0..MaxTurns]
    BY <1>1, NoRunType, Bounds DEF Task!Message
  <2> QED
    BY <1>1, <2>2, <2>3 DEF Task!Message
<1>2. ASSUME NEW t \in Tasks, Task!Write(t) PROVE TaskType'
  <2> DEFINE piece == written[t] + 1
             r == [run[t] EXCEPT !.said = Append(@, piece), !.buf = Append(@, piece)]
  <2>1. piece \in 0..MaxText
    BY <1>2, Bounds DEF Task!Write
  <2>2. r \in RunRecord
    <3>1. run[t] \in RunRecord
      BY DEF TaskType
    <3>2. Append(run[t].said, piece) \in Texts /\ Append(run[t].buf, piece) \in Texts
      BY <2>1, <3>1, LongerText DEF RunRecord
    <3> HIDE DEF piece
    <3> QED
      BY <3>1, <3>2, LongerRun
  <2>3. Task!AfterFlush(r) \in RunRecord /\ Task!Flushed(r) \in Seq(Event)
    BY <2>2, FlushType
  <2>4. \/ run' = [run EXCEPT ![t] = r] /\ UNCHANGED queue
        \/ run' = [run EXCEPT ![t] = Task!AfterFlush(r)] /\ Task!Enqueue(t, Task!Flushed(r))
    BY <1>2 DEF Task!Write
  <2>5. run' \in [Tasks -> RunRecord] /\ queue' \in [Tasks -> Seq(Event)]
    <3> HIDE DEF r
    <3>1. queue[t] \o Task!Flushed(r) \in Seq(Event)
      BY <2>3
    <3> QED
      BY <2>2, <2>3, <2>4, <3>1
  <2> QED
    BY <1>2, <2>1, <2>5, Bounds DEF Task!Write
<1>3. ASSUME NEW t \in Tasks, Task!Pause(t) PROVE TaskType'
  BY <1>3, NoRunType, StatusType, FlushType DEF Task!Pause, State, RunRecord
<1>4. ASSUME NEW t \in Tasks, Task!Done(t) PROVE TaskType'
  <2>1. PICK f \in {run[t].said, Append(run[t].said, Task!Note)} :
          run' = [run EXCEPT ![t] = [Task!AfterFlush(run[t]) EXCEPT !.pc = "finalize", !.final = f]]
    BY <1>4 DEF Task!Done
  <2>2. f \in Texts
    <3>1. run[t].said \in Texts
      BY DEF RunRecord
    <3>2. Append(run[t].said, 0) \in Texts
      BY <3>1, LongerText, Bounds
    <3>3. f = run[t].said \/ f = Append(run[t].said, 0)
      BY DEF Task!Note
    <3> QED
      BY <3>1, <3>2, <3>3
  <2>3. [Task!AfterFlush(run[t]) EXCEPT !.pc = "finalize", !.final = f] \in RunRecord
    <3>1. Task!AfterFlush(run[t]) \in RunRecord
      BY FlushType
    <3> QED
      BY <2>2, <3>1 DEF RunRecord
  <2> QED
    BY <1>4, <2>1, <2>3, FlushType DEF Task!Done
<1>5. ASSUME NEW t \in Tasks, Task!Complete(t) PROVE TaskType'
  <2>1. ASSUME NEW extra \in BOOLEAN PROVE Task!FinalArtifact(run[t], extra) \in Seq(Event)
    <3>1. run[t].final \in Texts /\ run[t].started \in BOOLEAN
      BY DEF RunRecord
    <3>2. \A x \in Texts : Task!Artifact(x, run[t].started) \in Event
      BY <3>1 DEF Task!Artifact, Event
    <3> QED
      BY <3>1, <3>2, NoText DEF Task!FinalArtifact
  <2> QED
    <3>1. Task!Status("completed") \in Event
      BY StatusType DEF State
    <3>2. queue' \in [Tasks -> Seq(Event)]
      BY <1>5, <2>1, <3>1 DEF Task!Complete
    <3>3. run[t].said \in Texts /\ run[t].final \in Texts
      BY DEF RunRecord
    <3> QED
      BY <1>5, <3>2, <3>3, NoRunType DEF Task!Complete, Task!Tell
<1>6. ASSUME NEW t \in Tasks, Task!Fail(t) PROVE TaskType'
  BY <1>6, NoRunType, StatusType DEF Task!Fail, Task!Tell, State
<1>7. ASSUME NEW t \in Tasks, Task!Cancel(t) PROVE TaskType'
  BY <1>7, NoRunType, StatusType DEF Task!Cancel, State
<1>8. ASSUME NEW t \in Tasks, Task!StoreEvent(t) PROVE TaskType'
  <2>1. Head(queue[t]) \in Event /\ Tail(queue[t]) \in Seq(Event)
    BY <1>8 DEF Task!StoreEvent
  <2> QED
    <3>1. ASSUME Head(queue[t]).kind = "status" PROVE Head(queue[t]).state \in State
      BY <2>1, <3>1 DEF Event
    <3>2. ASSUME Head(queue[t]).kind # "status" PROVE Head(queue[t]).pieces \in Texts
      BY <2>1, <3>2 DEF Event
    <3>3. store' \in [Tasks -> State] /\ text' \in [Tasks -> Texts] /\ old' \subseteq Tasks
      <4>1. ASSUME Head(queue[t]).kind # "status"
            PROVE  text[t] \o Head(queue[t]).pieces \in Texts
        BY <3>2, <4>1, JoinedText
      <4> QED
        BY <1>8, <3>1, <3>2, <4>1 DEF Task!StoreEvent, Task!Stored
    <3> QED
      BY <1>8, <2>1, <3>3 DEF Task!StoreEvent
<1>9. ASSUME NEW t \in Tasks, Task!Age(t) PROVE TaskType'
  BY <1>9 DEF Task!Age
<1>10. CASE Task!Crash
  BY <1>10, NoRunType, NothingYet DEF Task!Crash
<1>11. CASE Task!Boot
  BY <1>11, NoText DEF Task!Boot, Task!Interrupted, State
<1>12. CASE UNCHANGED taskVars
  BY <1>12 DEF taskVars
<1> QED
  BY <1>1, <1>2, <1>3, <1>4, <1>5, <1>6, <1>7, <1>8, <1>9, <1>10, <1>11, <1>12 DEF Task!Next

-----------------------------------------------------------------------------
(* What a queue of events can look like, given what the store says of its  *)
(* task and where the coroutine is.                                        *)

Announced(q, s) == s = "working" \/ \E i \in 1..Len(q) : q[i] = Shown("working")
Holds(q, s) == \E i \in 1..Len(q) : q[i] = Shown(s)

\* The announcement comes first, and once; after an end only a cancel may follow,
\* and after a cancel nothing.
InPlace(q, s, pc, i) ==
  /\ q[i] # Shown("absent")
  /\ q[i] = Shown("submitted") => i = 1 /\ s = "absent"
  /\ q[i] = Shown("working") => \/ i = 1 /\ s \in {"input_required", "submitted"}
                                \/ i = 2 /\ q[1] = Shown("submitted")
  /\ q[i] = Shown("canceled") => i = Len(q) /\ s # "absent" /\ pc = "none"
  /\ (\E x \in {"input_required", "completed", "failed"} : q[i] = Shown(x)) =>
       /\ pc = "none"
       /\ s \notin Ended => Announced(q, s)
       /\ \A j \in (i + 1)..Len(q) : q[j] = Shown("canceled")

Shape(q, s, pc) ==
  /\ \A i \in 1..Len(q) : InPlace(q, s, pc, i)
  /\ pc # "none" => Announced(q, s) /\ s \notin Ended
  /\ s \in Ended => \A i \in 1..Len(q) : q[i] = Shown("canceled")
  /\ pc = "none" /\ q # <<>> /\ s \notin Ended =>
       q[Len(q)] \in {Shown(x) : x \in {"input_required", "completed", "failed", "canceled"}}

Next1(s, e) == IF s \in Ended \/ e.kind # "status" THEN s ELSE e.state

LEMMA PopShape ==
  ASSUME NEW q \in Seq(Event), q # <<>>, NEW s \in State, NEW pc, Shape(q, s, pc)
  PROVE  /\ Shape(Tail(q), Next1(s, Head(q)), pc)
         /\ Next1(s, Head(q)) # s => <<s, Next1(s, Head(q))>> \in Task!Protocol!Edges
<1> DEFINE e == Head(q)
           p == Tail(q)
           n == Next1(s, e)
<1>1. /\ e = q[1] /\ e \in Event /\ p \in Seq(Event)
      /\ Len(p) = Len(q) - 1 /\ \A i \in 1..Len(p) : p[i] = q[i + 1]
      /\ Len(q) \in Nat /\ Len(q) > 0
  OBVIOUS
<1>2. e.kind = "status" => e = Shown(e.state) /\ e.state \in State
  BY <1>1 DEF Event, Shown
<1>3. \A x \in State : Shown(x).kind = "status" /\ Shown(x).state = x
  BY DEF Shown
<1>4. InPlace(q, s, pc, 1)
  BY <1>1 DEF Shape
<1> HIDE DEF e, p
<1>5. n # s => <<s, n>> \in Task!Protocol!Edges
  BY <1>1, <1>2, <1>3, <1>4 DEF InPlace, Next1, Announced, Task!Protocol!Edges, State, Ended, Shape
<1>6. ASSUME NEW i \in 1..Len(p) PROVE InPlace(p, n, pc, i)
  BY <1>1, <1>2, <1>3, <1>4 DEF InPlace, Next1, Announced, State, Ended, Shape
<1>7. pc # "none" => Announced(p, n) /\ n \notin Ended
  BY <1>1, <1>2, <1>3, <1>4 DEF InPlace, Next1, Announced, State, Ended, Shape
<1>8. n \in Ended => \A i \in 1..Len(p) : p[i] = Shown("canceled")
  BY <1>1, <1>2, <1>3, <1>4 DEF InPlace, Next1, State, Ended, Shape
<1>9. pc = "none" /\ p # <<>> /\ n \notin Ended =>
        p[Len(p)] \in {Shown(x) : x \in {"input_required", "completed", "failed", "canceled"}}
  BY <1>1, <1>2, <1>3, <1>4 DEF Next1, Ended, Shape
<1> QED
  BY <1>5, <1>6, <1>7, <1>8, <1>9 DEF Shape, e, p

\* What a run adds on its way, artifacts.
LEMMA PushArtifacts ==
  ASSUME NEW q \in Seq(Event), NEW s \in State, NEW pc, NEW pc2, Shape(q, s, pc), pc # "none",
         NEW ev \in Seq(Event), \A i \in 1..Len(ev) : ev[i].kind = "artifact", pc2 # "none"
  PROVE  Shape(q \o ev, s, pc2)
<1> DEFINE p == q \o ev
<1>1. /\ Len(p) = Len(q) + Len(ev) /\ Len(q) \in Nat /\ Len(ev) \in Nat
      /\ \A i \in 1..Len(q) : p[i] = q[i]
      /\ \A i \in (Len(q) + 1)..Len(p) : p[i] = ev[i - Len(q)]
  OBVIOUS
<1>2. \A i \in (Len(q) + 1)..Len(p) : p[i].kind = "artifact"
  BY <1>1
<1>3. \A x : Shown(x).kind = "status"
  BY DEF Shown
<1> HIDE DEF p
<1>4. Announced(p, s) /\ s \notin Ended
  BY <1>1 DEF Shape, Announced
<1>5. ASSUME NEW i \in 1..Len(p) PROVE InPlace(p, s, pc2, i)
  BY <1>1, <1>2, <1>3 DEF InPlace, Shape
<1> QED
  BY <1>4, <1>5 DEF Shape, p

\* What a run ends with: artifacts and its last status.
LEMMA PushEnd ==
  ASSUME NEW q \in Seq(Event), NEW s \in State, NEW pc, Shape(q, s, pc), pc # "none",
         NEW ev \in Seq(Event), \A i \in 1..Len(ev) : ev[i].kind = "artifact",
         NEW x \in {"input_required", "completed", "failed"}
  PROVE  Shape(q \o Append(ev, Shown(x)), s, "none")
<1> DEFINE p == q \o Append(ev, Shown(x))
<1>0. Shown(x) \in Event
  BY DEF Shown, Event, State
<1>1. /\ Len(p) = Len(q) + Len(ev) + 1 /\ Len(q) \in Nat /\ Len(ev) \in Nat
      /\ \A i \in 1..Len(q) : p[i] = q[i]
      /\ \A i \in (Len(q) + 1)..(Len(p) - 1) : p[i] = ev[i - Len(q)]
      /\ p[Len(p)] = Shown(x)
  BY <1>0
<1>2. \A i \in (Len(q) + 1)..(Len(p) - 1) : p[i].kind = "artifact"
  BY <1>1
<1>3. \A y : Shown(y).kind = "status" /\ Shown(y).state = y
  BY DEF Shown
<1> HIDE DEF p
<1>4. Announced(p, s) /\ s \notin Ended
  BY <1>1 DEF Shape, Announced
<1>5. ASSUME NEW i \in 1..Len(p) PROVE InPlace(p, s, "none", i)
  <2>1. CASE i \in 1..Len(q)
    BY <1>1, <1>2, <1>3, <2>1 DEF InPlace, Shape
  <2>2. CASE i \in (Len(q) + 1)..(Len(p) - 1)
    BY <1>2, <1>3, <2>2 DEF InPlace
  <2>3. CASE i = Len(p)
    BY <1>1, <1>3, <1>4, <2>3 DEF InPlace
  <2> QED
    BY <1>1, <2>1, <2>2, <2>3, SMTT(30)
<1> QED
  BY <1>1, <1>4, <1>5 DEF Shape, p

LEMMA PushCancel ==
  ASSUME NEW q \in Seq(Event), NEW s \in State, NEW pc, Shape(q, s, pc),
         s \in {"submitted", "working", "input_required"}, ~Holds(q, "canceled")
  PROVE  Shape(Append(q, Shown("canceled")), s, "none")
<1> DEFINE p == Append(q, Shown("canceled"))
<1>1. /\ Len(p) = Len(q) + 1 /\ Len(q) \in Nat
      /\ \A i \in 1..Len(q) : p[i] = q[i]
      /\ p[Len(p)] = Shown("canceled")
  OBVIOUS
<1>2. \A x, y : Shown(x) = Shown(y) => x = y
  BY DEF Shown
<1> HIDE DEF p
<1>3. ASSUME NEW i \in 1..Len(p) PROVE InPlace(p, s, "none", i)
  <2>1. CASE i = Len(p)
    BY <1>1, <1>2, <2>1 DEF InPlace
  <2>2. CASE i \in 1..Len(q)
    BY <1>1, <1>2, <2>2 DEF InPlace, Shape, Announced, Holds
  <2> QED
    BY <1>1, <2>1, <2>2
<1> QED
  BY <1>1, <1>3 DEF Shape, Ended, p

-----------------------------------------------------------------------------
(* What the terminal hook was told, of a task no crash has touched. *)

Hooked(q, s, pc, tl, n) ==
  /\ n = 0 => pc = "none" /\ tl = <<>>
  /\ pc # "none" => tl = <<>>
  /\ tl \in {<<>>, <<"completed">>, <<"failed">>}
  /\ \A x \in {"completed", "failed"} : s = x \/ Holds(q, x) => tl = <<x>>
  /\ s = "canceled" => tl = <<>>
  /\ \A x \in {"completed", "failed"} :
       tl = <<x>> => s = x \/ Holds(q, x) \/ (s = "absent" /\ q = <<>>)

\* A task shown as active has somebody who works on it.
Cared(q, s, pc) == s \in {"submitted", "working"} => pc # "none" \/ q # <<>>

LEMMA PushHolds ==
  ASSUME NEW q \in Seq(Event), NEW ev \in Seq(Event), NEW x, NEW y \in State,
         \A i \in 1..Len(ev) : ev[i].kind = "artifact"
  PROVE  /\ Holds(q \o ev, x) <=> Holds(q, x)
         /\ Holds(q \o Append(ev, Shown(y)), x) <=> Holds(q, x) \/ x = y
<1>0. Shown(y) \in Event
  BY DEF Shown, Event, State
<1>1. Shown(x).kind = "status" /\ (Shown(x) = Shown(y) <=> x = y)
  BY DEF Shown
<1>2. Holds(q \o ev, x) <=> Holds(q, x)
  <2> DEFINE p == q \o ev
  <2>1. /\ Len(p) = Len(q) + Len(ev) /\ Len(q) \in Nat /\ Len(ev) \in Nat
        /\ \A i \in 1..Len(q) : p[i] = q[i]
        /\ \A i \in (Len(q) + 1)..Len(p) : p[i] = ev[i - Len(q)]
    OBVIOUS
  <2> HIDE DEF p
  <2>3. \A i \in (Len(q) + 1)..Len(p) : p[i] # Shown(x)
    BY <1>1, <2>1
  <2>2. Holds(p, x) <=> Holds(q, x)
    <3>1. ASSUME NEW i \in 1..Len(p), p[i] = Shown(x) PROVE i \in 1..Len(q) /\ q[i] = Shown(x)
      BY <2>1, <2>3, <3>1
    <3>2. ASSUME NEW i \in 1..Len(q), q[i] = Shown(x) PROVE i \in 1..Len(p) /\ p[i] = Shown(x)
      BY <2>1, <3>2
    <3> QED
      BY <3>1, <3>2 DEF Holds
  <2> QED
    BY <2>2 DEF p
<1>3. Holds(q \o Append(ev, Shown(y)), x) <=> Holds(q, x) \/ x = y
  <2> DEFINE p == q \o Append(ev, Shown(y))
  <2>1. /\ Len(p) = Len(q) + Len(ev) + 1 /\ Len(q) \in Nat /\ Len(ev) \in Nat
        /\ \A i \in 1..Len(q) : p[i] = q[i]
        /\ \A i \in (Len(q) + 1)..(Len(p) - 1) : p[i] = ev[i - Len(q)]
        /\ p[Len(p)] = Shown(y)
    BY <1>0
  <2> HIDE DEF p
  <2>3. \A i \in (Len(q) + 1)..(Len(p) - 1) : p[i] # Shown(x)
    BY <1>1, <2>1
  <2>2. Holds(p, x) <=> Holds(q, x) \/ x = y
    <3>1. ASSUME NEW i \in 1..Len(p), p[i] = Shown(x) PROVE x = y \/ (i \in 1..Len(q) /\ q[i] = Shown(x))
      BY <1>1, <2>1, <2>3, <3>1, SMTT(30)
    <3>2. ASSUME NEW i \in 1..Len(q), q[i] = Shown(x) PROVE i \in 1..Len(p) /\ p[i] = Shown(x)
      BY <2>1, <3>2
    <3>3. Len(p) \in 1..Len(p)
      BY <2>1
    <3> QED
      BY <2>1, <3>1, <3>2, <3>3 DEF Holds
  <2> QED
    BY <2>2 DEF p
<1> QED
  BY <1>2, <1>3

LEMMA AppendHolds ==
  ASSUME NEW q \in Seq(Event), NEW x, NEW y \in State
  PROVE  Holds(Append(q, Shown(y)), x) <=> Holds(q, x) \/ x = y
<1> DEFINE p == Append(q, Shown(y))
<1>1. Shown(y) \in Event /\ (Shown(x) = Shown(y) <=> x = y)
  BY DEF Shown, Event, State
<1>2. /\ Len(p) = Len(q) + 1 /\ Len(q) \in Nat
      /\ \A i \in 1..Len(q) : p[i] = q[i]
      /\ p[Len(p)] = Shown(y)
  BY <1>1
<1> HIDE DEF p
<1>3. Holds(p, x) <=> Holds(q, x) \/ x = y
  <2>1. ASSUME NEW i \in 1..Len(p), p[i] = Shown(x) PROVE x = y \/ (i \in 1..Len(q) /\ q[i] = Shown(x))
    BY <1>1, <1>2, <2>1
  <2>2. ASSUME NEW i \in 1..Len(q), q[i] = Shown(x) PROVE i \in 1..Len(p) /\ p[i] = Shown(x)
    BY <1>2, <2>2
  <2>3. Len(p) \in 1..Len(p)
    BY <1>2
  <2> QED
    BY <1>2, <2>1, <2>2, <2>3 DEF Holds
<1> QED
  BY <1>3 DEF p

LEMMA PopHolds ==
  ASSUME NEW q \in Seq(Event), q # <<>>, NEW x
  PROVE  /\ Holds(Tail(q), x) => Holds(q, x)
         /\ Holds(q, x) => Holds(Tail(q), x) \/ Head(q) = Shown(x)
         /\ Head(q) = Shown(x) => Holds(q, x)
<1> DEFINE p == Tail(q)
<1>1. /\ Len(p) = Len(q) - 1 /\ Len(q) \in Nat /\ Len(q) > 0
      /\ \A i \in 1..Len(p) : p[i] = q[i + 1]
      /\ Head(q) = q[1]
  OBVIOUS
<1> HIDE DEF p
<1>2. Holds(p, x) => Holds(q, x)
  BY <1>1 DEF Holds
<1>3. Holds(q, x) => Holds(p, x) \/ Head(q) = Shown(x)
  <2> SUFFICES ASSUME NEW i \in 1..Len(q), q[i] = Shown(x), Head(q) # Shown(x) PROVE Holds(p, x)
    BY DEF Holds
  <2>1. i - 1 \in 1..Len(p) /\ p[i - 1] = q[i]
    BY <1>1
  <2> QED
    BY <2>1 DEF Holds
<1> QED
  BY <1>1, <1>2, <1>3 DEF Holds, p

\* While a run goes on nothing that ends it is in its queue.
LEMMA RunHolds ==
  ASSUME NEW q, NEW s, NEW pc, Shape(q, s, pc), pc # "none"
  PROVE  \A x \in {"input_required", "completed", "failed", "canceled"} : ~Holds(q, x)
  BY DEF Shape, InPlace, Holds

LEMMA PopHooked ==
  ASSUME NEW q \in Seq(Event), q # <<>>, NEW s \in State, NEW pc, Shape(q, s, pc),
         NEW tl, NEW n \in Nat, Hooked(q, s, pc, tl, n)
  PROVE  Hooked(Tail(q), Next1(s, Head(q)), pc, tl, n) /\ Cared(Tail(q), Next1(s, Head(q)), pc)
<1> DEFINE e == Head(q)
           p == Tail(q)
           z == Next1(s, e)
<1>0. /\ e = q[1] /\ e \in Event /\ p \in Seq(Event)
      /\ Len(p) = Len(q) - 1 /\ Len(q) \in Nat /\ Len(q) > 0
      /\ \A i \in 1..Len(p) : p[i] = q[i + 1]
  OBVIOUS
<1>1. /\ e = q[1] /\ e \in Event /\ p \in Seq(Event)
      /\ Len(p) = Len(q) - 1 /\ Len(q) \in Nat /\ Len(q) > 0
      /\ p # <<>> => Len(p) > 0
      /\ p = <<>> => Len(q) = 1
      /\ \A i \in 1..Len(p) : p[i] = q[i + 1]
  <2> HIDE DEF p
  <2> QED
    BY <1>0, EmptySeq, LenProperties
<1>2. e.kind = "status" => e = Shown(e.state) /\ e.state \in State
  BY <1>1 DEF Event, Shown
<1>3. \A x, y : Shown(x).kind = "status" /\ Shown(x).state = x /\ (Shown(x) = Shown(y) => x = y)
  BY DEF Shown
<1>4. InPlace(q, s, pc, 1)
  BY <1>1 DEF Shape
<1>5. \A x : /\ Holds(p, x) => Holds(q, x)
             /\ Holds(q, x) => Holds(p, x) \/ e = Shown(x)
             /\ e = Shown(x) => Holds(q, x)
  BY PopHolds
<1>6. <<"completed">> # <<"failed">> /\ <<"completed">> # <<>> /\ <<"failed">> # <<>>
  OBVIOUS
<1> HIDE DEF e, p
<1>7. Cared(p, z, pc)
  BY <1>1, <1>2, <1>3, <1>4 DEF Cared, Shape, Next1, Ended, State
<1>8. \A x \in {"completed", "failed"} : z = x \/ Holds(p, x) => tl = <<x>>
  BY <1>2, <1>3, <1>5 DEF Hooked, Next1
<1>9. z = "canceled" => tl = <<>>
  <2>1. CASE s \in Ended \/ e.kind # "status"
    BY <2>1 DEF Next1, Hooked
  <2>2. CASE e = Shown("canceled") /\ s \notin Ended
    <3>1. Len(q) = 1 /\ s # "absent"
      BY <1>1, <1>4, <2>2 DEF InPlace
    <3>2. ASSUME NEW x, Holds(q, x) PROVE x = "canceled"
      <4>1. PICK i \in 1..Len(q) : q[i] = Shown(x)
        BY <3>2 DEF Holds
      <4>2. i = 1
        BY <3>1, <4>1
      <4> QED
        BY <1>1, <1>3, <2>2, <4>1, <4>2
    <3> QED
      BY <2>2, <3>1, <3>2 DEF Hooked, Ended
  <2>3. CASE e # Shown("canceled") /\ ~(s \in Ended \/ e.kind # "status")
    BY <1>2, <2>3 DEF Next1
  <2> QED
    BY <2>1, <2>2, <2>3
<1>10. ASSUME NEW x \in {"completed", "failed"}, tl = <<x>>
       PROVE  z = x \/ Holds(p, x) \/ (z = "absent" /\ p = <<>>)
  <2>1. s = x \/ Holds(q, x)
    BY <1>10 DEF Hooked
  <2>2. CASE s = x
    BY <2>2 DEF Next1, Ended
  <2>3. CASE s # x /\ e = Shown(x)
    <3>1. s \in Ended => e = Shown("canceled")
      BY <1>1 DEF Shape
    <3> QED
      BY <1>3, <2>3, <3>1 DEF Next1
  <2> QED
    BY <1>5, <2>1, <2>2, <2>3
<1>11. Hooked(p, z, pc, tl, n)
  BY <1>8, <1>9, <1>10 DEF Hooked
<1> QED
  BY <1>7, <1>11 DEF e, p

-----------------------------------------------------------------------------
(* The text of a task once everything in its queue is stored: w, reached   *)
(* from x through the texts f[i] after each event.                         *)

Applied(x, e) ==
  IF e.kind = "status" THEN x ELSE IF e.append THEN x \o e.pieces ELSE e.pieces

Leads(q, x, w) ==
  \E f \in [0..Len(q) -> Texts] :
    /\ f[0] = x /\ f[Len(q)] = w
    /\ \A i \in 1..Len(q) : f[i] = Applied(f[i - 1], q[i])

LEMMA AppliedType == \A x \in Texts, e \in Event : Applied(x, e) \in Texts
<1> SUFFICES ASSUME NEW x \in Texts, NEW e \in Event PROVE Applied(x, e) \in Texts
  OBVIOUS
<1>1. CASE e.kind = "status"
  BY <1>1 DEF Applied
<1>2. CASE e.kind # "status"
  <2>1. e.pieces \in Texts
    BY <1>2 DEF Event
  <2>2. x \o e.pieces \in Texts
    BY <2>1, JoinedText
  <2> QED
    BY <1>2, <2>1, <2>2 DEF Applied
<1> QED
  BY <1>1, <1>2

LEMMA LeadsNowhere == \A x \in Texts : Leads(<<>>, x, x)
<1> SUFFICES ASSUME NEW x \in Texts PROVE Leads(<<>>, x, x)
  OBVIOUS
<1> DEFINE f == [i \in 0..0 |-> x]
<1>1. f \in [0..Len(<<>>) -> Texts] /\ f[0] = x /\ f[Len(<<>>)] = x
  OBVIOUS
<1>2. \A i \in 1..Len(<<>>) : f[i] = Applied(f[i - 1], <<>>[i])
  OBVIOUS
<1> QED
  BY <1>1, <1>2 DEF Leads

LEMMA LeadsFromNowhere == \A x, w : Leads(<<>>, x, w) => w = x
  BY DEF Leads

\* Of a queue that holds at most one event, and no artifact.
LEMMA LeadsSame ==
  ASSUME NEW q \in Seq(Event), NEW x, NEW w, Leads(q, x, w),
         \A i \in 1..Len(q) : q[i] = Shown("canceled") /\ i = Len(q)
  PROVE  w = x
<1>1. PICK f \in [0..Len(q) -> Texts] :
        /\ f[0] = x /\ f[Len(q)] = w
        /\ \A i \in 1..Len(q) : f[i] = Applied(f[i - 1], q[i])
  BY DEF Leads
<1>2. Len(q) \in Nat
  OBVIOUS
<1>3. CASE Len(q) = 0
  BY <1>1, <1>3
<1>4. CASE Len(q) # 0
  <2>1. 1 \in 1..Len(q) /\ Len(q) = 1
    BY <1>2, <1>4
  <2>2. f[1] = Applied(f[1 - 1], q[1])
    BY <1>1, <2>1
  <2>3. Applied(f[0], q[1]) = f[0]
    BY <2>1 DEF Applied, Shown
  <2> QED
    BY <1>1, <2>1, <2>2, <2>3
<1> QED
  BY <1>3, <1>4

LEMMA LeadsPush ==
  ASSUME NEW q \in Seq(Event), NEW e \in Event, NEW x, NEW w \in Texts, Leads(q, x, w)
  PROVE  Leads(Append(q, e), x, Applied(w, e))
<1> DEFINE p == Append(q, e)
<1>1. /\ Len(p) = Len(q) + 1 /\ Len(q) \in Nat /\ p[Len(p)] = e
      /\ \A i \in 1..Len(q) : p[i] = q[i]
  OBVIOUS
<1>2. PICK f \in [0..Len(q) -> Texts] :
        /\ f[0] = x /\ f[Len(q)] = w
        /\ \A i \in 1..Len(q) : f[i] = Applied(f[i - 1], q[i])
  BY DEF Leads
<1> HIDE DEF p
<1> DEFINE g == [i \in 0..Len(p) |-> IF i = Len(p) THEN Applied(w, e) ELSE f[i]]
<1>3. g \in [0..Len(p) -> Texts]
  BY <1>1, AppliedType
<1>4. g[0] = x /\ g[Len(p)] = Applied(w, e)
  BY <1>1, <1>2
<1>5. ASSUME NEW i \in 1..Len(p) PROVE g[i] = Applied(g[i - 1], p[i])
  <2>1. CASE i = Len(p)
    <3>1. g[i] = Applied(w, e) /\ p[i] = e /\ i - 1 = Len(q)
      BY <1>1, <2>1
    <3>2. g[i - 1] = w
      BY <1>1, <1>2, <3>1
    <3> QED
      BY <3>1, <3>2
  <2>2. CASE i # Len(p)
    <3>1. i \in 1..Len(q)
      BY <1>1, <2>2
    <3>2. g[i] = f[i] /\ g[i - 1] = f[i - 1] /\ p[i] = q[i]
      BY <1>1, <3>1
    <3> QED
      BY <1>2, <3>1, <3>2
  <2> QED
    BY <2>1, <2>2
<1>6. Leads(p, x, Applied(w, e))
  <2> HIDE DEF g
  <2> QED
    BY <1>3, <1>4, <1>5 DEF Leads
<1> QED
  BY <1>6 DEF p

LEMMA LeadsPop ==
  ASSUME NEW q \in Seq(Event), q # <<>>, NEW x, NEW w, Leads(q, x, w)
  PROVE  Leads(Tail(q), Applied(x, Head(q)), w)
<1> DEFINE p == Tail(q)
<1>1. /\ Len(p) = Len(q) - 1 /\ Len(q) \in Nat /\ Len(q) > 0 /\ Head(q) = q[1]
      /\ \A i \in 1..Len(p) : p[i] = q[i + 1]
  OBVIOUS
<1>2. PICK f \in [0..Len(q) -> Texts] :
        /\ f[0] = x /\ f[Len(q)] = w
        /\ \A i \in 1..Len(q) : f[i] = Applied(f[i - 1], q[i])
  BY DEF Leads
<1> HIDE DEF p
<1> DEFINE g == [i \in 0..Len(p) |-> f[i + 1]]
<1>3. g \in [0..Len(p) -> Texts]
  BY <1>1
<1>4. g[Len(p)] = w
  BY <1>1, <1>2
<1>5. g[0] = Applied(x, Head(q))
  <2>1. g[0] = f[1] /\ 1 \in 1..Len(q)
    BY <1>1
  <2>2. f[1] = Applied(f[1 - 1], q[1])
    BY <1>2, <2>1
  <2> QED
    BY <1>1, <1>2, <2>1, <2>2
<1>6. ASSUME NEW i \in 1..Len(p) PROVE g[i] = Applied(g[i - 1], p[i])
  <2>1. i + 1 \in 1..Len(q)
    BY <1>1
  <2>2. f[i + 1] = Applied(f[(i + 1) - 1], q[i + 1])
    BY <1>2, <2>1
  <2>3. g[i] = f[i + 1] /\ g[i - 1] = f[i] /\ p[i] = q[i + 1]
    BY <1>1
  <2> QED
    BY <2>2, <2>3
<1>7. Leads(p, Applied(x, Head(q)), w)
  <2> HIDE DEF g
  <2> QED
    BY <1>3, <1>4, <1>5, <1>6 DEF Leads
<1> QED
  BY <1>7 DEF p

\* The text a flush makes of w.
Flush(w, r) == IF r.buf = <<>> THEN w ELSE IF r.started THEN w \o r.buf ELSE r.buf

LEMMA LeadsFlush ==
  ASSUME NEW q \in Seq(Event), NEW x, NEW w \in Texts, NEW r \in RunRecord, Leads(q, x, w)
  PROVE  /\ Leads(q \o Task!Flushed(r), x, Flush(w, r))
         /\ Flush(w, r) \in Texts
<1>1. CASE r.buf = <<>>
  <2>1. q \o Task!Flushed(r) = q
    BY <1>1, ConcatEmptySeq DEF Task!Flushed
  <2> QED
    BY <1>1, <2>1 DEF Flush
<1>2. CASE r.buf # <<>>
  <2> DEFINE e == Task!Artifact(r.buf, r.started)
  <2>1. r.buf \in Texts /\ r.started \in BOOLEAN
    BY DEF RunRecord
  <2>2. e \in Event /\ Applied(w, e) = Flush(w, r)
    BY <1>2, <2>1 DEF Task!Artifact, Event, Applied, Flush
  <2>3. q \o Task!Flushed(r) = Append(q, e)
    <3>1. Task!Flushed(r) = <<e>>
      BY <1>2 DEF Task!Flushed
    <3> HIDE DEF e
    <3> QED
      BY <2>2, <3>1, AppendIsConcat
  <2>4. Flush(w, r) \in Texts
    BY <2>1, JoinedText DEF Flush
  <2> HIDE DEF e
  <2> QED
    BY <2>2, <2>3, <2>4, LeadsPush
<1> QED
  BY <1>1, <1>2

LEMMA LeadsStatus ==
  ASSUME NEW q \in Seq(Event), NEW x, NEW w \in Texts, NEW s \in State, Leads(q, x, w)
  PROVE  Leads(Append(q, Shown(s)), x, w)
<1>1. Shown(s) \in Event /\ Applied(w, Shown(s)) = w
  BY DEF Shown, Event, Applied
<1> QED
  BY <1>1, LeadsPush

LEMMA JoinEnd ==
  ASSUME NEW q \in Seq(Event), NEW ev \in Seq(Event), NEW e \in Event
  PROVE  q \o Append(ev, e) = Append(q \o ev, e)
  OBVIOUS

LEMMA EndThere ==
  ASSUME NEW q \in Seq(Event), NEW ev \in Seq(Event), NEW e \in Event
  PROVE  q \o Append(ev, e) # <<>> /\ Append(q, e) # <<>>
<1>1. Len(q \o Append(ev, e)) = Len(q) + Len(ev) + 1 /\ Len(q) \in Nat /\ Len(ev) \in Nat
      /\ Len(Append(q, e)) = Len(q) + 1
  OBVIOUS
<1>2. Len(<<>>) = 0
  OBVIOUS
<1> QED
  BY <1>1, <1>2

-----------------------------------------------------------------------------
(* The inductive invariant of the task. *)

Parked(q, s, pc) ==
  Holds(q, "input_required") \/ (s = "input_required" /\ pc = "none" /\ ~Holds(q, "working"))

\* What was flushed and what is buffered make up what was said.
InStep(w, r) == IF r.started THEN w \o r.buf = r.said ELSE r.buf = r.said

\* Of what a task has said: the queue holds what the run flushed, and nothing else.
Written(q, s, r, ans, bef, w) ==
  /\ r.pc # "none" => InStep(w, r)
  /\ r.pc = "finalize" => r.buf = <<>>
  /\ (s = "completed" \/ Holds(q, "completed")) /\ ans # <<>> => w = ans
  /\ Parked(q, s, r.pc) /\ bef # <<>> => w = bef

Carried(t) ==
  \E w \in Texts : /\ Leads(queue[t], text[t], w)
                   /\ Written(queue[t], store[t], run[t], answer[t], before[t], w)

Untouched(t) ==
  /\ Hooked(queue[t], store[t], run[t].pc, told[t], turns[t])
  /\ Cared(queue[t], store[t], run[t].pc)
  /\ Carried(t)

Fine(t) ==
  /\ Shape(queue[t], store[t], run[t].pc)
  /\ run[t].pc # "none" \/ queue[t] # <<>> => up
  /\ up /\ reconciled => Cared(queue[t], store[t], run[t].pc)
  /\ t \notin lost => Untouched(t)

TaskInv == TaskType /\ \A t \in Tasks : Fine(t)

LEMMA FineFrame ==
  ASSUME TaskType, NEW t \in Tasks, NEW u \in Tasks, u # t, Fine(u),
         UNCHANGED <<up, lost, reconciled, store[u], text[u], queue[u], run[u], turns[u], told[u],
                     answer[u], before[u]>>
  PROVE  Fine(u)'
  BY DEF Fine, Untouched, Carried

LEMMA FineMessage ==
  ASSUME TaskType, NEW t \in Tasks, Fine(t), Task!Message(t)
  PROVE  Fine(t)'
<1> USE DEF TaskType
<1>1. /\ up /\ up' = up /\ lost' = lost /\ reconciled' = reconciled /\ store' = store /\ text' = text
      /\ told' = told /\ answer' = answer /\ before' = before
      /\ run[t].pc = "none" /\ queue[t] = <<>>
      /\ store[t] = "input_required" \/ (store[t] = "absent" /\ turns[t] = 0)
      /\ turns'[t] = turns[t] + 1 /\ run'[t] = Task!NewRun
      /\ queue'[t] = IF store[t] = "input_required" THEN <<Shown("working")>>
                     ELSE <<Shown("submitted"), Shown("working")>>
  <2>1. \A S : \A q \in Seq(S) : <<>> \o q = q
    BY ConcatEmptySeq
  <2>2. Shown("working") \in Event /\ Shown("submitted") \in Event
    BY DEF Shown, Event, State
  <2>3. <<>> \o <<Shown("working")>> = <<Shown("working")>>
        /\ <<>> \o <<Shown("submitted"), Shown("working")>> = <<Shown("submitted"), Shown("working")>>
    BY <2>2
  <2> QED
    BY <2>3 DEF Task!Message, Task!Enqueue, Task!durable, Task!history, Task!Status, Shown
<1>2. \A x, y : Shown(x).kind = "status" /\ (Shown(x) = Shown(y) => x = y)
  BY DEF Shown
<1>3. run'[t].pc = "stream" /\ ~run'[t].started /\ run'[t].buf = <<>> /\ run'[t].said = <<>>
  BY <1>1 DEF Task!NewRun, Task!NoRun
<1>4. \/ queue'[t] = <<Shown("working")>> /\ Len(queue'[t]) = 1 /\ store[t] = "input_required"
      \/ /\ queue'[t] = <<Shown("submitted"), Shown("working")>> /\ Len(queue'[t]) = 2
         /\ store[t] = "absent" /\ turns[t] = 0
  BY <1>1
<1>5. \A i \in 1..Len(queue'[t]) :
        \/ queue'[t][i] = Shown("working")
           /\ \/ i = 1 /\ store[t] = "input_required"
              \/ i = 2 /\ queue'[t][1] = Shown("submitted")
        \/ queue'[t][i] = Shown("submitted") /\ i = 1 /\ store[t] = "absent"
  <2> DEFINE v == Shown("working")
             u == Shown("submitted")
  <2> HIDE DEF v, u
  <2>1. /\ Len(<<v>>) = 1 /\ <<v>>[1] = v
        /\ Len(<<u, v>>) = 2 /\ <<u, v>>[1] = u /\ <<u, v>>[2] = v
    OBVIOUS
  <2>2. CASE queue'[t] = <<v>> /\ store[t] = "input_required"
    <3>1. Len(queue'[t]) = 1 /\ queue'[t][1] = Shown("working")
      BY <2>1, <2>2 DEF v
    <3>2. \A i \in 1..Len(queue'[t]) : i = 1
      BY <3>1
    <3>3. store[t] = "input_required"
      BY <2>2
    <3>4. ASSUME NEW i \in 1..Len(queue'[t]) PROVE i = 1 /\ queue'[t][i] = Shown("working")
      <4>1. i = 1
        BY <3>2
      <4> QED
        BY <3>1, <4>1
    <3> QED
      BY <3>3, <3>4
  <2>3. CASE queue'[t] = <<u, v>> /\ store[t] = "absent"
    <3> SUFFICES ASSUME NEW i \in 1..2
                 PROVE  \/ i = 2 /\ <<u, v>>[i] = v
                        \/ i = 1 /\ <<u, v>>[i] = u
      BY <2>1, <2>3 DEF v, u
    <3>1. i = 1 \/ i = 2
      OBVIOUS
    <3> QED
      BY <2>1, <3>1
  <2> QED
    BY <1>4, <2>2, <2>3 DEF v, u
<1>6. Holds(queue'[t], "working")
  <2> DEFINE v == Shown("working")
             u == Shown("submitted")
  <2> HIDE DEF v, u
  <2>1. /\ 1 \in 1..Len(<<v>>) /\ <<v>>[1] = v
        /\ 2 \in 1..Len(<<u, v>>) /\ <<u, v>>[2] = v
    OBVIOUS
  <2> QED
    BY <1>4, <2>1 DEF Holds, v, u
<1>7. Shape(queue'[t], store'[t], run'[t].pc)
  <2>1. Announced(queue'[t], store'[t])
    BY <1>6 DEF Announced, Holds
  <2>2. \A i \in 1..Len(queue'[t]) : InPlace(queue'[t], store'[t], run'[t].pc, i)
    BY <1>1, <1>2, <1>5 DEF InPlace
  <2> QED
    BY <1>1, <1>3, <2>1, <2>2 DEF Shape, Ended
<1>8. \A x \in State \ {"working", "submitted"} : ~Holds(queue'[t], x)
  BY <1>2, <1>5 DEF Holds
<1>9. ASSUME t \notin lost PROVE Untouched(t)'
  <2>1. \A x : ~Holds(queue[t], x)
    BY <1>1 DEF Holds
  <2>2. told[t] = <<>>
    BY <1>1, <1>9, <2>1 DEF Fine, Untouched, Hooked
  <2>3. Hooked(queue'[t], store'[t], run'[t].pc, told'[t], turns'[t])
    <3>1. turns'[t] # 0
      BY <1>1, Bounds
    <3>2. \A x \in {"completed", "failed"} : store'[t] # x /\ ~Holds(queue'[t], x)
      BY <1>1, <1>8 DEF State
    <3>3. told'[t] = <<>> /\ store'[t] # "canceled" /\ run'[t].pc # "none"
      BY <1>1, <1>3, <2>2
    <3>4. \A x : <<x>> # <<>>
      OBVIOUS
    <3> QED
      BY <3>1, <3>2, <3>3, <3>4 DEF Hooked
  <2>4. PICK w \in Texts : Leads(queue[t], text[t], w)
    BY <1>9 DEF Fine, Untouched, Carried
  <2>5. Leads(queue'[t], text'[t], w)
    <3>1. Shown("submitted") \in Event
      BY DEF Shown, Event, State
    <3>2. Leads(Append(<<>>, Shown("working")), text[t], w)
      BY <1>1, <2>4, LeadsStatus, NothingYet DEF State
    <3>3. Leads(Append(Append(<<>>, Shown("submitted")), Shown("working")), text[t], w)
      <4>1. Leads(Append(<<>>, Shown("submitted")), text[t], w)
        BY <1>1, <2>4, LeadsStatus, NothingYet DEF State
      <4>2. Append(<<>>, Shown("submitted")) \in Seq(Event)
        BY <3>1, NothingYet, AppendProperties
      <4> QED
        BY <4>1, <4>2, LeadsStatus DEF State
    <3>4. /\ Append(<<>>, Shown("working")) = <<Shown("working")>>
          /\ Append(Append(<<>>, Shown("submitted")), Shown("working"))
               = <<Shown("submitted"), Shown("working")>>
      <4> DEFINE v == Shown("working")
                 u == Shown("submitted")
      <4> HIDE DEF v, u
      <4>1. Append(<<>>, v) = <<v>> /\ Append(<<>>, u) = <<u>>
        OBVIOUS
      <4>2. Append(<<u>>, v) = <<u, v>>
        <5> DEFINE S == {u, v}
        <5>1. <<u>> \in Seq(S) /\ <<u, v>> \in Seq(S) /\ v \in S
          OBVIOUS
        <5> HIDE DEF S
        <5>2. /\ Append(<<u>>, v) \in Seq(S) /\ Len(Append(<<u>>, v)) = 2
              /\ Append(<<u>>, v)[1] = u /\ Append(<<u>>, v)[2] = v
          BY <5>1, AppendProperties
        <5>3. \A i \in 1..2 : i = 1 \/ i = 2
          OBVIOUS
        <5>4. Len(<<u, v>>) = 2 /\ <<u, v>>[1] = u /\ <<u, v>>[2] = v
          OBVIOUS
        <5> QED
          BY <5>1, <5>2, <5>3, <5>4, SeqEqual
      <4> QED
        BY <4>1, <4>2 DEF v, u
    <3> QED
      BY <1>1, <1>4, <3>2, <3>3, <3>4
  <2>6. Written(queue'[t], store'[t], run'[t], answer'[t], before'[t], w)
    BY <1>1, <1>3, <1>4, <1>8 DEF Written, Parked, State, InStep
  <2>7. Cared(queue'[t], store'[t], run'[t].pc)
    BY <1>3 DEF Cared
  <2> QED
    BY <2>3, <2>5, <2>6, <2>7 DEF Untouched, Carried
<1>10. Cared(queue'[t], store'[t], run'[t].pc)
  BY <1>3 DEF Cared
<1> QED
  BY <1>1, <1>7, <1>9, <1>10 DEF Fine

\* What _flush_text makes of a run, whatever else the run is.
LEMMA FlushKeeps ==
  ASSUME NEW w \in Texts, NEW r \in RunRecord,
         InStep(w, r)
  PROVE  /\ InStep(Flush(w, r), Task!AfterFlush(r))
         /\ Task!AfterFlush(r).buf = <<>> /\ Task!AfterFlush(r).pc = r.pc
         /\ Task!AfterFlush(r).said = r.said
         /\ r.said # <<>> => Flush(w, r) = r.said
         /\ Task!AfterFlush(r).started => Flush(w, r) = r.said
         /\ r.buf = <<>> => Task!AfterFlush(r).started = r.started
<1> USE DEF InStep
<1>1. r.said \in Texts /\ r.buf \in Texts /\ r.started \in BOOLEAN
  BY DEF RunRecord
<1>2. \A x \in Texts : x \o <<>> = x
  BY ConcatEmptySeq DEF Texts
<1>3. CASE r.buf = <<>>
  BY <1>1, <1>2, <1>3 DEF Task!AfterFlush, Flush
<1>4. CASE r.buf # <<>>
  <2>1. Flush(w, r) = r.said
    BY <1>4 DEF Flush
  <2>2. /\ Task!AfterFlush(r).started = TRUE /\ Task!AfterFlush(r).buf = <<>>
        /\ Task!AfterFlush(r).said = r.said /\ Task!AfterFlush(r).pc = r.pc
    BY <1>4 DEF Task!AfterFlush, RunRecord
  <2> QED
    BY <1>1, <1>2, <1>4, <2>1, <2>2
<1> QED
  BY <1>3, <1>4

LEMMA FlushedKinds ==
  ASSUME NEW r
  PROVE  \A i \in 1..Len(Task!Flushed(r)) : Task!Flushed(r)[i].kind = "artifact"
<1>1. CASE r.buf = <<>>
  BY <1>1 DEF Task!Flushed
<1>2. CASE r.buf # <<>>
  <2> DEFINE e == Task!Artifact(r.buf, r.started)
  <2>1. e.kind = "artifact"
    BY DEF Task!Artifact
  <2>2. Task!Flushed(r) = <<e>>
    BY <1>2 DEF Task!Flushed
  <2> HIDE DEF e
  <2>3. Len(<<e>>) = 1 /\ <<e>>[1] = e
    OBVIOUS
  <2>4. \A i \in 1..1 : i = 1
    OBVIOUS
  <2> QED
    BY <2>1, <2>2, <2>3, <2>4
<1> QED
  BY <1>1, <1>2

\* A step that only adds artifacts keeps what the hook and the store agree on.
LEMMA PushHooked ==
  ASSUME NEW q \in Seq(Event), NEW ev \in Seq(Event), NEW s \in State, NEW pc, NEW pc2, NEW tl, NEW n,
         \A i \in 1..Len(ev) : ev[i].kind = "artifact",
         Shape(q, s, pc), pc # "none", pc2 # "none", Hooked(q, s, pc, tl, n)
  PROVE  Hooked(q \o ev, s, pc2, tl, n)
<1>1. \A x : Holds(q \o ev, x) <=> Holds(q, x)
  BY PushHolds DEF State
<1>2. tl = <<>> /\ n # 0
  BY DEF Hooked
<1>3. \A x : <<x>> # <<>>
  OBVIOUS
<1> QED
  BY <1>1, <1>2, <1>3 DEF Hooked

\* A run that ends tells the hook what it enqueues, or nothing.
LEMMA EndHooked ==
  ASSUME NEW q \in Seq(Event), NEW ev \in Seq(Event), NEW s \in State, NEW pc, NEW tl, NEW n,
         NEW x \in {"completed", "failed"},
         \A i \in 1..Len(ev) : ev[i].kind = "artifact",
         Shape(q, s, pc), pc # "none", Hooked(q, s, pc, <<>>, n), tl = <<x>>
  PROVE  Hooked(q \o Append(ev, Shown(x)), s, "none", tl, n)
<1>1. \A y : Holds(q \o Append(ev, Shown(x)), y) <=> Holds(q, y) \/ y = x
  BY PushHolds DEF State
<1>2. \A y \in {"completed", "failed"} : ~Holds(q, y) /\ s # y
  BY RunHolds DEF Shape, Ended
<1>3. s # "canceled" /\ n # 0
  BY DEF Shape, Ended, Hooked
<1>4. tl # <<>> /\ \A y : tl = <<y>> => y = x
  OBVIOUS
<1> QED
  BY <1>1, <1>2, <1>3, <1>4 DEF Hooked

LEMMA ConcatAppend ==
  ASSUME NEW S, NEW x \in Seq(S), NEW y \in Seq(S), NEW p \in S
  PROVE  x \o Append(y, p) = Append(x \o y, p)
<1>1. <<p>> \in Seq(S) /\ x \o y \in Seq(S)
  OBVIOUS
<1>2. Append(y, p) = y \o <<p>>
  BY AppendIsConcat
<1>3. Append(x \o y, p) = (x \o y) \o <<p>>
  BY <1>1, AppendIsConcat
<1>4. (x \o y) \o <<p>> = x \o (y \o <<p>>)
  BY <1>1, ConcatAssociative
<1> QED
  BY <1>2, <1>3, <1>4

LEMMA FineWrite ==
  ASSUME TaskType, NEW t \in Tasks, Fine(t), Task!Write(t)
  PROVE  Fine(t)'
<1> USE DEF TaskType
<1> DEFINE piece == written[t] + 1
           r == [run[t] EXCEPT !.said = Append(@, piece), !.buf = Append(@, piece)]
<1>1. /\ up' = up /\ lost' = lost /\ reconciled' = reconciled /\ store' = store /\ text' = text
      /\ told' = told /\ answer' = answer /\ before' = before /\ turns' = turns
      /\ run[t].pc = "stream" /\ piece \in 0..MaxText
      /\ \/ run'[t] = r /\ queue'[t] = queue[t]
         \/ run'[t] = Task!AfterFlush(r) /\ queue'[t] = queue[t] \o Task!Flushed(r)
  BY Bounds DEF Task!Write, Task!Enqueue, Task!durable, Task!history
<1>2. run[t] \in RunRecord /\ run[t].said \in Texts /\ run[t].buf \in Texts /\ run[t].started \in BOOLEAN
  BY DEF RunRecord
<1>3. /\ r \in RunRecord /\ r.pc = "stream" /\ r.started = run[t].started
      /\ r.said = Append(run[t].said, piece) /\ r.buf = Append(run[t].buf, piece)
  BY <1>1, <1>2, LongerText DEF RunRecord
<1> HIDE DEF r, piece
<1>4. \A x, y \in Texts : x \o Append(y, piece) = Append(x \o y, piece)
  <2> SUFFICES ASSUME NEW x \in Texts, NEW y \in Texts
               PROVE  x \o Append(y, piece) = Append(x \o y, piece)
    OBVIOUS
  <2> DEFINE S == 0..MaxText
  <2>1. piece \in S /\ x \in Seq(S) /\ y \in Seq(S)
    BY <1>1 DEF Texts
  <2> HIDE DEF S
  <2> QED
    BY <2>1, ConcatAppend
<1>5. Task!Flushed(r) \in Seq(Event) /\ Task!AfterFlush(r).pc = "stream"
  BY <1>3, FlushType DEF Task!AfterFlush, RunRecord
<1>6. /\ Shape(queue'[t], store'[t], run'[t].pc) /\ run'[t].pc = "stream"
  BY <1>1, <1>3, <1>5, FlushedKinds, PushArtifacts DEF Fine
<1>7. ASSUME t \notin lost PROVE Untouched(t)'
  <2>1. PICK w \in Texts : /\ Leads(queue[t], text[t], w)
                           /\ Written(queue[t], store[t], run[t], answer[t], before[t], w)
    BY <1>7 DEF Fine, Untouched, Carried
  <2>2. InStep(w, r)
    <3>1. InStep(w, run[t])
      BY <1>1, <2>1 DEF Written
    <3>2. w \o Append(run[t].buf, piece) = Append(w \o run[t].buf, piece)
      BY <1>2, <1>4
    <3> QED
      BY <1>3, <3>1, <3>2 DEF InStep
  <2>3. Hooked(queue'[t], store'[t], run'[t].pc, told'[t], turns'[t])
    BY <1>1, <1>3, <1>5, <1>6, <1>7, FlushedKinds, PushHooked DEF Fine, Untouched
  <2>4. /\ store[t] # "completed"
        /\ \A x \in {"input_required", "completed"} : ~Holds(queue'[t], x)
    <3>1. Shape(queue'[t], store[t], run'[t].pc) /\ run'[t].pc # "none"
      BY <1>1, <1>6
    <3>2. store[t] # "completed"
      BY <3>1 DEF Shape, Ended
    <3>3. \A x \in {"input_required", "completed", "failed", "canceled"} : ~Holds(queue'[t], x)
      BY <3>1, RunHolds
    <3> QED
      BY <3>2, <3>3
  <2>5. CASE run'[t] = r /\ queue'[t] = queue[t]
    BY <1>1, <1>3, <2>1, <2>2, <2>3, <2>4, <2>5, <1>6 DEF Untouched, Carried, Written, Parked, Cared
  <2>6. CASE run'[t] = Task!AfterFlush(r) /\ queue'[t] = queue[t] \o Task!Flushed(r)
    <3>1. Leads(queue'[t], text'[t], Flush(w, r)) /\ Flush(w, r) \in Texts
      BY <1>1, <1>3, <2>1, <2>6, LeadsFlush
    <3>2. InStep(Flush(w, r), run'[t])
      BY <1>3, <2>2, <2>6, FlushKeeps
    <3>3. Written(queue'[t], store'[t], run'[t], answer'[t], before'[t], Flush(w, r))
      BY <1>1, <1>6, <2>4, <3>2 DEF Written, Parked
    <3> QED
      BY <1>6, <2>3, <3>1, <3>3 DEF Untouched, Carried, Cared
  <2> QED
    BY <1>1, <2>5, <2>6
<1> QED
  BY <1>1, <1>6, <1>7 DEF Fine, Cared

LEMMA FinePause ==
  ASSUME TaskType, NEW t \in Tasks, Fine(t), Task!Pause(t)
  PROVE  Fine(t)'
<1> USE DEF TaskType
<1> DEFINE r == run[t]
           ev == Task!Flushed(r)
<1>1. /\ up' = up /\ lost' = lost /\ reconciled' = reconciled /\ store' = store /\ text' = text
      /\ told' = told /\ answer' = answer /\ turns' = turns
      /\ r.pc = "stream" /\ run'[t].pc = "none" /\ before'[t] = r.said
      /\ queue'[t] = queue[t] \o Append(ev, Shown("input_required"))
  BY DEF Task!Pause, Task!Enqueue, Task!durable, Task!Status, Shown, Task!NoRun
<1>2. /\ r \in RunRecord /\ ev \in Seq(Event) /\ Shown("input_required") \in Event
      /\ \A i \in 1..Len(ev) : ev[i].kind = "artifact"
  BY FlushType, FlushedKinds DEF Shown, Event, State
<1> HIDE DEF r, ev
<1>3. Shape(queue'[t], store'[t], run'[t].pc)
  BY <1>1, <1>2, PushEnd DEF Fine, r
<1>4. queue'[t] # <<>>
  BY <1>1, <1>2, EndThere
<1>5. \A x : Holds(queue'[t], x) <=> Holds(queue[t], x) \/ x = "input_required"
  BY <1>1, <1>2, PushHolds DEF State
<1>6. ASSUME t \notin lost PROVE Untouched(t)'
  <2>1. Hooked(queue[t], store[t], r.pc, told[t], turns[t])
    BY <1>6 DEF Fine, Untouched, r
  <2>2. \A x \in {"completed", "failed"} : ~Holds(queue[t], x) /\ store[t] # x /\ told[t] # <<x>>
    <3>1. told[t] = <<>> /\ \A x : <<x>> # <<>>
      BY <1>1, <2>1 DEF Hooked
    <3> QED
      BY <1>1, <3>1, RunHolds DEF Fine, r, Shape, Ended
  <2>3. Hooked(queue'[t], store'[t], run'[t].pc, told'[t], turns'[t])
    BY <1>1, <1>5, <2>1, <2>2 DEF Hooked
  <2>4. PICK w \in Texts : /\ Leads(queue[t], text[t], w)
                           /\ Written(queue[t], store[t], r, answer[t], before[t], w)
    BY <1>6 DEF Fine, Untouched, Carried, r
  <2>5. Leads(queue'[t], text'[t], Flush(w, r)) /\ Flush(w, r) \in Texts
    <3>1. Leads(queue[t] \o ev, text[t], Flush(w, r)) /\ Flush(w, r) \in Texts
      BY <1>2, <2>4, LeadsFlush DEF ev
    <3>2. queue'[t] = Append(queue[t] \o ev, Shown("input_required"))
      BY <1>1, <1>2, JoinEnd
    <3>3. queue[t] \o ev \in Seq(Event)
      BY <1>2
    <3> QED
      BY <1>1, <3>1, <3>2, <3>3, LeadsStatus DEF State
  <2>6. r.said # <<>> => Flush(w, r) = r.said
    BY <1>1, <1>2, <2>4, FlushKeeps DEF Written
  <2>7. Written(queue'[t], store'[t], run'[t], answer'[t], before'[t], Flush(w, r))
    BY <1>1, <1>5, <2>2, <2>6 DEF Written
  <2> QED
    BY <1>4, <2>3, <2>5, <2>7 DEF Untouched, Carried, Cared
<1> QED
  BY <1>1, <1>3, <1>4, <1>6 DEF Fine, Cared, r

LEMMA FineDone ==
  ASSUME TaskType, NEW t \in Tasks, Fine(t), Task!Done(t)
  PROVE  Fine(t)'
<1> USE DEF TaskType
<1> DEFINE r == run[t]
           ev == Task!Flushed(r)
<1>1. /\ up' = up /\ lost' = lost /\ reconciled' = reconciled /\ store' = store /\ text' = text
      /\ told' = told /\ answer' = answer /\ turns' = turns /\ before' = before
      /\ r.pc = "stream" /\ queue'[t] = queue[t] \o ev
  BY DEF Task!Done, Task!Enqueue, Task!durable, Task!history
<1>2. r \in RunRecord /\ ev \in Seq(Event) /\ \A i \in 1..Len(ev) : ev[i].kind = "artifact"
  BY FlushType, FlushedKinds
<1>3. PICK f : run'[t] = [Task!AfterFlush(r) EXCEPT !.pc = "finalize", !.final = f]
  BY DEF Task!Done
<1> HIDE DEF r, ev
<1>4. /\ run'[t].pc = "finalize" /\ run'[t].started = Task!AfterFlush(r).started
      /\ run'[t].buf = Task!AfterFlush(r).buf /\ run'[t].said = Task!AfterFlush(r).said
  <2>1. Task!AfterFlush(r) \in RunRecord
    BY <1>2, FlushType
  <2> QED
    BY <1>3, <2>1 DEF RunRecord
<1>5. Shape(queue'[t], store'[t], run'[t].pc)
  BY <1>1, <1>2, <1>4, PushArtifacts DEF Fine, r
<1>6. ASSUME t \notin lost PROVE Untouched(t)'
  <2>1. Hooked(queue'[t], store'[t], run'[t].pc, told'[t], turns'[t])
    BY <1>1, <1>2, <1>4, <1>6, PushHooked DEF Fine, Untouched, r
  <2>2. /\ store[t] # "completed"
        /\ \A x \in {"input_required", "completed"} : ~Holds(queue'[t], x)
    BY <1>1, <1>4, <1>5, RunHolds DEF Shape, Ended
  <2>3. PICK w \in Texts : /\ Leads(queue[t], text[t], w)
                           /\ Written(queue[t], store[t], r, answer[t], before[t], w)
    BY <1>6 DEF Fine, Untouched, Carried, r
  <2>4. Leads(queue'[t], text'[t], Flush(w, r)) /\ Flush(w, r) \in Texts
    BY <1>1, <1>2, <2>3, LeadsFlush DEF ev
  <2>5. InStep(Flush(w, r), Task!AfterFlush(r)) /\ Task!AfterFlush(r).buf = <<>>
    BY <1>1, <1>2, <2>3, FlushKeeps DEF Written
  <2>6. Written(queue'[t], store'[t], run'[t], answer'[t], before'[t], Flush(w, r))
    BY <1>1, <1>4, <2>2, <2>5 DEF Written, Parked, InStep
  <2> QED
    BY <1>4, <2>1, <2>4, <2>6 DEF Untouched, Carried, Cared
<1> QED
  BY <1>1, <1>4, <1>5, <1>6 DEF Fine, Cared, r

LEMMA FineComplete ==
  ASSUME TaskType, NEW t \in Tasks, Fine(t), Task!Complete(t)
  PROVE  Fine(t)'
<1> USE DEF TaskType
<1> DEFINE r == run[t]
<1>1. PICK extra \in BOOLEAN :
        queue' = [queue EXCEPT ![t] = @ \o Append(Task!FinalArtifact(r, extra), Task!Status("completed"))]
  BY DEF Task!Complete, Task!Enqueue
<1> DEFINE ev == Task!FinalArtifact(r, extra)
<1>2. /\ up' = up /\ lost' = lost /\ reconciled' = reconciled /\ store' = store /\ text' = text
      /\ told'[t] = Append(told[t], "completed") /\ turns' = turns /\ before' = before
      /\ r.pc = "finalize" /\ run'[t].pc = "none"
      /\ answer'[t] = IF r.started THEN r.said ELSE r.final
      /\ queue'[t] = queue[t] \o Append(ev, Shown("completed"))
  BY <1>1 DEF Task!Complete, Task!Tell, Task!durable, Task!Status, Shown, Task!NoRun
<1>3. /\ r \in RunRecord /\ r.said \in Texts /\ r.final \in Texts /\ r.started \in BOOLEAN
      /\ Shown("completed") \in Event
  BY DEF RunRecord, Shown, Event, State
<1> DEFINE body == IF r.started THEN <<>> ELSE r.final
           e == Task!Artifact(body, r.started)
<1> HIDE DEF r
<1>4. /\ body \in Texts /\ e \in Event /\ e.kind = "artifact"
      /\ \A x : Applied(x, e) = IF r.started THEN x \o <<>> ELSE r.final
  BY <1>3, NoText DEF Task!Artifact, Event, Applied
<1>5. (ev = <<>> /\ body = <<>>) \/ ev = <<e>>
  BY DEF Task!FinalArtifact
<1> HIDE DEF e
<1>6. ev \in Seq(Event) /\ \A i \in 1..Len(ev) : ev[i].kind = "artifact"
  <2>1. <<e>> \in Seq(Event) /\ Len(<<e>>) = 1 /\ <<e>>[1] = e /\ \A i \in 1..1 : i = 1
    BY <1>4
  <2> HIDE DEF ev
  <2>2. CASE ev = <<>>
    BY <2>2
  <2>3. CASE ev = <<e>>
    BY <1>4, <2>1, <2>3
  <2> QED
    BY <1>5, <2>2, <2>3
<1> HIDE DEF ev
<1>7. Shape(queue'[t], store'[t], run'[t].pc) /\ queue'[t] # <<>>
  BY <1>2, <1>3, <1>6, PushEnd, EndThere DEF Fine, r
<1>8. \A x : Holds(queue'[t], x) <=> Holds(queue[t], x) \/ x = "completed"
  BY <1>2, <1>6, PushHolds DEF State
<1>9. ASSUME t \notin lost PROVE Untouched(t)'
  <2>1. Hooked(queue[t], store[t], r.pc, told[t], turns[t])
    BY <1>9 DEF Fine, Untouched, r
  <2>2. told[t] = <<>> /\ told'[t] = <<"completed">>
    BY <1>2, <2>1 DEF Hooked
  <2>3. Hooked(queue'[t], store'[t], run'[t].pc, told'[t], turns'[t])
    BY <1>2, <1>6, <2>1, <2>2, EndHooked DEF Fine, r
  <2>4. PICK w \in Texts : /\ Leads(queue[t], text[t], w)
                           /\ Written(queue[t], store[t], r, answer[t], before[t], w)
    BY <1>9 DEF Fine, Untouched, Carried, r
  <2>5. \E v \in Texts : Leads(queue[t] \o ev, text[t], v) /\ (answer'[t] # <<>> => v = answer'[t])
    <3>1. InStep(w, r) /\ r.buf = <<>>
      BY <1>2, <2>4 DEF Written
    <3>2. r.started => w = r.said
      BY <3>1, ConcatEmptySeq DEF InStep, Texts
    <3>3. CASE ev = <<>>
      <4>1. queue[t] \o ev = queue[t]
        BY <3>3, ConcatEmptySeq
      <4>2. answer'[t] # <<>> => w = answer'[t]
        <5>1. CASE r.started
          BY <1>2, <3>2, <5>1
        <5>2. CASE ~r.started
          <6>1. r.final = <<>>
            BY <1>5, <3>3, <5>2
          <6> QED
            BY <1>2, <5>2, <6>1
        <5> QED
          BY <5>1, <5>2
      <4> QED
        BY <2>4, <4>1, <4>2
    <3>4. CASE ev = <<e>>
      <4>1. queue[t] \o ev = Append(queue[t], e)
        BY <1>4, <3>4, AppendIsConcat
      <4>2. Leads(queue[t] \o ev, text[t], Applied(w, e)) /\ Applied(w, e) \in Texts
        BY <1>4, <2>4, <4>1, LeadsPush, AppliedType
      <4>3. Applied(w, e) = answer'[t]
        BY <1>2, <1>4, <3>2, ConcatEmptySeq DEF Texts
      <4> QED
        BY <4>2, <4>3
    <3> QED
      BY <1>5, <3>3, <3>4
  <2>6. PICK v \in Texts : Leads(queue[t] \o ev, text[t], v) /\ (answer'[t] # <<>> => v = answer'[t])
    BY <2>5
  <2>7. Leads(queue'[t], text'[t], v)
    <3>1. queue'[t] = Append(queue[t] \o ev, Shown("completed"))
      BY <1>2, <1>3, <1>6, JoinEnd
    <3>2. queue[t] \o ev \in Seq(Event)
      BY <1>6
    <3> QED
      BY <1>2, <2>6, <3>1, <3>2, LeadsStatus DEF State
  <2>8. ~Parked(queue'[t], store'[t], run'[t].pc)
    <3>1. ~Holds(queue[t], "input_required") /\ Announced(queue[t], store[t])
      BY <1>2, RunHolds DEF Fine, Shape, r
    <3>2. store[t] = "input_required" => Holds(queue[t], "working")
      BY <3>1 DEF Announced, Holds
    <3> QED
      BY <1>2, <1>8, <3>1, <3>2 DEF Parked
  <2>9. Written(queue'[t], store'[t], run'[t], answer'[t], before'[t], v)
    BY <1>2, <2>6, <2>8 DEF Written
  <2> QED
    BY <1>7, <2>3, <2>7, <2>9 DEF Untouched, Carried, Cared
<1> QED
  BY <1>2, <1>7, <1>9 DEF Fine, Cared, r

LEMMA FineFail ==
  ASSUME TaskType, NEW t \in Tasks, Fine(t), Task!Fail(t)
  PROVE  Fine(t)'
<1> USE DEF TaskType
<1>1. /\ up' = up /\ lost' = lost /\ reconciled' = reconciled /\ store' = store /\ text' = text
      /\ told'[t] = Append(told[t], "failed") /\ turns' = turns /\ before' = before /\ answer' = answer
      /\ run[t].pc # "none" /\ run'[t].pc = "none"
      /\ queue'[t] = queue[t] \o <<Shown("failed")>>
  BY DEF Task!Fail, Task!Tell, Task!Enqueue, Task!durable, Task!Status, Shown, Task!NoRun
<1>2. Shown("failed") \in Event /\ <<>> \in Seq(Event) /\ \A i \in 1..Len(<<>>) : <<>>[i].kind = "artifact"
  BY DEF Shown, Event, State
<1>3. queue'[t] = queue[t] \o Append(<<>>, Shown("failed"))
  <2>1. Append(<<>>, Shown("failed")) = <<Shown("failed")>>
    OBVIOUS
  <2> QED
    BY <1>1, <2>1
<1>4. queue'[t] = Append(queue[t], Shown("failed"))
  BY <1>1, <1>2, AppendIsConcat
<1>5. Shape(queue'[t], store'[t], run'[t].pc) /\ queue'[t] # <<>>
  BY <1>1, <1>2, <1>3, PushEnd, EndThere DEF Fine
<1>6. \A x : Holds(queue'[t], x) <=> Holds(queue[t], x) \/ x = "failed"
  BY <1>4, AppendHolds DEF State
<1>7. ASSUME t \notin lost PROVE Untouched(t)'
  <2>1. Hooked(queue[t], store[t], run[t].pc, told[t], turns[t])
    BY <1>7 DEF Fine, Untouched
  <2>2. told[t] = <<>> /\ told'[t] = <<"failed">>
    BY <1>1, <2>1 DEF Hooked
  <2>3. Hooked(queue'[t], store'[t], run'[t].pc, told'[t], turns'[t])
    BY <1>1, <1>2, <1>3, <2>1, <2>2, EndHooked DEF Fine
  <2>4. PICK w \in Texts : /\ Leads(queue[t], text[t], w)
                           /\ Written(queue[t], store[t], run[t], answer[t], before[t], w)
    BY <1>7 DEF Fine, Untouched, Carried
  <2>5. Leads(queue'[t], text'[t], w)
    BY <1>1, <1>4, <2>4, LeadsStatus DEF State
  <2>6. /\ ~Parked(queue'[t], store'[t], run'[t].pc)
        /\ store'[t] # "completed" /\ ~Holds(queue'[t], "completed")
    <3>1. /\ \A x \in {"input_required", "completed"} : ~Holds(queue[t], x)
          /\ Announced(queue[t], store[t]) /\ store[t] # "completed"
      <4>1. Shape(queue[t], store[t], run[t].pc) /\ run[t].pc # "none"
        BY <1>1 DEF Fine
      <4>2. \A x \in {"input_required", "completed", "failed", "canceled"} : ~Holds(queue[t], x)
        BY <4>1, RunHolds
      <4> QED
        BY <4>1, <4>2 DEF Shape, Ended
    <3>2. store[t] = "input_required" => Holds(queue[t], "working")
      BY <3>1 DEF Announced, Holds
    <3> QED
      BY <1>1, <1>6, <3>1, <3>2 DEF Parked
  <2>7. Written(queue'[t], store'[t], run'[t], answer'[t], before'[t], w)
    BY <1>1, <2>6 DEF Written
  <2> QED
    BY <1>5, <2>3, <2>4, <2>5, <2>7 DEF Untouched, Carried, Cared
<1> QED
  BY <1>1, <1>5, <1>7 DEF Fine, Cared

LEMMA FineCancel ==
  ASSUME TaskType, NEW t \in Tasks, Fine(t), Task!Cancel(t)
  PROVE  Fine(t)'
<1> USE DEF TaskType
<1>1. /\ up /\ up' = up /\ lost' = lost /\ reconciled' = reconciled /\ store' = store /\ text' = text
      /\ told' = told /\ turns' = turns /\ before' = before /\ answer' = answer
      /\ run'[t].pc = "none" /\ store[t] \in {"submitted", "working", "input_required"}
      /\ queue'[t] = queue[t] \o <<Shown("canceled")>>
  BY DEF Task!Cancel, Task!Enqueue, Task!durable, Task!history, Task!Status, Shown, Task!NoRun
<1>2. Shown("canceled") \in Event
  BY DEF Shown, Event, State
<1>3. ~Holds(queue[t], "canceled")
  <2>1. DOMAIN queue[t] = 1..Len(queue[t])
    OBVIOUS
  <2> QED
    BY <2>1 DEF Task!Cancel, Holds, Task!Status, Shown
<1>4. queue'[t] = Append(queue[t], Shown("canceled"))
  BY <1>1, <1>2, AppendIsConcat
<1>5. Shape(queue'[t], store'[t], run'[t].pc) /\ queue'[t] # <<>>
  BY <1>1, <1>2, <1>3, <1>4, PushCancel, EndThere DEF Fine
<1>6. \A x : Holds(queue'[t], x) <=> Holds(queue[t], x) \/ x = "canceled"
  BY <1>4, AppendHolds DEF State
<1>7. ASSUME t \notin lost PROVE Untouched(t)'
  <2>1. Hooked(queue[t], store[t], run[t].pc, told[t], turns[t])
    BY <1>7 DEF Fine, Untouched
  <2>2. Hooked(queue'[t], store'[t], run'[t].pc, told'[t], turns'[t])
    BY <1>1, <1>6, <2>1 DEF Hooked
  <2>3. PICK w \in Texts : /\ Leads(queue[t], text[t], w)
                           /\ Written(queue[t], store[t], run[t], answer[t], before[t], w)
    BY <1>7 DEF Fine, Untouched, Carried
  <2>4. Leads(queue'[t], text'[t], w)
    BY <1>1, <1>4, <2>3, LeadsStatus DEF State
  <2>5. Parked(queue'[t], store'[t], run'[t].pc) => Parked(queue[t], store[t], run[t].pc)
    <3>1. CASE run[t].pc = "none"
      BY <1>1, <1>6, <3>1 DEF Parked
    <3>2. CASE run[t].pc # "none"
      <4>1. ~Holds(queue[t], "input_required") /\ Announced(queue[t], store[t])
        BY <3>2, RunHolds DEF Fine, Shape
      <4>2. store[t] = "input_required" => Holds(queue[t], "working")
        BY <4>1 DEF Announced, Holds
      <4> QED
        BY <1>1, <1>6, <4>1, <4>2 DEF Parked
    <3> QED
      BY <3>1, <3>2
  <2>6. Written(queue'[t], store'[t], run'[t], answer'[t], before'[t], w)
    BY <1>1, <1>6, <2>3, <2>5 DEF Written
  <2> QED
    BY <1>5, <2>2, <2>3, <2>4, <2>6 DEF Untouched, Carried, Cared
<1> QED
  BY <1>1, <1>5, <1>7 DEF Fine, Cared

LEMMA FineStore ==
  ASSUME TaskType, NEW t \in Tasks, Fine(t), Task!StoreEvent(t)
  PROVE  /\ Fine(t)'
         /\ store'[t] # store[t] => <<store[t], store'[t]>> \in Task!Protocol!Edges
<1> USE DEF TaskType
<1> DEFINE e == Head(queue[t])
<1>1. /\ up' = up /\ lost' = lost /\ reconciled' = reconciled /\ run' = run
      /\ told' = told /\ turns' = turns /\ before' = before /\ answer' = answer
      /\ queue[t] # <<>> /\ queue'[t] = Tail(queue[t])
  BY DEF Task!StoreEvent, Task!history
<1>2. /\ store'[t] = Next1(store[t], e)
      /\ text'[t] = IF store[t] \in Ended THEN text[t] ELSE Applied(text[t], e)
  BY DEF Task!StoreEvent, Task!Stored, Task!durable, Task!Terminal, Task!Protocol!Terminal, Ended,
         Next1, Applied
<1>3. /\ Shape(queue'[t], store'[t], run'[t].pc)
      /\ store'[t] # store[t] => <<store[t], store'[t]>> \in Task!Protocol!Edges
  BY <1>1, <1>2, PopShape DEF Fine
<1>4. ASSUME t \notin lost PROVE Untouched(t)'
  <2>1. /\ Hooked(queue'[t], store'[t], run'[t].pc, told'[t], turns'[t])
        /\ Cared(queue'[t], store'[t], run'[t].pc)
    <3>1. turns[t] \in Nat
      BY Bounds
    <3>2. Hooked(queue[t], store[t], run[t].pc, told[t], turns[t])
      BY <1>4 DEF Fine, Untouched
    <3> QED
      BY <1>1, <1>2, <3>1, <3>2, PopHooked DEF Fine
  <2>2. PICK w \in Texts : /\ Leads(queue[t], text[t], w)
                           /\ Written(queue[t], store[t], run[t], answer[t], before[t], w)
    BY <1>4 DEF Fine, Untouched, Carried
  <2>3. Leads(queue'[t], text'[t], w)
    <3>1. Leads(queue'[t], Applied(text[t], e), w)
      BY <1>1, <2>2, LeadsPop
    <3>2. store[t] \in Ended => Applied(text[t], e) = text[t]
      <4>1. e = queue[t][1] /\ 1 \in 1..Len(queue[t])
        BY <1>1
      <4>2. store[t] \in Ended => e = Shown("canceled")
        BY <4>1 DEF Fine, Shape
      <4> QED
        BY <4>2 DEF Applied, Shown
    <3> QED
      BY <1>2, <3>1, <3>2
  <2>4. /\ \A x : Holds(queue'[t], x) => Holds(queue[t], x)
        /\ \A x : Holds(queue[t], x) => Holds(queue'[t], x) \/ e = Shown(x)
        /\ \A x : e = Shown(x) => Holds(queue[t], x)
    BY <1>1, PopHolds
  <2>5. \A x \in {"completed", "input_required"} :
          store'[t] = x => store[t] = x \/ Holds(queue[t], x)
    <3>1. e \in Event
      BY <1>1
    <3>2. e.kind = "status" => e = Shown(e.state)
      BY <3>1 DEF Event, Shown
    <3> QED
      BY <1>2, <2>4, <3>2 DEF Next1
  <2>6. Parked(queue'[t], store'[t], run'[t].pc) => Parked(queue[t], store[t], run[t].pc)
    <3>1. \A x, y : Shown(x).kind = "status" /\ Shown(x).state = x
      BY DEF Shown
    <3>2. store'[t] = "input_required" /\ ~Holds(queue[t], "input_required") =>
            store[t] = "input_required" /\ e # Shown("working")
      BY <1>2, <2>5, <3>1 DEF Next1, Ended
    <3> QED
      BY <1>1, <2>4, <3>2 DEF Parked
  <2>7. Written(queue'[t], store'[t], run'[t], answer'[t], before'[t], w)
    BY <1>1, <2>2, <2>4, <2>5, <2>6 DEF Written
  <2> QED
    BY <2>1, <2>2, <2>3, <2>7 DEF Untouched, Carried
<1>5. up /\ reconciled => Cared(queue'[t], store'[t], run'[t].pc)
  <2>1. CASE queue'[t] # <<>> \/ run[t].pc # "none"
    BY <1>1, <2>1 DEF Cared
  <2>2. CASE queue'[t] = <<>> /\ run[t].pc = "none"
    <3>1. Len(queue[t]) = 1 /\ e = queue[t][1] /\ e \in Event
      <4>1. Len(queue'[t]) = Len(queue[t]) - 1 /\ Len(queue[t]) \in Nat
        BY <1>1
      <4> QED
        BY <1>1, <2>2, <4>1, EmptySeq
    <3>2. \A x : Shown(x).kind = "status" /\ Shown(x).state = x
      BY DEF Shown
    <3> QED
      BY <1>1, <1>2, <2>2, <3>1, <3>2 DEF Fine, Shape, Cared, Next1, Ended
  <2> QED
    BY <2>1, <2>2
<1>6. run'[t].pc # "none" \/ queue'[t] # <<>> => up'
  BY <1>1 DEF Fine
<1> QED
  BY <1>1, <1>3, <1>4, <1>5, <1>6 DEF Fine

\* Nobody works on a task while the process is down.
LEMMA FineDown ==
  ASSUME TaskType, NEW t \in Tasks, Fine(t), ~up
  PROVE  run[t].pc = "none" /\ queue[t] = <<>>
  BY DEF TaskType, Fine

LEMMA FineQuiet ==
  ASSUME NEW s, NEW pc, pc = "none"
  PROVE  Shape(<<>>, s, pc)
  BY DEF Shape

LEMMA FineCrash ==
  ASSUME TaskType, NEW t \in Tasks, Fine(t), Task!Crash
  PROVE  Fine(t)'
<1> USE DEF TaskType
<1>1. /\ ~up' /\ store' = store /\ text' = text /\ told' = told /\ turns' = turns
      /\ before' = before /\ answer' = answer
      /\ run'[t] = Task!NoRun /\ run'[t].pc = "none" /\ queue'[t] = <<>>
      /\ t \notin lost' => t \notin lost /\ run[t].pc = "none" /\ queue[t] = <<>>
  BY DEF Task!Crash, Task!durable, Task!NoRun
<1>2. Shape(queue'[t], store'[t], run'[t].pc)
  BY <1>1, FineQuiet
<1>3. ASSUME t \notin lost' PROVE Untouched(t)'
  <2>1. queue'[t] = queue[t] /\ run'[t].pc = run[t].pc /\ Untouched(t)
    BY <1>1, <1>3 DEF Fine
  <2>2. PICK w \in Texts : /\ Leads(queue[t], text[t], w)
                           /\ Written(queue[t], store[t], run[t], answer[t], before[t], w)
    BY <2>1 DEF Untouched, Carried
  <2>3. Written(queue'[t], store'[t], run'[t], answer'[t], before'[t], w)
    BY <1>1, <2>1, <2>2 DEF Written
  <2> QED
    BY <1>1, <2>1, <2>2, <2>3 DEF Untouched, Carried
<1> QED
  BY <1>1, <1>2, <1>3 DEF Fine

LEMMA FineBoot ==
  ASSUME TaskType, NEW t \in Tasks, Fine(t), Task!Boot
  PROVE  /\ Fine(t)'
         /\ store'[t] # store[t] => <<store[t], store'[t]>> \in Task!Protocol!Edges
<1> USE DEF TaskType
<1>1. /\ queue' = queue /\ run' = run /\ told' = told /\ turns' = turns /\ before' = before
      /\ answer' = answer /\ lost' = lost /\ up'
      /\ run[t].pc = "none" /\ queue[t] = <<>>
  BY FineDown DEF Task!Boot
<1>2. PICK fails \in {Task!Interrupted, {}}, sweep \in BOOLEAN :
        LET gone == IF sweep THEN old \ fails ELSE {}
        IN /\ reconciled' = (fails = Task!Interrupted)
           /\ store' = [u \in Tasks |-> IF u \in fails THEN "failed"
                                        ELSE IF u \in gone THEN "absent" ELSE store[u]]
           /\ text' = [u \in Tasks |-> IF u \in gone THEN <<>> ELSE text[u]]
  BY DEF Task!Boot
<1>3. \/ /\ t \in fails /\ store[t] \in {"submitted", "working"} /\ store'[t] = "failed"
         /\ text'[t] = text[t]
      \/ t \notin fails /\ store'[t] = "absent" /\ text'[t] = <<>>
      \/ t \notin fails /\ store'[t] = store[t] /\ text'[t] = text[t]
  <2>1. t \in fails => store[t] \in {"submitted", "working"}
    BY DEF Task!Interrupted
  <2> DEFINE gone == IF sweep THEN old \ fails ELSE {}
  <2>2. t \in gone => t \notin fails
    OBVIOUS
  <2>3. /\ store'[t] = IF t \in fails THEN "failed" ELSE IF t \in gone THEN "absent" ELSE store[t]
        /\ text'[t] = IF t \in gone THEN <<>> ELSE text[t]
    BY <1>2
  <2> HIDE DEF gone
  <2> QED
    BY <2>1, <2>2, <2>3
<1>4. store'[t] # store[t] => <<store[t], store'[t]>> \in Task!Protocol!Edges
  BY <1>3 DEF Task!Protocol!Edges, Task!Protocol!TaskState, State
<1>5. Shape(queue'[t], store'[t], run'[t].pc)
  BY <1>1, FineQuiet
<1>6. ASSUME up', reconciled' PROVE Cared(queue'[t], store'[t], run'[t].pc)
  <2>1. t \notin fails => store[t] \notin {"submitted", "working"}
    BY <1>2, <1>6 DEF Task!Interrupted
  <2> QED
    BY <1>3, <2>1 DEF Cared
<1>7. ASSUME t \notin lost PROVE Untouched(t)'
  <2>1. /\ Hooked(queue[t], store[t], run[t].pc, told[t], turns[t])
        /\ store[t] \notin {"submitted", "working"}
    BY <1>1, <1>7 DEF Fine, Untouched, Cared
  <2>2. PICK w \in Texts : /\ Leads(queue[t], text[t], w)
                           /\ Written(queue[t], store[t], run[t], answer[t], before[t], w)
    BY <1>7 DEF Fine, Untouched, Carried
  <2>3. w = text[t]
    BY <1>1, <2>2, LeadsFromNowhere
  <2>4. \/ store'[t] = store[t] /\ text'[t] = text[t]
        \/ store'[t] = "absent" /\ text'[t] = <<>>
    BY <1>3, <2>1
  <2>5. \A x : ~Holds(queue[t], x)
    BY <1>1 DEF Holds
  <2>6. Hooked(queue'[t], store'[t], run'[t].pc, told'[t], turns'[t]) /\ Cared(queue'[t], store'[t], run'[t].pc)
    BY <1>1, <2>1, <2>4, <2>5 DEF Hooked, Cared
  <2>7. Leads(queue'[t], text'[t], text'[t]) /\ text'[t] \in Texts
    BY <1>1, <2>4, LeadsNowhere, NoText
  <2>8. Written(queue'[t], store'[t], run'[t], answer'[t], before'[t], text'[t])
    BY <1>1, <2>2, <2>3, <2>4, <2>5 DEF Written, Parked
  <2> QED
    BY <2>6, <2>7, <2>8 DEF Untouched, Carried
<1> QED
  BY <1>1, <1>4, <1>5, <1>6, <1>7 DEF Fine

LEMMA TaskInvInit == Task!Init => TaskInv
<1> SUFFICES ASSUME Task!Init PROVE TaskInv
  OBVIOUS
<1>1. TaskType
  BY TaskTypeInit
<1>2. ASSUME NEW t \in Tasks PROVE Fine(t)
  <2>1. /\ ~up /\ store[t] = "absent" /\ text[t] = <<>> /\ queue[t] = <<>> /\ run[t].pc = "none"
        /\ turns[t] = 0 /\ told[t] = <<>> /\ answer[t] = <<>> /\ before[t] = <<>>
    BY DEF Task!Init, Task!NoRun
  <2>2. Shape(queue[t], store[t], run[t].pc)
    BY <2>1, FineQuiet
  <2>3. \A x : ~Holds(queue[t], x)
    BY <2>1 DEF Holds
  <2>4. Hooked(queue[t], store[t], run[t].pc, told[t], turns[t]) /\ Cared(queue[t], store[t], run[t].pc)
    <3>1. \A x : <<x>> # <<>>
      OBVIOUS
    <3> QED
      BY <2>1, <2>3, <3>1 DEF Hooked, Cared
  <2>5. Leads(queue[t], text[t], <<>>) /\ <<>> \in Texts
    BY <2>1, LeadsNowhere, NoText
  <2>6. Written(queue[t], store[t], run[t], answer[t], before[t], <<>>)
    BY <2>1, <2>3 DEF Written
  <2> QED
    BY <2>1, <2>2, <2>4, <2>5, <2>6 DEF Fine, Untouched, Carried
<1> QED
  BY <1>1, <1>2 DEF TaskInv

\* Every step keeps the invariant, and moves the stored states along the edges of
\* the protocol.
LEMMA TaskInvStep ==
  ASSUME TaskInv, [Task!Next]_taskVars
  PROVE  /\ TaskInv'
         /\ \A t \in Tasks : store'[t] # store[t] => <<store[t], store'[t]>> \in Task!Protocol!Edges
<1> DEFINE Goes(t) == store'[t] # store[t] => <<store[t], store'[t]>> \in Task!Protocol!Edges
<1>1. TaskType /\ TaskType'
  BY TaskTypeStep DEF TaskInv
<1> SUFFICES ASSUME NEW u \in Tasks PROVE Fine(u)' /\ Goes(u)
  BY <1>1 DEF TaskInv
<1>2. Fine(u)
  BY DEF TaskInv
<1> USE <1>1, <1>2 DEF Task!durable, Task!history, Task!Enqueue
<1>3. ASSUME NEW t \in Tasks,
             Task!Message(t) \/ Task!Write(t) \/ Task!Pause(t) \/ Task!Done(t)
             \/ Task!Complete(t) \/ Task!Fail(t) \/ Task!Cancel(t)
      PROVE  Fine(u)' /\ Goes(u)
  <2>1. /\ store' = store
        /\ u # t => UNCHANGED <<up, lost, reconciled, store[u], text[u], queue[u], run[u], turns[u],
                                told[u], answer[u], before[u]>>
    <3>1. ASSUME Task!Message(t) \/ Task!Write(t) \/ Task!Pause(t) \/ Task!Done(t)
          PROVE  /\ store' = store
                 /\ u # t => UNCHANGED <<up, lost, reconciled, store[u], text[u], queue[u], run[u],
                                         turns[u], told[u], answer[u], before[u]>>
      BY <3>1 DEF TaskType, Task!Message, Task!Write, Task!Pause, Task!Done
    <3>2. ASSUME Task!Complete(t) \/ Task!Fail(t) \/ Task!Cancel(t)
          PROVE  /\ store' = store
                 /\ u # t => UNCHANGED <<up, lost, reconciled, store[u], text[u], queue[u], run[u],
                                         turns[u], told[u], answer[u], before[u]>>
      BY <3>2 DEF TaskType, Task!Complete, Task!Fail, Task!Cancel, Task!Tell
    <3> QED
      BY <1>3, <3>1, <3>2
  <2>2. CASE u = t
    BY <1>3, <2>1, <2>2, FineMessage, FineWrite, FinePause, FineDone, FineComplete, FineFail, FineCancel
  <2> QED
    BY <2>1, <2>2, FineFrame
<1>4. ASSUME NEW t \in Tasks, Task!StoreEvent(t) PROVE Fine(u)' /\ Goes(u)
  <2>1. u # t => UNCHANGED <<up, lost, reconciled, store[u], text[u], queue[u], run[u], turns[u],
                             told[u], answer[u], before[u]>>
    BY <1>4 DEF TaskType, Task!StoreEvent, Task!Stored
  <2> QED
    BY <1>4, <2>1, FineFrame, FineStore
<1>5. ASSUME NEW t \in Tasks, Task!Age(t) PROVE Fine(u)' /\ Goes(u)
  BY <1>5 DEF Task!Age, Fine, Untouched, Carried
<1>6. CASE Task!Crash
  BY <1>6, FineCrash DEF Task!Crash
<1>7. CASE Task!Boot
  BY <1>7, FineBoot
<1>8. CASE UNCHANGED taskVars
  BY <1>8 DEF taskVars, Fine, Untouched, Carried
<1> QED
  BY <1>3, <1>4, <1>5, <1>6, <1>7, <1>8 DEF Task!Next

LEMMA TaskInvSound == TaskInv => Task!OutcomeSound
<1> SUFFICES ASSUME TaskInv PROVE Task!NoFakeActive /\ Task!HookAgrees /\ Task!AnswerOnce
  BY DEF Task!OutcomeSound
<1>1. Task!NoFakeActive
  BY DEF TaskInv, Fine, Cared, Task!NoFakeActive
<1>2. Task!HookAgrees
  <2> SUFFICES ASSUME NEW t \in Tasks \ lost
               PROVE  /\ Len(told[t]) <= 1
                      /\ store[t] \in {"completed", "failed"} => told[t] = <<store[t]>>
                      /\ store[t] = "canceled" => told[t] = <<>>
    BY DEF Task!HookAgrees
  <2>1. Hooked(queue[t], store[t], run[t].pc, told[t], turns[t])
    BY DEF TaskInv, Fine, Untouched
  <2>2. Len(<<>>) = 0 /\ Len(<<"completed">>) = 1 /\ Len(<<"failed">>) = 1
    OBVIOUS
  <2>3. told[t] \in {<<>>, <<"completed">>, <<"failed">>}
    BY <2>1 DEF Hooked
  <2>4. Len(told[t]) <= 1
    <3>1. CASE told[t] = <<>>
      BY <2>2, <3>1
    <3>2. CASE told[t] = <<"completed">>
      BY <2>2, <3>2
    <3>3. CASE told[t] = <<"failed">>
      BY <2>2, <3>3
    <3> QED
      BY <2>3, <3>1, <3>2, <3>3
  <2> QED
    BY <2>1, <2>4 DEF Hooked
<1>3. Task!AnswerOnce
  <2> SUFFICES ASSUME NEW t \in Tasks \ lost
               PROVE  /\ store[t] = "completed" /\ answer[t] # <<>> => text[t] = answer[t]
                      /\ store[t] = "input_required" /\ run[t].pc = "none" /\ queue[t] = <<>>
                         /\ before[t] # <<>> => text[t] = before[t]
    BY DEF Task!AnswerOnce
  <2>1. PICK w \in Texts : /\ Leads(queue[t], text[t], w)
                           /\ Written(queue[t], store[t], run[t], answer[t], before[t], w)
    BY DEF TaskInv, Fine, Untouched, Carried
  <2>2. CASE queue[t] = <<>>
    <3>1. w = text[t] /\ \A x : ~Holds(queue[t], x)
      BY <2>1, <2>2, LeadsFromNowhere DEF Holds
    <3> QED
      BY <2>1, <3>1 DEF Written, Parked
  <2>3. ASSUME store[t] = "completed" PROVE w = text[t]
    <3>1. \A i \in 1..Len(queue[t]) : queue[t][i] = Shown("canceled") /\ i = Len(queue[t])
      BY <2>3 DEF TaskInv, Fine, Shape, InPlace, Ended
    <3> QED
      BY <2>1, <3>1, LeadsSame DEF TaskInv, TaskType
  <2> QED
    BY <2>1, <2>2, <2>3 DEF Written
<1> QED
  BY <1>1, <1>2, <1>3

\* However messages, answers, cancels, crashes and boots interleave, and for any
\* number of tasks, pieces of text and runs (a2a_executor.py, a2a_stores.py): no
\* task stays fake-active, the terminal hook and the store agree on its outcome,
\* and its answer is stored whole and once.
THEOREM TaskOutcomes == Spec => []OutcomeSound
<1>1. Init => TaskInv
  BY TaskInvInit DEF Init
<1>2. TaskInv /\ [Next]_vars => TaskInv'
  BY TaskMoves, TaskInvStep
<1>3. TaskInv => OutcomeSound
  BY TaskInvSound DEF OutcomeSound
<1> QED
  BY <1>1, <1>2, <1>3, PTL DEF Spec

\* Whatever the executor, its queue and the restarts do, a caller who watches the
\* task store sees nothing but a life of TaskProtocol.
THEOREM TaskKeepsProtocol == Spec => ProtocolSpec
<1>1. Init => TaskInv
  BY TaskInvInit DEF Init
<1>2. TaskInv /\ [Next]_vars => TaskInv'
  BY TaskMoves, TaskInvStep
<1>3. Init => Task!Protocol!Init
  BY DEF Init, Task!Init, Task!Protocol!Init
<1>4. TaskInv /\ [Next]_vars => [Task!Protocol!Next]_store
  <2> SUFFICES ASSUME TaskInv, [Next]_vars PROVE Task!Protocol!Next
    OBVIOUS
  <2>1. TaskInv' /\ \A t \in Tasks : store'[t] # store[t] => <<store[t], store'[t]>> \in Task!Protocol!Edges
    BY TaskMoves, TaskInvStep
  <2>2. store' \in [Tasks -> Task!Protocol!TaskState]
    BY <2>1 DEF TaskInv, TaskType, State, Task!Protocol!TaskState
  <2> QED
    BY <2>1, <2>2 DEF Task!Protocol!Next
<1> QED
  BY <1>1, <1>2, <1>3, <1>4, PTL DEF Spec, ProtocolSpec, Task!ProtocolSpec, Task!Protocol!Spec

-----------------------------------------------------------------------------
(* The goal of a session *)

GoalIds == 1..MaxGoals
GoalRecord == [id : 0..MaxGoals, status : {"achieved", "exhausted", "unachievable", "none", "active"},
               iteration : Nat, max : Nat, streak : Nat, last : Evidence]
TurnRecord == [pc : {"idle", "model", "verify"}, guard : 0..Goal!HardCap, held : GoalRecord,
               drove : SUBSET GoalIds]
Tallies == [met : BOOLEAN, gaveUp : BOOLEAN, unmet : 0..MaxCount, same : 0..MaxCount, last : Evidence]
Outcome == {"achieved", "exhausted", "unachievable"}

GoalType ==
  /\ goal \in GoalRecord
  /\ turn \in [Turns -> TurnRecord]
  /\ sets \in 0..MaxGoals
  /\ record \in [GoalIds -> Tallies]
  /\ retired \subseteq GoalIds /\ spoiled \subseteq GoalIds
  /\ stalled \subseteq [id : GoalIds, max : Nat, alone : BOOLEAN]

LEMMA GoalTypeOK == GoalType <=> Goal!TypeOK
  BY DEF GoalType, Goal!TypeOK, GoalRecord, Goal!Goal, TurnRecord, GoalIds, Goal!Ids, Tallies, Goal!Terminal

LEMMA GoalNumbers ==
  /\ Default \in Nat /\ Default > 0 /\ NoProgressLimit \in Nat /\ NoProgressLimit > 0
  /\ Budgets \subseteq Nat /\ Blank \in Evidence /\ MaxGoals \in Nat /\ MaxCount \in Nat
  /\ Default <= MaxCount /\ \A b \in Budgets : b <= MaxCount
  /\ Goal!HardCap = Default + 2
  BY GoalAssumption DEF GoalAssumption, Goal!GoalAssumption, Goal!HardCap

LEMMA GoalMoves == [Next]_vars => [Goal!Next]_goalVars
  BY DEF Next, vars, goalVars, TaskStep, GoalStep, FlowStep

\* What the file says of an active goal is what its verifier said.
Tally(g, r) ==
  /\ g.iteration = r.unmet /\ ~r.met /\ g.streak <= g.iteration
  /\ r.unmet > 0 => g.iteration < g.max /\ g.last = r.last /\ g.streak <= r.same

\* An outcome is what the verifier said; of a spoiled goal, only success is.
Justified(g, r, sound) ==
  /\ g.status = "achieved" => r.met
  /\ sound /\ g.status = "active" => Tally(g, r)
  /\ sound /\ g.status = "exhausted" => ~r.met /\ r.unmet >= g.max
  /\ sound /\ g.status = "unachievable" => ~r.met /\ (r.gaveUp \/ r.same >= NoProgressLimit)

\* A record that names a goal names one that was set, with a budget.
Named(g) == g.id \in 1..sets /\ g.max \in 1..MaxCount

Wrong(i) == i \in spoiled

GoalNames ==
  /\ goal.status = "none" => goal = Goal!NoGoal
  /\ goal.status # "none" => Named(goal)
  /\ spoiled \subseteq 1..sets
  /\ \A i \in GoalIds : i > sets => record[i] = Goal!NoRecord
  /\ \A t \in Turns :
       /\ turn[t].drove \subseteq 1..sets
       /\ turn[t].drove = {} => turn[t].guard = 0
       /\ turn[t].pc = "verify" =>
            turn[t].held.status = "active" /\ Named(turn[t].held) /\ turn[t].held.id \in turn[t].drove

\* The evaluations of a turn that only worked on this goal are in its iterations.
Spent(t) ==
  goal.id \in GoalIds /\ ~Wrong(goal.id) /\ turn[t].drove \subseteq {goal.id} =>
    /\ turn[t].pc = "model" => turn[t].guard <= goal.iteration
    /\ turn[t].pc = "verify" => turn[t].guard <= goal.iteration + 1

GoalInv ==
  /\ GoalType
  /\ GoalNames
  /\ goal.id \in GoalIds => Justified(goal, record[goal.id], ~Wrong(goal.id))
  /\ \A t \in Turns : Spent(t)
  /\ Goal!CapIsSlack

LEMMA NoGoalType == Goal!NoGoal \in GoalRecord /\ Goal!NoRecord \in Tallies /\ Goal!Idle \in TurnRecord
<1> USE GoalNumbers
<1>1. Goal!NoGoal \in GoalRecord
  BY DEF Goal!NoGoal, GoalRecord
<1>2. Goal!NoRecord \in Tallies
  BY DEF Goal!NoRecord, Tallies
<1>3. Goal!Idle \in TurnRecord
  BY <1>1 DEF Goal!Idle, TurnRecord
<1> QED
  BY <1>1, <1>2, <1>3

LEMMA DecideKeeps ==
  ASSUME NEW g \in GoalRecord, g.status = "active", NEW v \in Evidence \union {Goal!Met},
         NEW giveUp \in BOOLEAN, NEW r \in Tallies, g.max \in 1..MaxCount
  PROVE  LET n == Goal!Decide(g, v, giveUp)
             q == Goal!Recorded(r, v, giveUp)
         IN /\ n \in GoalRecord /\ q \in Tallies
            /\ n.id = g.id /\ n.max = g.max /\ n.status # "none"
            /\ n.iteration >= g.iteration
            /\ n.status = "active" => n.iteration = g.iteration + 1
            /\ r.met => q.met
            /\ n.status = "achieved" => q.met
            /\ Tally(g, r) => Justified(n, q, TRUE)
<1> DEFINE n == Goal!Decide(g, v, giveUp)
           q == Goal!Recorded(r, v, giveUp)
           c == Goal!Counted(g, v)
<1> USE GoalNumbers
<1>0. /\ g.iteration \in Nat /\ g.streak \in Nat /\ g.max \in Nat /\ r.unmet \in Nat /\ r.same \in Nat
      /\ r.unmet <= MaxCount /\ r.same <= MaxCount
  BY DEF GoalRecord, Tallies
<1>1. q \in Tallies
  <2>1. \A k \in 0..MaxCount : Goal!Saturated(k) \in 0..MaxCount
    BY DEF Goal!Saturated
  <2>2. CASE v = Goal!Met
    BY <2>2 DEF Goal!Recorded, Tallies
  <2>3. CASE v # Goal!Met
    <3>1. v \in Evidence
      BY <2>3
    <3>2. /\ Goal!Saturated(r.unmet) \in 0..MaxCount
          /\ (IF r.unmet > 0 /\ v = r.last THEN Goal!Saturated(r.same) ELSE 1) \in 0..MaxCount
          /\ (r.gaveUp \/ giveUp) \in BOOLEAN
      BY <2>1 DEF Tallies
    <3> QED
      BY <2>3, <3>1, <3>2 DEF Goal!Recorded, Tallies
  <2> QED
    BY <2>2, <2>3
<1>2. ASSUME v # Goal!Met
      PROVE  /\ c \in GoalRecord /\ c.id = g.id /\ c.max = g.max /\ c.status = "active"
             /\ c.iteration = g.iteration + 1 /\ c.last = v
             /\ c.streak = IF v = g.last THEN g.streak + 1 ELSE 0
  <2>1. v \in Evidence /\ g.iteration + 1 \in Nat /\ g.streak + 1 \in Nat
    BY <1>0, <1>2
  <2>2. (IF v = g.last THEN g.streak + 1 ELSE 0) \in Nat
    BY <2>1
  <2>3. c = [g EXCEPT !.iteration = g.iteration + 1, !.last = v,
                      !.streak = IF v = g.last THEN g.streak + 1 ELSE 0]
    BY DEF Goal!Counted
  <2> HIDE DEF c
  <2> QED
    BY <2>1, <2>2, <2>3 DEF GoalRecord
<1>3. \A s \in Outcome, h \in GoalRecord :
        LET f == Goal!Finish(h, s)
        IN f \in GoalRecord /\ f.status = s /\ f.id = h.id /\ f.max = h.max /\ f.iteration = h.iteration
  BY DEF Goal!Finish, GoalRecord, Outcome
<1> HIDE DEF c
<1>4. CASE v = Goal!Met
  <2>1. n = Goal!Finish(g, "achieved")
    BY <1>4 DEF Goal!Decide
  <2>2. q.met = TRUE
    BY <1>4 DEF Goal!Recorded, Tallies
  <2> QED
    BY <1>0, <1>1, <1>3, <2>1, <2>2 DEF Justified, Outcome
<1>5. CASE v # Goal!Met /\ giveUp
  <2>1. n = Goal!Finish(g, "unachievable")
    BY <1>5 DEF Goal!Decide
  <2>2. q.met = r.met /\ q.gaveUp
    BY <1>5 DEF Goal!Recorded, Tallies
  <2> QED
    BY <1>0, <1>1, <1>3, <2>1, <2>2 DEF Justified, Tally, Outcome
<1>6. CASE v # Goal!Met /\ ~giveUp
  <2>1. n = IF c.iteration >= c.max THEN Goal!Finish(c, "exhausted")
            ELSE IF c.streak >= NoProgressLimit THEN Goal!Finish(c, "unachievable") ELSE c
    BY <1>6 DEF Goal!Decide, c
  <2>2. /\ q.met = r.met /\ q.last = v /\ q.unmet = Goal!Saturated(r.unmet)
        /\ q.same = IF r.unmet > 0 /\ v = r.last THEN Goal!Saturated(r.same) ELSE 1
    BY <1>6 DEF Goal!Recorded, Tallies
  <2>3. Tally(g, r) => q.unmet = g.iteration + 1
    BY <1>0, <2>2 DEF Tally, Goal!Saturated
  <2>4. Tally(g, r) => c.streak <= q.same /\ c.streak <= c.iteration
    BY <1>0, <1>2, <1>6, <2>2 DEF Tally, Goal!Saturated
  <2>5. Tally(g, r) => Justified(n, q, TRUE)
    <3>1. CASE c.iteration >= c.max
      BY <1>0, <1>2, <1>3, <1>6, <2>1, <2>2, <2>3, <3>1 DEF Tally, Justified, Outcome
    <3>2. CASE ~(c.iteration >= c.max) /\ c.streak >= NoProgressLimit
      <4>1. n.status = "unachievable"
        BY <1>2, <1>3, <1>6, <2>1, <3>2 DEF Outcome
      <4>2. Tally(g, r) => q.same >= NoProgressLimit
        BY <1>0, <1>1, <1>2, <1>6, <2>4, <3>2 DEF Tallies
      <4> QED
        BY <2>2, <4>1, <4>2 DEF Tally, Justified
    <3>3. CASE ~(c.iteration >= c.max) /\ ~(c.streak >= NoProgressLimit)
      BY <1>0, <1>2, <1>6, <2>1, <2>2, <2>3, <2>4, <3>3 DEF Tally, Justified
    <3> QED
      BY <3>1, <3>2, <3>3
  <2>6. n \in GoalRecord /\ n.id = g.id /\ n.max = g.max /\ n.iteration = g.iteration + 1
        /\ n.status \in {"active", "exhausted", "unachievable"}
    BY <1>2, <1>3, <1>6, <2>1 DEF Outcome
  <2> QED
    <3>1. n.iteration >= g.iteration
      BY <1>0, <2>6
    <3>2. (n.status = "achieved" => q.met) /\ n.status # "none" /\ (r.met => q.met)
      BY <2>2, <2>6
    <3> HIDE DEF n, q
    <3>3. QED
      BY <1>1, <2>5, <2>6, <3>1, <3>2 DEF n, q
<1> QED
  BY <1>4, <1>5, <1>6

\* A turn that goes idle disturbs nothing.
LEMMA GoalEnd ==
  ASSUME GoalInv, NEW t \in Turns, Goal!End(t), UNCHANGED <<goal, sets, record, retired, spoiled>>,
         stalled' \subseteq [id : GoalIds, max : Nat, alone : BOOLEAN], Goal!CapIsSlack'
  PROVE  GoalInv'
<1> USE DEF GoalInv
<1>1. turn' = [turn EXCEPT ![t] = Goal!Idle] /\ Goal!Idle \in TurnRecord
  BY NoGoalType DEF Goal!End
<1>2. Goal!Idle.pc = "idle" /\ Goal!Idle.guard = 0 /\ Goal!Idle.drove = {}
  BY DEF Goal!Idle
<1>3. GoalType'
  BY <1>1 DEF GoalType
<1>4. GoalNames'
  BY <1>1, <1>2 DEF GoalNames, GoalType, Named
<1>5. \A u \in Turns : Spent(u)'
  BY <1>1, <1>2 DEF Spent, GoalType, Wrong
<1> QED
  BY <1>3, <1>4, <1>5 DEF Wrong

LEMMA GoalSet ==
  ASSUME GoalInv, NEW b \in Budgets, Goal!SetGoal(b)
  PROVE  GoalInv' /\ (goal'.id # goal.id \/ goal' = goal)
<1> USE GoalNumbers DEF GoalInv
<1> DEFINE n == [Goal!NoGoal EXCEPT !.id = sets + 1, !.status = "active", !.max = Goal!Budget(b)]
<1>1. /\ sets \in Nat /\ sets < MaxGoals /\ sets' = sets + 1 /\ sets' \in 0..MaxGoals /\ sets' \in GoalIds
      /\ turn' = turn /\ record' = record /\ stalled' = stalled
  BY DEF Goal!SetGoal, GoalType, GoalIds
<1>2. /\ n \in GoalRecord /\ n.id = sets' /\ n.status = "active" /\ n.iteration = 0 /\ n.streak = 0
      /\ n.max \in 1..MaxCount
  <2>1. Goal!Budget(b) \in 1..MaxCount /\ Goal!Budget(b) \in Nat
    BY DEF Goal!Budget
  <2>2. Goal!NoGoal \in GoalRecord /\ Goal!NoGoal.iteration = 0 /\ Goal!NoGoal.streak = 0
    BY NoGoalType DEF Goal!NoGoal
  <2>3. sets + 1 \in 0..MaxGoals
    BY <1>1
  <2> QED
    BY <1>1, <2>1, <2>2, <2>3 DEF GoalRecord
<1>3. CASE goal' = n /\ retired' = retired \union ({goal.id} \cap Goal!Ids) /\ spoiled' = spoiled
  <2> HIDE DEF n
  <2>1. GoalType'
    BY <1>1, <1>2, <1>3 DEF GoalType, Goal!Ids, GoalIds
  <2>2. 1..sets \subseteq 1..sets' /\ sets' \notin 1..sets
    BY <1>1
  <2>3. goal'.id # goal.id /\ sets' \notin spoiled
    <3>1. goal.status = "none" => goal.id = 0
      BY DEF GoalNames, Goal!NoGoal
    <3>2. goal.id # sets'
      BY <1>1, <2>2, <3>1 DEF GoalNames, Named
    <3> QED
      BY <1>2, <1>3, <2>2, <3>2 DEF GoalNames
  <2>4. GoalNames'
    <3>1. goal'.id \in 1..sets' /\ goal'.max \in 1..MaxCount
      BY <1>1, <1>2, <1>3
    <3>2. \A g : Named(g) => Named(g)'
      BY <1>1, <2>2 DEF Named
    <3>3. \A i \in GoalIds : i > sets' => record'[i] = Goal!NoRecord
      BY <1>1 DEF GoalNames, GoalIds
    <3> QED
      BY <1>1, <1>2, <1>3, <2>2, <3>1, <3>2, <3>3 DEF GoalNames, Named
  <2>5. record[sets'] = Goal!NoRecord
    BY <1>1 DEF GoalNames
  <2>6. Justified(goal', record'[goal'.id], TRUE)
    BY <1>1, <1>2, <1>3, <2>5 DEF Justified, Tally, Goal!NoRecord
  <2>7. ASSUME NEW t \in Turns PROVE Spent(t)'
    <3>1. turn[t].drove \subseteq {sets'} => turn[t].guard = 0
      BY <2>2 DEF GoalNames
    <3> QED
      BY <1>1, <1>2, <1>3, <3>1 DEF Spent
  <2>8. Goal!CapIsSlack'
    BY <1>1, <1>3 DEF Goal!CapIsSlack, Goal!Sound
  <2> QED
    BY <1>2, <1>3, <2>1, <2>3, <2>4, <2>6, <2>7, <2>8 DEF Justified, Wrong
<1>4. CASE spoiled' = spoiled \union {sets + 1} /\ UNCHANGED <<goal, retired>>
  <2>1. GoalType'
    BY <1>1, <1>4 DEF GoalType
  <2>2. 1..sets \subseteq 1..sets' /\ sets' \in 1..sets' /\ sets' \notin 1..sets
    BY <1>1
  <2>3. GoalNames'
    <3>1. \A g : Named(g) => Named(g)'
      BY <1>1, <2>2 DEF Named
    <3>2. \A i \in GoalIds : i > sets' => record'[i] = Goal!NoRecord
      BY <1>1 DEF GoalNames, GoalIds
    <3> QED
      BY <1>1, <1>4, <2>2, <3>1, <3>2 DEF GoalNames
  <2>4. goal.id # sets'
    <3>1. goal.status = "none" => goal.id = 0
      BY DEF GoalNames, Goal!NoGoal
    <3> QED
      BY <1>1, <2>2, <3>1 DEF GoalNames, Named
  <2>5. Wrong(goal.id)' <=> Wrong(goal.id)
    BY <1>1, <1>4, <2>4 DEF Wrong
  <2>6. \A t \in Turns : Spent(t)'
    BY <1>1, <1>4, <2>5 DEF Spent, Wrong
  <2>7. Goal!CapIsSlack'
    BY <1>1, <1>4 DEF Goal!CapIsSlack, Goal!Sound
  <2> QED
    BY <1>1, <1>4, <2>1, <2>3, <2>5, <2>6, <2>7 DEF Wrong
<1> QED
  BY <1>3, <1>4 DEF Goal!SetGoal

LEMMA GoalCleared ==
  ASSUME GoalInv, Goal!ClearGoal
  PROVE  GoalInv' /\ goal'.id = 0
<1> USE GoalNumbers DEF GoalInv
<1>1. /\ goal' = Goal!NoGoal /\ turn' = turn /\ sets' = sets /\ record' = record /\ spoiled' = spoiled
      /\ stalled' = stalled /\ retired' = retired \union {goal.id} /\ goal # Goal!NoGoal
  BY DEF Goal!ClearGoal
<1>2. goal'.id = 0 /\ goal'.status = "none" /\ goal' \in GoalRecord /\ 0 \notin GoalIds
  BY <1>1, NoGoalType DEF Goal!NoGoal, GoalIds
<1>3. goal.id \in GoalIds
  <2>1. goal.id \in 1..sets /\ sets \in 0..MaxGoals
    BY <1>1 DEF GoalNames, Named, GoalType
  <2> QED
    BY <2>1 DEF GoalIds
<1>4. GoalType'
  BY <1>1, <1>2, <1>3 DEF GoalType
<1>5. GoalNames'
  BY <1>1, <1>2 DEF GoalNames, Named
<1>6. \A t \in Turns : Spent(t)'
  BY <1>2 DEF Spent
<1>7. Goal!CapIsSlack'
  BY <1>1 DEF Goal!CapIsSlack, Goal!Sound
<1> QED
  BY <1>2, <1>4, <1>5, <1>6, <1>7

LEMMA GoalStart ==
  ASSUME GoalInv, NEW t \in Turns, Goal!Start(t)
  PROVE  GoalInv'
<1> USE GoalNumbers DEF GoalInv
<1> DEFINE n == [Goal!Idle EXCEPT !.pc = "model"]
<1>1. turn' = [turn EXCEPT ![t] = n] /\ UNCHANGED <<goal, sets, record, retired, spoiled, stalled>>
  BY DEF Goal!Start, Goal!history
<1>2. n \in TurnRecord /\ n.pc = "model" /\ n.guard = 0 /\ n.drove = {}
  <2>1. Goal!Idle \in TurnRecord /\ Goal!Idle.guard = 0 /\ Goal!Idle.drove = {}
    BY NoGoalType DEF Goal!Idle
  <2> QED
    BY <2>1 DEF TurnRecord
<1> HIDE DEF n
<1>3. GoalType'
  BY <1>1, <1>2 DEF GoalType
<1>4. GoalNames'
  BY <1>1, <1>2 DEF GoalNames, GoalType, Named
<1>5. \A u \in Turns : Spent(u)'
  BY <1>1, <1>2 DEF Spent, GoalType, Wrong, GoalRecord
<1>6. Goal!CapIsSlack'
  BY <1>1 DEF Goal!CapIsSlack, Goal!Sound
<1> QED
  BY <1>1, <1>3, <1>4, <1>5, <1>6 DEF Wrong

LEMMA GoalVerify ==
  ASSUME GoalInv, NEW t \in Turns, Goal!Verify(t)
  PROVE  GoalInv'
<1> USE GoalNumbers DEF GoalInv
<1> DEFINE n == [turn[t] EXCEPT !.pc = "verify", !.guard = @ + 1, !.held = goal,
                                !.drove = @ \union {goal.id}]
<1>1. /\ turn' = [turn EXCEPT ![t] = n] /\ UNCHANGED <<goal, sets, record, retired, spoiled, stalled>>
      /\ turn[t].pc = "model" /\ turn[t].guard < Goal!HardCap /\ goal.status = "active"
  BY DEF Goal!Verify, Goal!history, Goal!ActiveGoal
<1>2. goal.id \in GoalIds /\ goal.id \in 1..sets /\ goal.max \in 1..MaxCount
  <2>1. goal.id \in 1..sets /\ goal.max \in 1..MaxCount /\ sets \in 0..MaxGoals
    BY <1>1 DEF GoalNames, Named, GoalType
  <2> QED
    BY <2>1 DEF GoalIds
<1>3. /\ n \in TurnRecord /\ n.pc = "verify" /\ n.guard = turn[t].guard + 1 /\ n.held = goal
      /\ n.drove = turn[t].drove \union {goal.id}
  <2>1. turn[t] \in TurnRecord /\ goal \in GoalRecord
    BY DEF GoalType
  <2>2. turn[t].guard + 1 \in 0..Goal!HardCap
    BY <1>1, <2>1 DEF TurnRecord
  <2> QED
    BY <1>2, <2>1, <2>2 DEF TurnRecord
<1> HIDE DEF n
<1>4. GoalType'
  BY <1>1, <1>3 DEF GoalType
<1>5. GoalNames'
  BY <1>1, <1>2, <1>3 DEF GoalNames, GoalType, Named
<1>6. ASSUME NEW u \in Turns PROVE Spent(u)'
  <2>1. CASE u = t
    <3>1. turn'[u] = n
      BY <1>1, <2>1 DEF GoalType
    <3>2. ~Wrong(goal.id) /\ n.drove \subseteq {goal.id} => turn[t].guard <= goal.iteration
      BY <1>1, <1>2, <1>3 DEF Spent
    <3>3. goal.iteration \in Nat /\ turn[t].guard \in Nat
      BY DEF GoalType, GoalRecord, TurnRecord
    <3> QED
      BY <1>1, <1>3, <3>1, <3>2, <3>3 DEF Spent, Wrong
  <2>2. CASE u # t
    BY <1>1, <2>2 DEF Spent, GoalType, Wrong
  <2> QED
    BY <2>1, <2>2
<1>7. Goal!CapIsSlack'
  BY <1>1 DEF Goal!CapIsSlack, Goal!Sound
<1> QED
  BY <1>1, <1>4, <1>5, <1>6, <1>7 DEF Wrong

LEMMA GoalStop ==
  ASSUME GoalInv, NEW t \in Turns, Goal!StopAtCap(t)
  PROVE  GoalInv'
<1> USE GoalNumbers DEF GoalInv
<1> DEFINE s == [id |-> goal.id, max |-> goal.max, alone |-> turn[t].drove = {goal.id}]
<1>1. /\ turn[t].pc = "model" /\ turn[t].guard = Default + 2
      /\ Goal!End(t) /\ UNCHANGED <<goal, sets, record, retired, spoiled>>
      /\ \/ stalled' = stalled
         \/ goal.status = "active" /\ stalled' = stalled \union {s}
  BY DEF Goal!StopAtCap, Goal!ActiveGoal
<1>2. ASSUME goal.status = "active"
      PROVE  /\ s \in [id : GoalIds, max : Nat, alone : BOOLEAN]
             /\ Goal!Sound(s.id) => s.max > Default + 2 \/ ~s.alone
  <2>1. goal.id \in GoalIds /\ goal.id \in 1..sets /\ goal.max \in 1..MaxCount
    <3>1. goal.id \in 1..sets /\ goal.max \in 1..MaxCount /\ sets \in 0..MaxGoals
      BY <1>2 DEF GoalNames, Named, GoalType
    <3> QED
      BY <3>1 DEF GoalIds
  <2>2. ASSUME goal.id \notin spoiled, turn[t].drove = {goal.id} PROVE goal.max > Default + 2
    <3>1. turn[t].guard <= goal.iteration
      BY <1>1, <2>1, <2>2 DEF Spent, Wrong
    <3>2. Tally(goal, record[goal.id])
      BY <1>2, <2>1, <2>2 DEF Justified, Wrong
    <3>3. goal.iteration \in Nat /\ record[goal.id].unmet \in Nat
      BY <2>1 DEF GoalType, GoalRecord, Tallies
    <3> QED
      BY <1>1, <2>1, <3>1, <3>2, <3>3 DEF Tally
  <2>3. /\ s.id = goal.id /\ s.max = goal.max /\ (s.alone <=> turn[t].drove = {goal.id})
        /\ s \in [id : GoalIds, max : Nat, alone : BOOLEAN]
    <3>1. goal.max \in Nat
      BY DEF GoalType, GoalRecord
    <3> QED
      BY <2>1, <3>1
  <2> HIDE DEF s
  <2> QED
    BY <2>2, <2>3 DEF Goal!Sound
<1>3. stalled' \subseteq [id : GoalIds, max : Nat, alone : BOOLEAN] /\ Goal!CapIsSlack'
  <2> HIDE DEF s
  <2> QED
    BY <1>1, <1>2 DEF Goal!CapIsSlack, Goal!Sound, GoalType
<1> QED
  BY <1>1, <1>3, GoalEnd

LEMMA GoalJudged ==
  ASSUME GoalInv, NEW t \in Turns, NEW v \in Evidence \union {Goal!Met}, NEW giveUp \in BOOLEAN,
         NEW ok \in BOOLEAN, Goal!Verdict(t, v, giveUp, ok)
  PROVE  /\ GoalInv'
         /\ goal.status \in Outcome /\ goal'.id = goal.id => goal' = goal \/ goal.id \in spoiled'
<1> USE GoalNumbers DEF GoalInv
<1> DEFINE held == turn[t].held
           i == held.id
           n == Goal!Decide(held, v, giveUp)
           heard == [record EXCEPT ![i] = Goal!Recorded(@, v, giveUp)]
           new == IF n.status \in Outcome THEN Goal!Idle
                  ELSE [turn[t] EXCEPT !.pc = "model", !.held = Goal!NoGoal]
<1>1. /\ turn[t].pc = "verify"
      /\ goal' = IF ok THEN n ELSE goal
      /\ turn' = [turn EXCEPT ![t] = new]
      /\ spoiled' = spoiled \union (IF ok /\ goal = held THEN {} ELSE {i, goal.id} \cap GoalIds)
      /\ record' = [j \in GoalIds |-> IF j \in spoiled' THEN Goal!Spoil(heard[j]) ELSE heard[j]]
      /\ UNCHANGED <<sets, retired, stalled>>
  BY DEF Goal!Verdict, Goal!Ids, GoalIds, Outcome, Goal!Terminal
<1>2. /\ held \in GoalRecord /\ held.status = "active" /\ i \in GoalIds /\ i \in 1..sets
      /\ held.max \in 1..MaxCount /\ i \in turn[t].drove /\ turn[t] \in TurnRecord /\ sets \in Nat
      /\ goal \in GoalRecord
  <2>1. /\ turn[t] \in TurnRecord /\ held \in GoalRecord /\ sets \in 0..MaxGoals /\ goal \in GoalRecord
    BY DEF GoalType, TurnRecord
  <2>2. held.status = "active" /\ i \in 1..sets /\ held.max \in 1..MaxCount /\ i \in turn[t].drove
    BY <1>1 DEF GoalNames, Named
  <2> QED
    BY <2>1, <2>2 DEF GoalIds
<1> HIDE DEF held
<1>3. /\ n \in GoalRecord /\ Goal!Recorded(record[i], v, giveUp) \in Tallies
      /\ n.id = i /\ n.max = held.max /\ n.status # "none"
      /\ n.iteration >= held.iteration
      /\ n.status = "active" => n.iteration = held.iteration + 1
      /\ record[i].met => Goal!Recorded(record[i], v, giveUp).met
      /\ n.status = "achieved" => Goal!Recorded(record[i], v, giveUp).met
      /\ Tally(held, record[i]) => Justified(n, Goal!Recorded(record[i], v, giveUp), TRUE)
  <2>1. record[i] \in Tallies
    BY <1>2 DEF GoalType
  <2> QED
    BY <1>2, <2>1, DecideKeeps
<1> HIDE DEF n
<1>4. /\ heard \in [GoalIds -> Tallies]
      /\ \A j \in GoalIds : heard[j] = IF j = i THEN Goal!Recorded(record[i], v, giveUp) ELSE record[j]
  BY <1>2, <1>3 DEF GoalType
<1> HIDE DEF heard
<1>5. /\ record' \in [GoalIds -> Tallies]
      /\ \A j \in GoalIds : j \notin spoiled' => record'[j] = heard[j]
      /\ \A j \in GoalIds : record'[j].met = heard[j].met
  <2>1. \A r \in Tallies : Goal!Spoil(r) \in Tallies /\ Goal!Spoil(r).met = r.met
    BY NoGoalType DEF Goal!Spoil, Tallies
  <2> QED
    BY <1>1, <1>4, <2>1
<1>6. /\ new \in TurnRecord
      /\ new = Goal!Idle \/ (/\ n.status = "active" /\ new.pc = "model"
                             /\ new.guard = turn[t].guard /\ new.drove = turn[t].drove)
      /\ new.pc # "verify"
  <2>1. Goal!Idle \in TurnRecord /\ Goal!Idle.pc = "idle" /\ Goal!NoGoal \in GoalRecord
    BY NoGoalType DEF Goal!Idle
  <2>2. n.status \in Outcome \/ n.status = "active"
    BY <1>3 DEF GoalRecord, Outcome
  <2>3. [turn[t] EXCEPT !.pc = "model", !.held = Goal!NoGoal] \in TurnRecord
    BY <1>2, <2>1 DEF TurnRecord
  <2> QED
    BY <1>2, <2>1, <2>2, <2>3 DEF Outcome, TurnRecord
<1> HIDE DEF new
<1>7. Goal!Idle.pc = "idle" /\ Goal!Idle.guard = 0 /\ Goal!Idle.drove = {}
  BY DEF Goal!Idle
<1>8. GoalType'
  BY <1>1, <1>2, <1>3, <1>5, <1>6 DEF GoalType
<1>9. GoalNames'
  <2>1. goal'.status = "none" => goal' = Goal!NoGoal
    BY <1>1, <1>3 DEF GoalNames
  <2>2. goal'.status # "none" => goal'.id \in 1..sets' /\ goal'.max \in 1..MaxCount
    BY <1>1, <1>2, <1>3 DEF GoalNames, Named
  <2>3. spoiled' \subseteq 1..sets'
    <3>1. goal.id \in GoalIds => goal.id \in 1..sets
      BY DEF GoalNames, Named, Goal!NoGoal, GoalIds
    <3> QED
      BY <1>1, <1>2, <3>1 DEF GoalNames
  <2>4. ASSUME NEW j \in GoalIds, j > sets' PROVE record'[j] = Goal!NoRecord
    <3>1. j \notin 1..sets' /\ j # i
      BY <1>1, <1>2, <2>4
    <3> QED
      BY <1>1, <1>4, <1>5, <2>3, <2>4, <3>1 DEF GoalNames
  <2>5. ASSUME NEW u \in Turns
        PROVE  /\ turn'[u].drove \subseteq 1..sets'
               /\ turn'[u].drove = {} => turn'[u].guard = 0
               /\ turn'[u].pc = "verify" =>
                    /\ turn'[u].held.status = "active"
                    /\ turn'[u].held.id \in 1..sets' /\ turn'[u].held.max \in 1..MaxCount
                    /\ turn'[u].held.id \in turn'[u].drove
    <3>1. CASE u = t
      BY <1>1, <1>6, <1>7, <3>1 DEF GoalNames, GoalType
    <3>2. CASE u # t
      BY <1>1, <3>2 DEF GoalNames, GoalType, Named
    <3> QED
      BY <3>1, <3>2
  <2> QED
    BY <2>1, <2>2, <2>3, <2>4, <2>5 DEF GoalNames, Named
\* A goal that stays sound was decided on as it stands in the file.
<1>10. ASSUME goal'.id \in GoalIds, goal'.id \notin spoiled'
       PROVE  \/ ok /\ goal = held /\ goal' = n
              \/ goal' = goal /\ goal.id # i
  BY <1>1, <1>2, <1>3, <1>10
<1>11. goal'.id \in GoalIds => Justified(goal', record'[goal'.id], goal'.id \notin spoiled')
  <2> SUFFICES ASSUME goal'.id \in GoalIds
               PROVE  Justified(goal', record'[goal'.id], goal'.id \notin spoiled')
    OBVIOUS
  <2>1. CASE goal'.id \in spoiled'
    <3>1. goal'.status = "achieved" => record'[goal'.id].met
      <4>1. CASE goal' = n
        BY <1>3, <1>4, <1>5, <4>1
      <4>2. CASE goal' = goal
        <5>1. goal.status = "achieved" => record[goal.id].met
          BY <4>2 DEF Justified, Wrong
        <5> QED
          BY <1>3, <1>4, <1>5, <4>2, <5>1
      <4> QED
        BY <1>1, <4>1, <4>2
    <3> QED
      BY <2>1, <3>1 DEF Justified
  <2>2. CASE goal'.id \notin spoiled'
    <3>1. goal'.id \notin spoiled' /\ goal'.id \notin spoiled
      BY <1>1, <2>2 DEF Wrong
    <3>2. CASE ok /\ goal = held /\ goal' = n
      <4>1. Tally(held, record[i])
        BY <1>2, <1>3, <3>1, <3>2 DEF Justified, Wrong
      <4>2. record'[goal'.id] = Goal!Recorded(record[i], v, giveUp)
        BY <1>2, <1>3, <1>4, <1>5, <3>1, <3>2
      <4> QED
        BY <1>3, <2>2, <3>2, <4>1, <4>2 DEF Justified
    <3>3. CASE goal' = goal /\ goal.id # i
      <4>1. record'[goal'.id] = record[goal.id]
        BY <1>4, <1>5, <3>1, <3>3
      <4> QED
        BY <2>2, <3>1, <3>3, <4>1 DEF Justified, Wrong
    <3> QED
      BY <1>10, <3>1, <3>2, <3>3
  <2> QED
    BY <2>1, <2>2
<1>12. ASSUME NEW u \in Turns PROVE Spent(u)'
  <2> SUFFICES ASSUME goal'.id \in GoalIds, goal'.id \notin spoiled', turn'[u].drove \subseteq {goal'.id}
               PROVE  /\ turn'[u].pc = "model" => turn'[u].guard <= goal'.iteration
                      /\ turn'[u].pc = "verify" => turn'[u].guard <= goal'.iteration + 1
    BY DEF Spent, Wrong
  <2>1. goal'.id \notin spoiled
    BY <1>1
  <2>2. goal.iteration \in Nat /\ n.iteration \in Nat /\ turn[u].guard \in Nat /\ turn[t].guard \in Nat
    BY <1>2, <1>3 DEF GoalType, GoalRecord, TurnRecord
  <2>3. CASE u = t
    <3>1. turn'[u] = new
      BY <1>1, <2>3 DEF GoalType
    <3>2. CASE new = Goal!Idle
      BY <1>7, <3>1, <3>2
    <3>3. CASE new # Goal!Idle
      <4>1. n.status = "active" /\ new.pc = "model" /\ new.guard = turn[t].guard /\ new.drove = turn[t].drove
        BY <1>6, <3>3
      <4>2. goal'.id = i
        BY <1>2, <3>1, <4>1
      <4>3. goal = held /\ goal' = n
        BY <1>10, <4>2
      <4>4. turn[t].guard <= goal.iteration + 1
        BY <1>1, <1>2, <2>1, <3>1, <4>1, <4>2, <4>3 DEF Spent, Wrong
      <4> QED
        BY <1>3, <2>2, <3>1, <4>1, <4>3, <4>4
    <3> QED
      BY <3>2, <3>3
  <2>4. CASE u # t
    <3>1. turn'[u] = turn[u]
      BY <1>1, <2>4 DEF GoalType
    <3>2. goal.id = goal'.id /\ goal'.iteration >= goal.iteration
      BY <1>3, <1>10, <2>2
    <3>3. /\ turn[u].pc = "model" => turn[u].guard <= goal.iteration
          /\ turn[u].pc = "verify" => turn[u].guard <= goal.iteration + 1
      BY <2>1, <3>1, <3>2 DEF Spent, Wrong
    <3>4. goal'.iteration \in Nat
      BY <1>8 DEF GoalType, GoalRecord
    <3> QED
      BY <2>2, <3>1, <3>2, <3>3, <3>4
  <2> QED
    BY <2>3, <2>4
<1>13. Goal!CapIsSlack'
  BY <1>1 DEF Goal!CapIsSlack, Goal!Sound
<1>14. goal.status \in Outcome /\ goal'.id = goal.id => goal' = goal \/ goal.id \in spoiled'
  <2> SUFFICES ASSUME goal.status \in Outcome, goal'.id = goal.id, goal' # goal PROVE goal.id \in spoiled'
    OBVIOUS
  <2>1. goal # held /\ ok /\ goal' = n
    BY <1>1, <1>2 DEF Outcome
  <2> QED
    BY <1>1, <1>2, <1>3, <2>1
<1> QED
  BY <1>8, <1>9, <1>11, <1>12, <1>13, <1>14 DEF Wrong

LEMMA GoalInvInit == Goal!Init => GoalInv
<1> SUFFICES ASSUME Goal!Init PROVE GoalInv
  OBVIOUS
<1> USE GoalNumbers, NoGoalType DEF Goal!Init
<1>1. /\ goal.id = 0 /\ goal.status = "none" /\ 0 \notin GoalIds
      /\ \A t \in Turns : turn[t] = Goal!Idle
      /\ Goal!Idle.pc = "idle" /\ Goal!Idle.guard = 0 /\ Goal!Idle.drove = {}
  BY DEF Goal!NoGoal, Goal!Idle, GoalIds
<1>2. GoalType
  BY DEF GoalType, Goal!Ids, GoalIds
<1>3. GoalNames
  BY <1>1 DEF GoalNames, Goal!Ids, GoalIds
<1>4. \A t \in Turns : Spent(t)
  BY <1>1 DEF Spent
<1>5. Goal!CapIsSlack
  BY DEF Goal!CapIsSlack
<1> QED
  BY <1>1, <1>2, <1>3, <1>4, <1>5 DEF GoalInv

LEMMA GoalInvStep ==
  ASSUME GoalInv, [Goal!Next]_goalVars
  PROVE  /\ GoalInv'
         /\ goal.status \in Outcome /\ goal'.id = goal.id => goal' = goal \/ goal.id \in spoiled'
<1> DEFINE Kept == goal.status \in Outcome /\ goal'.id = goal.id => goal' = goal \/ goal.id \in spoiled'
<1> USE DEF Goal!history
<1>1. ASSUME NEW b \in Budgets, Goal!SetGoal(b) PROVE GoalInv' /\ Kept
  BY <1>1, GoalSet
<1>2. ASSUME Goal!ClearGoal PROVE GoalInv' /\ Kept
  <2>1. goal.status \in Outcome => goal.id # 0
    BY DEF GoalInv, GoalNames, Named, Outcome
  <2> QED
    BY <1>2, <2>1, GoalCleared
<1>3. ASSUME NEW t \in Turns, Goal!Start(t) PROVE GoalInv' /\ Kept
  BY <1>3, GoalStart DEF Goal!Start
<1>4. ASSUME NEW t \in Turns, Goal!PauseOrFail(t) \/ Goal!Answer(t) \/ Goal!VerifierFails(t)
      PROVE  GoalInv' /\ Kept
  <2>1. Goal!End(t) /\ UNCHANGED <<goal, sets, record, retired, spoiled, stalled>>
    BY <1>4 DEF Goal!PauseOrFail, Goal!Answer, Goal!VerifierFails
  <2>2. stalled' \subseteq [id : GoalIds, max : Nat, alone : BOOLEAN] /\ Goal!CapIsSlack'
    BY <2>1 DEF GoalInv, GoalType, Goal!CapIsSlack, Goal!Sound
  <2> QED
    BY <2>1, <2>2, GoalEnd
<1>5. ASSUME NEW t \in Turns, Goal!Verify(t) PROVE GoalInv' /\ Kept
  BY <1>5, GoalVerify DEF Goal!Verify
<1>6. ASSUME NEW t \in Turns, Goal!StopAtCap(t) PROVE GoalInv' /\ Kept
  BY <1>6, GoalStop DEF Goal!StopAtCap
<1>7. ASSUME NEW t \in Turns, Goal!Judge(t) PROVE GoalInv' /\ Kept
  BY <1>7, GoalJudged DEF Goal!Judge
<1>8. ASSUME Goal!Restart PROVE GoalInv' /\ Kept
  <2>1. /\ UNCHANGED <<goal, sets, record, retired, spoiled, stalled>>
        /\ turn' = [t \in Turns |-> Goal!Idle]
    BY <1>8 DEF Goal!Restart
  <2>2. Goal!Idle.pc = "idle" /\ Goal!Idle.guard = 0 /\ Goal!Idle.drove = {} /\ Goal!Idle \in TurnRecord
    BY NoGoalType DEF Goal!Idle
  <2>3. GoalType'
    BY <2>1, <2>2 DEF GoalInv, GoalType
  <2>4. GoalNames'
    BY <2>1, <2>2 DEF GoalInv, GoalNames, Named
  <2>5. \A t \in Turns : Spent(t)'
    BY <2>1, <2>2 DEF Spent
  <2>6. Goal!CapIsSlack'
    BY <2>1 DEF GoalInv, Goal!CapIsSlack, Goal!Sound
  <2> QED
    BY <2>1, <2>3, <2>4, <2>5, <2>6 DEF GoalInv, Wrong
<1>9. ASSUME UNCHANGED goalVars PROVE GoalInv' /\ Kept
  <2>1. UNCHANGED <<goal, turn, sets, record, retired, spoiled, stalled>>
    BY <1>9 DEF goalVars
  <2> QED
    BY <2>1 DEF GoalInv, GoalType, GoalNames, Named, Spent, Wrong, Goal!CapIsSlack, Goal!Sound
<1> QED
  BY <1>1, <1>2, <1>3, <1>4, <1>5, <1>6, <1>7, <1>8, <1>9 DEF Goal!Next, Goal!Run

LEMMA GoalInvGrounded == GoalInv => Goal!Grounded
<1> SUFFICES ASSUME GoalInv PROVE Goal!Accounted /\ Goal!OutcomeGrounded
  BY DEF Goal!Grounded, GoalInv
<1>1. goal.status # "none" => goal.id \in GoalIds
  <2>1. goal.status # "none" => goal.id \in 1..sets /\ sets \in 0..MaxGoals
    BY DEF GoalInv, GoalNames, Named, GoalType
  <2> QED
    BY <2>1, GoalNumbers DEF GoalIds
<1>2. goal.id \in GoalIds => Justified(goal, record[goal.id], goal.id \notin spoiled)
  BY DEF GoalInv, Wrong
<1> QED
  BY <1>1, <1>2 DEF Goal!Accounted, Goal!OutcomeGrounded, Goal!Sound, Justified, Tally, Goal!Ids, GoalIds

\* For any budgets and any number of turns on the same goal file (controller.py,
\* store.py): the iterations of the goal are the unmet verdicts it got, an outcome
\* is what the verifier said, and the hard cap stops no goal before its budget.
THEOREM GoalsAreGrounded == Spec => []Grounded
<1>1. Init => GoalInv
  BY GoalInvInit DEF Init
<1>2. GoalInv /\ [Next]_vars => GoalInv'
  BY GoalMoves, GoalInvStep
<1>3. GoalInv => Grounded
  BY GoalInvGrounded DEF Grounded
<1> QED
  BY <1>1, <1>2, <1>3, PTL DEF Spec

\* No verdict that comes late, no matter how many turns judge the goal, changes an
\* outcome in the file, save through a write that was lost or based on a stale read.
THEOREM GoalKeepsOutcome == Spec => OutcomeKept
<1>1. Init => GoalInv
  BY GoalInvInit DEF Init
<1>2. GoalInv /\ [Next]_vars => GoalInv'
  BY GoalMoves, GoalInvStep
<1>3. GoalInv /\ [Next]_vars =>
        [goal.status \in Goal!Terminal /\ goal'.id = goal.id =>
           goal' = goal \/ goal.id \in spoiled']_(Goal!vars)
  BY GoalMoves, GoalInvStep DEF Goal!Terminal, Outcome
<1> QED
  BY <1>1, <1>2, <1>3, PTL DEF Spec, OutcomeKept, Goal!OutcomeKept

-----------------------------------------------------------------------------
(* The steps of a workflow run: the engine's semaphore and its waves give what the *)
(* dependency graph promises, for every recipe. *)

\* The union's steps seen from the workflow run.
LEMMA FlowMoves == [Next]_vars => [Flow!Next]_flowVars
  BY DEF Next, vars, TaskStep, GoalStep, FlowStep

\* What the semaphore and the waves rest on: who holds a permit belongs to the wave
\* and has not answered, the wave's dependencies have, and so has whatever is done.
FlowInv ==
  /\ out = [s \in Labels |-> out[s]]
  /\ slot \subseteq wave \intersect Labels
  /\ \A s \in slot : out[s] = "none"
  /\ \A s \in wave : Flow!DepsOf(s) \subseteq done
  /\ \A s \in done \intersect Labels : out[s] # "none"

\* Each instance has its own copy of the operator.
LEMMA SameCardinality ==
  \A S : Flow!Cardinality(S) = Cardinality(S) /\ Flow!Dag!Cardinality(S) = Cardinality(S)
  BY DEF Cardinality, Flow!Cardinality, Flow!Dag!Cardinality

\* The mapping of WorkflowEngine's Dag, by its parts.
DagDeps == [s \in Labels |-> Flow!DepsOf(s) \intersect Labels]
DagFinished == {s \in Labels : out[s] # "none"}
DagStarted == slot \union DagFinished
DagVars == <<DagDeps, DagStarted, DagFinished>>

LEMMA FlowInit == Flow!Init => FlowInv /\ Flow!Dag!Init
<1> SUFFICES ASSUME Flow!Init PROVE FlowInv /\ Flow!Dag!Init
  OBVIOUS
<1>1. FlowInv
  BY DEF Flow!Init, FlowInv
<1>2. DagFinished = {} /\ DagStarted = {}
  BY DEF Flow!Init, DagFinished, DagStarted
<1>3. DagDeps \in [Labels -> SUBSET Labels]
  BY DEF DagDeps
<1> QED
  BY <1>1, <1>2, <1>3 DEF Flow!Dag!Init, DagFinished, DagStarted, DagDeps

\* The dependencies are the recipe's.
LEMMA SameDeps ==
  ASSUME recipe' = recipe
  PROVE  DagDeps' = DagDeps /\ \A s : Flow!DepsOf(s)' = Flow!DepsOf(s)
  BY DEF DagDeps, Flow!DepsOf, Flow!StepNo, Flow!StepIds, Flow!StepsOf

\* What finishes started before: the rest are the steps that hold the semaphore.
LEMMA SlotIsUnderWay ==
  ASSUME FlowInv
  PROVE  DagStarted \ DagFinished = slot /\ DagFinished \subseteq DagStarted
  BY DEF FlowInv, DagStarted, DagFinished

LEMMA FlowCall ==
  ASSUME FlowInv, Flow!Call
  PROVE  FlowInv' /\ UNCHANGED DagVars
<1>1. UNCHANGED <<recipe, wave, slot, out, done>>
  BY DEF Flow!Call
<1>2. FlowInv'
  BY <1>1, SameDeps DEF FlowInv
<1> QED
  BY <1>1, <1>2, SameDeps DEF DagVars, DagStarted, DagFinished

LEMMA FlowReturn ==
  ASSUME FlowInv, Flow!Return
  PROVE  FlowInv' /\ UNCHANGED DagVars
<1>1. UNCHANGED <<recipe, wave, slot, out, done>>
  BY DEF Flow!Return
<1>2. FlowInv'
  BY <1>1, SameDeps DEF FlowInv
<1> QED
  BY <1>1, <1>2, SameDeps DEF DagVars, DagStarted, DagFinished

\* Only steps whose dependencies are done enter the wave.
LEMMA FlowStartWave ==
  ASSUME FlowInv, Flow!StartWave
  PROVE  FlowInv' /\ UNCHANGED DagVars
<1>1. UNCHANGED <<recipe, slot, out, done>> /\ wave = {}
  BY DEF Flow!StartWave
<1>2. \A s \in wave' : Flow!DepsOf(s) \subseteq done
  BY DEF Flow!StartWave, Flow!Ready
<1>3. FlowInv'
  BY <1>1, <1>2, SameDeps DEF FlowInv
<1> QED
  BY <1>1, <1>3, SameDeps DEF DagVars, DagStarted, DagFinished

\* A permit is the start of a step of the graph: its dependencies have ended, and as
\* many steps are under way as hold the semaphore.
LEMMA FlowAcquire ==
  ASSUME FlowInv, NEW s \in Labels, Flow!Acquire(s)
  PROVE  FlowInv' /\ Flow!Dag!Start(s)
<1>1. /\ UNCHANGED <<recipe, wave, out, done>>
      /\ slot' = slot \union {s} /\ s \in wave \ slot /\ out[s] = "none"
      /\ Cardinality(slot) < MaxConcurrency
  BY SameCardinality DEF Flow!Acquire, Flow!Waiting
<1>2. FlowInv'
  BY <1>1, SameDeps DEF FlowInv
<1>3. s \notin DagStarted
  BY <1>1 DEF DagStarted, DagFinished
<1>4. DagDeps[s] \subseteq DagFinished
  BY <1>1 DEF DagDeps, DagFinished, FlowInv
<1>5. Cardinality(DagStarted \ DagFinished) < MaxConcurrency
  BY <1>1, SlotIsUnderWay
<1>6. DagFinished' = DagFinished /\ DagStarted' = DagStarted \union {s} /\ DagDeps' = DagDeps
  BY <1>1, SameDeps DEF DagStarted, DagFinished
<1> QED
  BY <1>2, <1>3, <1>4, <1>5, <1>6, SameCardinality DEF Flow!Dag!Start, DagStarted, DagFinished, DagDeps

\* An answer, or the error text that stands for one, gives the permit back.
LEMMA FlowFinish ==
  ASSUME FlowInv, NEW s \in Labels, Flow!Finish(s)
  PROVE  FlowInv' /\ Flow!Dag!Finish(s)
<1>1. PICK result \in {"ok", "error"} : out' = [out EXCEPT ![s] = result]
  BY DEF Flow!Finish
<1>2. UNCHANGED <<recipe, wave, done>> /\ s \in slot /\ slot' = slot \ {s} /\ out[s] = "none"
  BY DEF Flow!Finish, FlowInv
<1>3. out' = [q \in Labels |-> out'[q]] /\ out'[s] # "none" /\ \A q \in Labels \ {s} : out'[q] = out[q]
  <2>1. out = [q \in Labels |-> out[q]]
    BY DEF FlowInv
  <2> QED
    BY <1>1, <2>1
<1>4. FlowInv'
  BY <1>2, <1>3, SameDeps DEF FlowInv
<1>5. DagFinished' = DagFinished \union {s} /\ s \notin DagFinished
  BY <1>2, <1>3 DEF DagFinished
<1>6. DagStarted' = DagStarted /\ s \in DagStarted /\ DagDeps' = DagDeps
  BY <1>2, <1>5, SameDeps DEF DagStarted
<1> QED
  BY <1>4, <1>5, <1>6 DEF Flow!Dag!Finish, DagStarted, DagFinished, DagDeps

\* A wave ends when all of it has answered: no permit is left.
LEMMA FlowEndWave ==
  ASSUME FlowInv, Flow!EndWave
  PROVE  FlowInv' /\ UNCHANGED DagVars
<1>1. UNCHANGED <<recipe, slot, out>> /\ wave' = {} /\ done' = done \union wave
  BY DEF Flow!EndWave
<1>2. \A s \in wave : out[s] # "none"
  BY DEF Flow!EndWave, Flow!WaveOver
<1>3. FlowInv'
  BY <1>1, <1>2 DEF FlowInv
<1> QED
  BY <1>1, <1>3, SameDeps DEF DagVars, DagStarted, DagFinished

\* The steps under way end with the run.
LEMMA FlowCancel ==
  ASSUME FlowInv, Flow!Cancel
  PROVE  FlowInv' /\ Flow!Dag!Stop
<1>1. UNCHANGED <<recipe, done>> /\ wave' = {} /\ slot' = {}
  BY DEF Flow!Cancel
<1>2. out' = [s \in Labels |-> IF s \in slot THEN "stopped" ELSE out[s]]
  BY DEF Flow!Cancel
<1>3. FlowInv'
  BY <1>1, <1>2 DEF FlowInv
<1>4. DagFinished' = DagStarted
  BY <1>2 DEF DagFinished, DagStarted, FlowInv
<1>5. DagStarted' = DagStarted /\ DagDeps' = DagDeps
  BY <1>1, <1>4, SameDeps DEF DagStarted
<1> QED
  BY <1>3, <1>4, <1>5 DEF Flow!Dag!Stop, DagStarted, DagFinished, DagDeps

LEMMA FlowSimulates ==
  ASSUME FlowInv, [Flow!Next]_flowVars
  PROVE  FlowInv' /\ [Flow!Dag!Next]_DagVars
<1>1. CASE Flow!Call
  BY <1>1, FlowCall
<1>2. CASE Flow!Return
  BY <1>2, FlowReturn
<1>3. CASE Flow!StartWave
  BY <1>3, FlowStartWave
<1>4. CASE Flow!EndWave
  BY <1>4, FlowEndWave
<1>5. CASE Flow!Cancel
  BY <1>5, FlowCancel DEF Flow!Dag!Next
<1>6. ASSUME NEW s \in Labels, Flow!Acquire(s) PROVE FlowInv' /\ Flow!Dag!Next
  BY <1>6, FlowAcquire DEF Flow!Dag!Next
<1>7. ASSUME NEW s \in Labels, Flow!Finish(s) PROVE FlowInv' /\ Flow!Dag!Next
  BY <1>7, FlowFinish DEF Flow!Dag!Next
<1>8. CASE UNCHANGED flowVars
  <2>1. UNCHANGED <<recipe, wave, slot, out, done>>
    BY <1>8 DEF flowVars
  <2>2. FlowInv'
    BY <2>1, SameDeps DEF FlowInv
  <2> QED
    BY <2>1, <2>2, SameDeps DEF DagVars, DagStarted, DagFinished
<1> QED
  BY <1>1, <1>2, <1>3, <1>4, <1>5, <1>6, <1>7, <1>8 DEF Flow!Next, Flow!Ended, Flow!vars, flowVars

\* For every recipe and every width (graph/workflows/engine.py): a step's subagent is
\* called at most once, after all it depends on has ended, and no more than the limit
\* run at a time, whatever fails and whenever the turn that awaits the run is cancelled.
THEOREM WavesKeepTheDag == Spec => DagSpec
<1>1. Init => FlowInv /\ Flow!Dag!Init
  BY FlowInit DEF Init
<1>2. FlowInv /\ [Next]_vars => FlowInv' /\ [Flow!Dag!Next]_DagVars
  BY FlowMoves, FlowSimulates
<1>3. FlowInv /\ [Next]_vars =>
        [Flow!Dag!Next]_(<<[s \in Labels |-> Flow!DepsOf(s) \intersect Labels],
                          slot \union {s \in Labels : out[s] # "none"},
                          {s \in Labels : out[s] # "none"}>>)
  BY <1>2 DEF DagVars, DagDeps, DagStarted, DagFinished
<1> QED
  BY <1>1, <1>2, <1>3, PTL DEF Spec, DagSpec, Flow!DagSpec, Flow!Dag!Spec

-----------------------------------------------------------------------------
(* What the prompts hold *)

Size == Flow!Cardinality(Labels)

LEMMA SizeIsNatural == Size \in Nat
<1>1. IsFiniteSet(Labels)
  BY FlowAssumption DEF FlowAssumption, Flow!RecipeAssumption, IsFiniteSet, Flow!IsFiniteSet
<1> QED
  BY <1>1, FS_CardinalityType, SameCardinality DEF Size

\* The function that Upstream defines, up to k dependencies away.
Further(s, g, n) ==
  IF n = 0 THEN Flow!DepsOf(s) ELSE g[n - 1] \union UNION {Flow!DepsOf(q) : q \in g[n - 1]}
Reaches(s, g, k) == g = [n \in 0..k |-> Further(s, g, n)]

LEMMA ReachExists ==
  ASSUME NEW s, NEW k \in Nat
  PROVE  \E g : Reaches(s, g, k)
<1> DEFINE Bad == {n \in Nat : ~\E g : Reaches(s, g, n)}
<1> SUFFICES ASSUME Bad # {} PROVE FALSE
  OBVIOUS
<1>2. PICK n \in Bad : \A m \in Bad : n <= m
  <2>1. Bad \in SUBSET Nat /\ \E m : m \in Bad
    OBVIOUS
  <2> HIDE DEF Bad
  <2> QED
    BY <2>1, LeastMember
<1>3. n # 0
  <2>1. Reaches(s, [m \in 0..0 |-> Flow!DepsOf(s)], 0)
    BY DEF Reaches, Further
  <2> QED
    BY <2>1, <1>2
<1>4. n - 1 \in Nat /\ n - 1 \notin Bad
  BY <1>2, <1>3
<1>5. PICK g : Reaches(s, g, n - 1)
  BY <1>4
<1> DEFINE h == [m \in 0..n |-> IF m = n THEN Further(s, g, n) ELSE g[m]]
<1>6. \A m \in 0..n : h[m] = Further(s, h, m)
  <2> SUFFICES ASSUME NEW m \in 0..n PROVE h[m] = Further(s, h, m)
    OBVIOUS
  <2>1. m # 0 => h[m - 1] = g[m - 1]
    BY <1>4
  <2>2. Further(s, h, m) = Further(s, g, m)
    BY <2>1 DEF Further
  <2>3. m # n => g[m] = Further(s, g, m)
    BY <1>4, <1>5, SMTT(30) DEF Reaches
  <2> QED
    BY <2>2, <2>3
<1>7. Reaches(s, h, n)
  BY <1>6 DEF Reaches
<1> QED
  BY <1>7, <1>2

LEMMA UpstreamReached ==
  ASSUME NEW s
  PROVE  \E g : Reaches(s, g, Size) /\ Flow!Upstream(s) = g[Size]
<1> DEFINE g == CHOOSE g : Reaches(s, g, Size)
<1>1. Reaches(s, g, Size)
  BY ReachExists, SizeIsNatural
<1>2. Flow!Upstream(s) = g[Size]
  BY DEF Flow!Upstream, Reaches, Further, Size
<1> QED
  BY <1>1, <1>2

\* What a step waits for has ended when the step may start, since what has ended had
\* no more to wait for itself.
LEMMA UpstreamDone ==
  ASSUME NEW s, Flow!DepsOf(s) \subseteq done, \A d \in done : Flow!DepsOf(d) \subseteq done
  PROVE  Flow!Upstream(s) \subseteq done
<1>1. PICK g : Reaches(s, g, Size) /\ Flow!Upstream(s) = g[Size]
  BY UpstreamReached
<1> DEFINE Bad == {n \in 0..Size : ~(g[n] \subseteq done)}
<1> SUFFICES ASSUME Bad # {} PROVE FALSE
  BY <1>1, SizeIsNatural
<1>2. PICK n \in Bad : \A m \in Bad : n <= m
  <2>1. Bad \in SUBSET Nat /\ \E m : m \in Bad
    BY SizeIsNatural
  <2> HIDE DEF Bad
  <2> QED
    BY <2>1, LeastMember
<1>3. g[n] = Further(s, g, n)
  BY <1>1 DEF Reaches
<1>4. n # 0
  BY <1>2, <1>3 DEF Further
<1>5. g[n - 1] \subseteq done
  BY <1>2, <1>4, SizeIsNatural
<1>6. g[n] \subseteq done
  BY <1>3, <1>4, <1>5 DEF Further
<1> QED
  BY <1>2, <1>6

\* The steps are waiting, in the wave, or done; what is done had all it waits for;
\* who has rendered its prompt found what it refers to.
WholeInv ==
  /\ recipe \in Recipes
  /\ seen = [s \in Labels |-> seen[s]]
  /\ phase = "called" => wave = {} /\ done = {}
  /\ phase \in {"running", "returned"} =>
       pending \union done = Flow!StepIds(recipe) /\ ~Flow!Invalid(recipe)
  /\ phase = "returned" => pending = {}
  /\ wave \subseteq pending /\ pending \subseteq Flow!StepIds(recipe)
  /\ \A d \in done : Flow!DepsOf(d) \subseteq done
  /\ Flow!PromptsFilled

\* The recipe is the run's for good.
LEMMA SameRecipe ==
  ASSUME recipe' = recipe
  PROVE  /\ Flow!StepIds(recipe)' = Flow!StepIds(recipe)
         /\ Flow!Invalid(recipe)' = Flow!Invalid(recipe)
         /\ \A s : Flow!RefsOf(s)' = Flow!RefsOf(s) /\ Flow!DepsOf(s)' = Flow!DepsOf(s)
         /\ \A s : Flow!Upstream(s)' = Flow!Upstream(s)
<1>1. Flow!StepIds(recipe)' = Flow!StepIds(recipe)
  OBVIOUS
<1>2. Flow!Invalid(recipe)' = Flow!Invalid(recipe)
  OBVIOUS
<1>3. \A s : Flow!RefsOf(s)' = Flow!RefsOf(s) /\ Flow!DepsOf(s)' = Flow!DepsOf(s)
  BY DEF Flow!RefsOf, Flow!DepsOf, Flow!StepNo, Flow!StepIds, Flow!StepsOf
<1>4. \A s : Flow!Upstream(s)' = Flow!Upstream(s)
  BY DEF Flow!Upstream, Flow!DepsOf, Flow!StepNo, Flow!StepIds, Flow!StepsOf
<1> QED
  BY <1>1, <1>2, <1>3, <1>4

LEMMA WholeInit == Flow!Init => WholeInv
  BY DEF Flow!Init, WholeInv, Flow!PromptsFilled

LEMMA WholeCall ==
  ASSUME WholeInv, Flow!Call
  PROVE  WholeInv'
<1>1. UNCHANGED <<recipe, wave, done, seen>> /\ wave = {} /\ done = {}
  BY DEF Flow!Call, WholeInv
<1>2. \/ phase' = "refused" /\ pending' = pending
      \/ phase' = "running" /\ pending' = Flow!StepIds(recipe) /\ ~Flow!Invalid(recipe)
  BY DEF Flow!Call
<1> QED
  BY <1>1, <1>2, SameRecipe DEF WholeInv, Flow!PromptsFilled

LEMMA WholeStartWave ==
  ASSUME WholeInv, Flow!StartWave
  PROVE  WholeInv'
<1>1. UNCHANGED <<recipe, phase, pending, done>> /\ phase = "running"
  BY DEF Flow!StartWave
<1>2. wave' = {s \in pending : Flow!DepsOf(s) \subseteq done}
  BY DEF Flow!StartWave, Flow!Ready
<1>3. seen' = [s \in Labels |-> IF s \in wave' THEN Flow!RefsOf(s) \intersect done ELSE seen[s]]
  BY DEF Flow!StartWave, Flow!Rendered
<1>4. pending \subseteq Labels /\ done \subseteq Labels
  BY FlowAssumption, <1>1 DEF FlowAssumption, Flow!RecipeAssumption, WholeInv
<1>5. \A s \in wave' \union done : Flow!RefsOf(s) \intersect Flow!Upstream(s) \subseteq seen'[s]
  <2> TAKE s \in wave' \union done
  <2>1. CASE s \in wave'
    <3>1. Flow!Upstream(s) \subseteq done
      BY <1>2, <2>1, UpstreamDone DEF WholeInv
    <3>2. seen'[s] = Flow!RefsOf(s) \intersect done
      BY <1>2, <1>3, <1>4, <2>1
    <3> QED
      BY <3>1, <3>2
  <2>2. CASE s \notin wave'
    <3>1. seen'[s] = seen[s]
      BY <1>3, <1>4, <2>2
    <3> QED
      BY <2>2, <3>1 DEF WholeInv, Flow!PromptsFilled
  <2> QED
    BY <2>1, <2>2
<1>6. Flow!PromptsFilled'
  BY <1>1, <1>5, SameRecipe DEF Flow!PromptsFilled
<1>7. seen' = [s \in Labels |-> seen'[s]]
  BY <1>3
<1> QED
  BY <1>1, <1>2, <1>6, <1>7, SameRecipe DEF WholeInv

LEMMA WholeEndWave ==
  ASSUME WholeInv, FlowInv, Flow!EndWave
  PROVE  WholeInv'
<1>1. UNCHANGED <<recipe, phase, seen>> /\ wave' = {} /\ wave # {}
  BY DEF Flow!EndWave, Flow!WaveOver
<1>2. done' = done \union wave /\ pending' = pending \ wave
  BY DEF Flow!EndWave
<1>3. phase # "called"
  BY <1>1 DEF WholeInv
<1>4. \A d \in done' : Flow!DepsOf(d) \subseteq done'
  BY <1>2 DEF WholeInv, FlowInv
<1> QED
  BY <1>1, <1>2, <1>3, <1>4, SameRecipe DEF WholeInv, Flow!PromptsFilled

LEMMA WholeQuiet ==
  ASSUME WholeInv, UNCHANGED <<recipe, pending, done, seen>>, phase' # "called",
         wave' = wave \/ wave' = {}, phase = "running", phase' = "returned" => pending = {}
  PROVE  WholeInv'
  BY SameRecipe DEF WholeInv, Flow!PromptsFilled

LEMMA WholeStep ==
  ASSUME WholeInv, FlowInv, [Flow!Next]_flowVars
  PROVE  WholeInv'
<1>1. CASE Flow!Return
  BY <1>1, WholeQuiet DEF Flow!Return
<1>2. CASE Flow!Cancel
  BY <1>2, WholeQuiet DEF Flow!Cancel
<1>3. ASSUME UNCHANGED <<recipe, phase, pending, wave, done, seen>> PROVE WholeInv'
  BY <1>3, SameRecipe DEF WholeInv, Flow!PromptsFilled
<1>4. ASSUME NEW s \in Labels, Flow!Acquire(s) \/ Flow!Finish(s)
      PROVE  UNCHANGED <<recipe, phase, pending, wave, done, seen>>
  BY <1>4 DEF Flow!Acquire, Flow!Finish
<1>5. CASE UNCHANGED flowVars
  BY <1>3, <1>5 DEF flowVars
<1> QED
  BY <1>1, <1>2, <1>3, <1>4, <1>5, WholeCall, WholeStartWave, WholeEndWave
  DEF Flow!Next, Flow!Ended, Flow!vars, flowVars

LEMMA WholeWhenReturned ==
  ASSUME WholeInv, FlowInv, phase = "returned"
  PROVE  /\ done = Flow!StepIds(recipe)
         /\ \A s \in done : out[s] # "none"
         /\ Flow!Rendered(Flow!OutRefs(recipe)) = Flow!OutRefs(recipe)
<1>1. done = Flow!StepIds(recipe) /\ done \subseteq Labels
  BY FlowAssumption DEF WholeInv, FlowAssumption, Flow!RecipeAssumption
<1>2. \A s \in done : out[s] # "none"
  BY <1>1 DEF FlowInv
<1>3. Flow!OutRefs(recipe) \subseteq Flow!StepIds(recipe)
  <2>1. /\ Len(recipe.steps) # 0
        /\ recipe.out # Implied => recipe.out \in Flow!StepIds(recipe)
    BY DEF WholeInv, Flow!Invalid
  <2>2. recipe.steps \in Seq(Flow!StepsOf(recipe))
    BY FlowAssumption DEF WholeInv, FlowAssumption, Flow!RecipeAssumption
  <2>3. Flow!Last(recipe.steps) \in Flow!StepsOf(recipe)
    BY <2>1, <2>2 DEF Flow!Last
  <2> QED
    BY <2>1, <2>3 DEF Flow!OutRefs, Flow!StepIds
<1> QED
  BY <1>1, <1>2, <1>3 DEF Flow!Rendered

LEMMA FlowTogether == FlowInv /\ WholeInv /\ [Next]_vars => FlowInv' /\ WholeInv'
  BY FlowMoves, FlowSimulates, WholeStep

\* For every recipe (engine.py, run_workflow): a prompt holds the output, or the error
\* text, of every step upstream of it that it refers to, in whatever order those ended.
\* It is the part PromptsFilled of RunSound.
THEOREM PromptsAreFilled == Spec => []Flow!PromptsFilled
<1>1. Init => FlowInv /\ WholeInv
  BY FlowInit, WholeInit DEF Init
<1>2. WholeInv => Flow!PromptsFilled
  BY DEF WholeInv
<1> QED
  BY <1>1, <1>2, FlowTogether, PTL DEF Spec

\* For every recipe (engine.py, run_workflow): a run that returns has run every step of
\* it, those behind failed ones included, and the output template finds all it names.
\* It is RunIsWhole of RunSound but for the list of failures.
THEOREM ReturnedRunsAreWhole ==
  Spec => [](phase = "returned" =>
               /\ done = Flow!StepIds(recipe)
               /\ \A s \in done : out[s] # "none"
               /\ Flow!Rendered(Flow!OutRefs(recipe)) = Flow!OutRefs(recipe))
<1> DEFINE Whole == phase = "returned" =>
                      /\ done = Flow!StepIds(recipe)
                      /\ \A s \in done : out[s] # "none"
                      /\ Flow!Rendered(Flow!OutRefs(recipe)) = Flow!OutRefs(recipe)
<1>1. Init => FlowInv /\ WholeInv
  BY FlowInit, WholeInit DEF Init
<1>2. FlowInv /\ WholeInv => Whole
  BY WholeWhenReturned
<1> QED
  BY <1>1, <1>2, FlowTogether, PTL DEF Spec

-----------------------------------------------------------------------------
(* Validation: depth-first search finds the recipes that have no order *)

\* HasCycle with its fold and its recursion named.
Visit(v, g, n, m) ==
  IF m.cycle \/ n \in m.shut THEN m
  ELSE IF n \in m.open THEN [m EXCEPT !.cycle = TRUE]
  ELSE LET deps == Folded(v, Flow!Opened(n, m), g[n])
       IN IF deps.cycle THEN deps ELSE Flow!Closed(n, deps)
IsVisit(v, g) == v = [p \in (DOMAIN g) \X Flow!Marks(g) |-> Visit(v, g, p[1], p[2])]
VisitOf(g) == CHOOSE v : IsVisit(v, g)
Fresh == [cycle |-> FALSE, open |-> {}, shut |-> {}]

LEMMA HasCycleIs ==
  ASSUME NEW g
  PROVE  Flow!HasCycle(g) = Folded(VisitOf(g), Fresh, DOMAIN g).cycle
  BY DEF Flow!HasCycle, VisitOf, IsVisit, Visit, Fresh, Flow!FoldSet, Flow!MapThenFoldSet,
         Folded, FoldOf, IsFold, FoldStep, FirstOf

IsGraph(g) == IsFiniteSet(DOMAIN g) /\ \A n \in DOMAIN g : g[n] \subseteq DOMAIN g

\* Nodes none of which could be the first.
IsKnot(g, T) == T # {} /\ \A n \in T : g[n] \intersect T # {}
Knotted(g) == \E T \in SUBSET DOMAIN g : IsKnot(g, T)

\* How deep a visit may go.
Depth(g, n, m) ==
  IF m.cycle \/ n \in m.shut \/ n \in m.open THEN 0 ELSE Cardinality(DOMAIN g \ m.open)

\* The nodes that are done hold no knot, and the search was led to n along those it is visiting.
Explored(g, m) ==
  /\ \A n \in m.shut : g[n] \subseteq m.shut
  /\ \A n \in m.open : n \notin m.shut
  /\ \A T \in SUBSET m.shut : ~ IsKnot(g, T)
Chained(g, n, m) == \A x \in m.open : g[x] \intersect (m.open \union {n}) # {}

BeforeVisit(g, n, m) == ~ m.cycle /\ Explored(g, m) /\ Chained(g, n, m)
AfterVisit(g, n, m, r) ==
  IF r.cycle THEN Knotted(g) ELSE m.shut \subseteq r.shut /\ n \in r.shut /\ Explored(g, r)

GoodVisit(g, n, m, r) ==
  /\ r \in Flow!Marks(g)
  /\ m.cycle => r = m
  /\ r.cycle \/ r.open = m.open
  /\ BeforeVisit(g, n, m) => AfterVisit(g, n, m, r)

\* What a node's dependencies may have left, after those in s.
Between(g, n, m, s) ==
  {a \in Flow!Marks(g) :
     /\ a.cycle \/ a.open = m.open \union {n}
     /\ BeforeVisit(g, n, m) =>
          IF a.cycle THEN Knotted(g)
          ELSE m.shut \subseteq a.shut /\ s \subseteq a.shut /\ Explored(g, a)}

\* Every visit of a dependency is less deep, and keeps to what lies between.
LEMMA VisitNext ==
  ASSUME NEW g, IsGraph(g), NEW v, NEW n \in DOMAIN g, NEW m \in Flow!Marks(g),
         ~ m.cycle, n \notin m.shut, n \notin m.open,
         NEW d \in DOMAIN g, NEW a \in Flow!Marks(g), a.cycle \/ a.open = m.open \union {n}
  PROVE  Depth(g, d, a) < Depth(g, n, m) /\ Depth(g, d, a) \in Nat /\ Depth(g, n, m) \in Nat
<1>1. m.open \subseteq DOMAIN g /\ a.open \subseteq DOMAIN g
  BY DEF Flow!Marks
<1>2. IsFiniteSet(DOMAIN g \ m.open)
  BY FS_Subset DEF IsGraph
<1>3. Cardinality(DOMAIN g \ m.open) \in Nat /\ Depth(g, n, m) = Cardinality(DOMAIN g \ m.open)
  BY <1>2, FS_CardinalityType DEF Depth
<1>4. /\ Cardinality((DOMAIN g \ m.open) \ {n}) = Cardinality(DOMAIN g \ m.open) - 1
      /\ IsFiniteSet((DOMAIN g \ m.open) \ {n})
  BY <1>2, FS_RemoveElement
<1>5. Cardinality((DOMAIN g \ m.open) \ {n}) \in Nat
  BY <1>4, FS_CardinalityType
<1>6. Depth(g, d, a) \in {0, Cardinality((DOMAIN g \ m.open) \ {n})}
  <2>1. CASE a.cycle
    BY <2>1 DEF Depth
  <2>2. CASE ~ a.cycle
    <3>1. DOMAIN g \ a.open = (DOMAIN g \ m.open) \ {n}
      BY <2>2
    <3> QED
      BY <3>1, Zenon DEF Depth
  <2> QED
    BY <2>1, <2>2
<1> QED
  BY <1>3, <1>4, <1>5, <1>6

LEMMA VisitBetween ==
  ASSUME NEW g, IsGraph(g), NEW v, NEW n \in DOMAIN g, NEW m \in Flow!Marks(g),
         ~ m.cycle, n \notin m.shut, n \notin m.open,
         NEW s \in SUBSET g[n], NEW d \in s, NEW a \in Between(g, n, m, s \ {d}),
         GoodVisit(g, d, a, v[<<d, a>>])
  PROVE  v[<<d, a>>] \in Between(g, n, m, s)
<1> DEFINE r == v[<<d, a>>]
<1>1. a \in Flow!Marks(g) /\ (a.cycle \/ a.open = m.open \union {n}) /\ r \in Flow!Marks(g)
  BY DEF Between, GoodVisit
<1>2. CASE a.cycle
  <2>1. r = a
    BY <1>2 DEF GoodVisit
  <2> QED
    BY <2>1, <1>2 DEF Between
<1>3. CASE ~ a.cycle
  <2> HIDE DEF r
  <2>1. r.cycle \/ r.open = m.open \union {n}
    BY <1>1, <1>3 DEF GoodVisit, r
  <2>2. ASSUME BeforeVisit(g, n, m)
        PROVE  IF r.cycle THEN Knotted(g)
               ELSE m.shut \subseteq r.shut /\ s \subseteq r.shut /\ Explored(g, r)
    <3>1. m.shut \subseteq a.shut /\ s \ {d} \subseteq a.shut /\ Explored(g, a)
      BY <1>3, <2>2 DEF Between
    <3>2. Chained(g, d, a)
      <4> SUFFICES ASSUME NEW x \in a.open PROVE g[x] \intersect (a.open \union {d}) # {}
        BY DEF Chained
      <4>1. CASE x = n
        BY <4>1
      <4>2. CASE x # n
        <5>1. x \in m.open
          BY <4>2, <1>1, <1>3
        <5>2. g[x] \intersect (m.open \union {n}) # {}
          BY <5>1, <2>2 DEF BeforeVisit, Chained
        <5> QED
          BY <5>2, <1>1, <1>3
      <4> QED
        BY <4>1, <4>2
    <3>3. AfterVisit(g, d, a, r)
      BY <3>1, <3>2, <1>3 DEF GoodVisit, BeforeVisit, r
    <3> QED
      BY <3>1, <3>3 DEF AfterVisit
  <2>3. r \in Between(g, n, m, s)
    BY <1>1, <2>1, <2>2 DEF Between
  <2> QED
    BY <2>3 DEF r
<1> QED
  BY <1>2, <1>3

\* A node is done when all it depends on is.
LEMMA ClosedExplored ==
  ASSUME NEW g, NEW n \in DOMAIN g, NEW a \in Flow!Marks(g), NEW b,
         Explored(g, a), n \in a.open, g[n] \subseteq a.shut,
         b = Flow!Closed(n, a)
  PROVE  Explored(g, b)
<1>1. b.shut = a.shut \union {n} /\ b.open = a.open \ {n}
  BY DEF Flow!Closed
<1>2. n \notin a.shut
  BY DEF Explored
<1>3. \A x \in b.shut : g[x] \subseteq b.shut
  BY <1>1 DEF Explored
<1>4. \A x \in b.open : x \notin b.shut
  BY <1>1 DEF Explored
<1>5. ASSUME NEW T \in SUBSET b.shut, IsKnot(g, T) PROVE FALSE
  <2>1. n \in T
    <3> SUFFICES ASSUME n \notin T PROVE FALSE
      OBVIOUS
    <3>1. T \in SUBSET a.shut
      BY <1>1
    <3> QED
      BY <3>1, <1>5 DEF Explored
  <2>2. PICK x : x \in g[n] /\ x \in T
    BY <2>1, <1>5 DEF IsKnot
  <2> DEFINE U == T \ {n}
  <2>3. U \in SUBSET a.shut /\ x \in U
    BY <1>1, <1>2, <2>2
  <2>4. \A y \in U : g[y] \intersect U # {}
    <3> SUFFICES ASSUME NEW y \in U PROVE g[y] \intersect U # {}
      OBVIOUS
    <3>1. PICK z : z \in g[y] /\ z \in T
      BY <1>5 DEF IsKnot
    <3>2. z \in a.shut
      BY <3>1, <2>3 DEF Explored
    <3> QED
      BY <3>1, <3>2, <1>2
  <2>5. IsKnot(g, U)
    BY <2>3, <2>4 DEF IsKnot
  <2> QED
    BY <2>3, <2>5 DEF Explored
<1> QED
  BY <1>3, <1>4, <1>5 DEF Explored

LEMMA VisitIsGood ==
  ASSUME NEW g, IsGraph(g), NEW v, NEW n \in DOMAIN g, NEW m \in Flow!Marks(g),
         \A d \in DOMAIN g, a \in Flow!Marks(g) :
           Depth(g, d, a) < Depth(g, n, m) => GoodVisit(g, d, a, v[<<d, a>>])
  PROVE  GoodVisit(g, n, m, Visit(v, g, n, m))
<1> DEFINE r == Visit(v, g, n, m)
<1>1. CASE m.cycle \/ n \in m.shut
  <2>1. r = m
    BY <1>1 DEF Visit
  <2> HIDE DEF r
  <2>2. GoodVisit(g, n, m, r)
    BY <1>1, <2>1 DEF GoodVisit, BeforeVisit, AfterVisit
  <2> QED
    BY <2>2 DEF r
<1>2. CASE ~ (m.cycle \/ n \in m.shut) /\ n \in m.open
  <2>1. r = [m EXCEPT !.cycle = TRUE]
    BY <1>2 DEF Visit
  <2> HIDE DEF r
  <2>2. r \in Flow!Marks(g) /\ r.cycle
    BY <2>1 DEF Flow!Marks
  <2>3. ASSUME BeforeVisit(g, n, m) PROVE Knotted(g)
    <3>1. m.open \in SUBSET DOMAIN g
      BY DEF Flow!Marks
    <3>2. m.open \union {n} = m.open
      BY <1>2
    <3>3. IsKnot(g, m.open)
      BY <1>2, <2>3, <3>2 DEF BeforeVisit, Chained, IsKnot
    <3> QED
      BY <3>1, <3>3 DEF Knotted
  <2>4. GoodVisit(g, n, m, r)
    BY <1>2, <2>2, <2>3 DEF GoodVisit, AfterVisit
  <2> QED
    BY <2>4 DEF r
<1>3. CASE ~ (m.cycle \/ n \in m.shut) /\ n \notin m.open
  <2> DEFINE b == Flow!Opened(n, m)
             e == Folded(v, b, g[n])
             P == [s \in SUBSET g[n] |-> Between(g, n, m, s)]
  <2>1. b \in Flow!Marks(g) /\ b.cycle = m.cycle /\ b.shut = m.shut /\ b.open = m.open \union {n}
    BY DEF Flow!Opened, Flow!Marks
  <2>2. g[n] \in SUBSET DOMAIN g /\ IsFiniteSet(g[n])
    BY FS_Subset DEF IsGraph
  <2>3. r = IF e.cycle THEN e ELSE Flow!Closed(n, e)
    BY <1>3 DEF Visit
  <2> HIDE DEF r, b
  <2>4. b \in P[{}]
    <3>1. ASSUME BeforeVisit(g, n, m) PROVE Explored(g, b)
      BY <3>1, <1>3, <2>1 DEF BeforeVisit, Explored
    <3> QED
      BY <1>3, <2>1, <3>1 DEF Between
  <2>5. \A s \in SUBSET g[n] : \A d \in s : \A a \in P[s \ {d}] : v[<<d, a>>] \in P[s]
    <3> SUFFICES ASSUME NEW s \in SUBSET g[n], NEW d \in s, NEW a \in P[s \ {d}]
                 PROVE  v[<<d, a>>] \in P[s]
      OBVIOUS
    <3>1. a \in Between(g, n, m, s \ {d}) /\ d \in DOMAIN g
      BY <2>2
    <3>2. a \in Flow!Marks(g) /\ (a.cycle \/ a.open = m.open \union {n})
      BY <3>1 DEF Between
    <3>3. GoodVisit(g, d, a, v[<<d, a>>])
      BY <3>1, <3>2, <1>3, VisitNext
    <3> HIDE DEF P
    <3>4. v[<<d, a>>] \in Between(g, n, m, s)
      BY <3>1, <3>3, <1>3, VisitBetween
    <3> QED
      BY <3>4 DEF P
  <2>6. e \in Between(g, n, m, g[n])
    <3> HIDE DEF P
    <3>1. e \in P[g[n]]
      BY <2>2, <2>4, <2>5, FoldKeeps
    <3> QED
      BY <3>1 DEF P
  <2> HIDE DEF e, P
  <2>7. e \in Flow!Marks(g) /\ (e.cycle \/ e.open = m.open \union {n})
    BY <2>6 DEF Between
  <2>8. CASE e.cycle
    <3>1. r = e
      BY <2>3, <2>8
    <3>2. BeforeVisit(g, n, m) => Knotted(g)
      BY <2>6, <2>8 DEF Between
    <3>3. GoodVisit(g, n, m, r)
      BY <1>3, <2>7, <2>8, <3>1, <3>2 DEF GoodVisit, AfterVisit
    <3> QED
      BY <3>3 DEF r
  <2>9. CASE ~ e.cycle
    <3>1. r = Flow!Closed(n, e)
      BY <2>3, <2>9
    <3>2. r \in Flow!Marks(g) /\ ~ r.cycle /\ r.shut = e.shut \union {n} /\ r.open = e.open \ {n}
      BY <3>1, <2>7 DEF Flow!Closed, Flow!Marks
    <3>3. r.open = m.open
      BY <1>3, <2>7, <2>9, <3>2
    <3>4. ASSUME BeforeVisit(g, n, m) PROVE m.shut \subseteq r.shut /\ n \in r.shut /\ Explored(g, r)
      <4>1. m.shut \subseteq e.shut /\ g[n] \subseteq e.shut /\ Explored(g, e)
        BY <2>6, <2>9, <3>4 DEF Between
      <4>2. n \in e.open
        BY <2>7, <2>9
      <4>3. Explored(g, r)
        BY <2>7, <3>1, <4>1, <4>2, ClosedExplored
      <4> QED
        BY <3>2, <4>1, <4>3
    <3>5. GoodVisit(g, n, m, r)
      BY <1>3, <3>2, <3>3, <3>4 DEF GoodVisit, AfterVisit
    <3> QED
      BY <3>5 DEF r
  <2> QED
    BY <2>8, <2>9
<1> QED
  BY <1>1, <1>2, <1>3

LEMMA DepthIsNatural ==
  ASSUME NEW g, IsGraph(g), NEW n, NEW m
  PROVE  Depth(g, n, m) \in Nat /\ Depth(g, n, m) <= Cardinality(DOMAIN g) /\ Cardinality(DOMAIN g) \in Nat
<1>1. IsFiniteSet(DOMAIN g) /\ DOMAIN g \ m.open \in SUBSET DOMAIN g
  BY DEF IsGraph
<1>2. /\ Cardinality(DOMAIN g \ m.open) <= Cardinality(DOMAIN g)
      /\ IsFiniteSet(DOMAIN g \ m.open)
  BY <1>1, FS_Subset
<1>3. Cardinality(DOMAIN g \ m.open) \in Nat /\ Cardinality(DOMAIN g) \in Nat
  BY <1>1, <1>2, FS_CardinalityType
<1> QED
  BY <1>2, <1>3 DEF Depth

\* v is what HasCycle's recursion asks for, as deep as k.
Solves(v, g, k) ==
  \A n \in DOMAIN g, m \in Flow!Marks(g) : Depth(g, n, m) < k => v[<<n, m>>] = Visit(v, g, n, m)
AllGood(v, g, k) ==
  \A n \in DOMAIN g, m \in Flow!Marks(g) : Depth(g, n, m) < k => GoodVisit(g, n, m, v[<<n, m>>])

LEMMA VisitsAreGood ==
  ASSUME NEW g, IsGraph(g), NEW v, NEW k \in Nat, Solves(v, g, k)
  PROVE  AllGood(v, g, k)
<1> DEFINE Bad == {j \in Nat : j <= k /\ ~ AllGood(v, g, j)}
<1>1. SUFFICES ASSUME k \in Bad PROVE FALSE
  OBVIOUS
<1>2. PICK j \in Bad : \A i \in Bad : j <= i
  <2>1. Bad \in SUBSET Nat
    OBVIOUS
  <2> HIDE DEF Bad
  <2> QED
    BY <1>1, <2>1, LeastMember
<1>3. j \in Nat /\ j <= k /\ ~ AllGood(v, g, j)
  BY <1>2
<1>4. PICK n \in DOMAIN g, m \in Flow!Marks(g) : Depth(g, n, m) < j /\ ~ GoodVisit(g, n, m, v[<<n, m>>])
  BY <1>3, Zenon DEF AllGood
<1> DEFINE i == Depth(g, n, m)
<1>5. i \in Nat
  BY DepthIsNatural
<1>6. i < j
  BY <1>4
<1>7. i < k /\ i <= k /\ ~ (j <= i)
  <2> HIDE DEF i
  <2> QED
    BY <1>3, <1>5, <1>6
<1>8. AllGood(v, g, i)
  <2> HIDE DEF i
  <2>1. i \notin Bad
    <3> HIDE DEF Bad
    <3> QED
      BY <1>2, <1>7
  <2> QED
    BY <2>1, <1>5, <1>7
<1>9. v[<<n, m>>] = Visit(v, g, n, m)
  BY <1>7 DEF Solves
<1>10. GoodVisit(g, n, m, Visit(v, g, n, m))
  BY <1>8, VisitIsGood DEF AllGood
<1> QED
  BY <1>4, <1>9, <1>10

\* A visit depends on the less deep ones alone.
LEMMA VisitSame ==
  ASSUME NEW g, IsGraph(g), NEW v, NEW w, NEW n \in DOMAIN g, NEW m \in Flow!Marks(g),
         AllGood(v, g, Depth(g, n, m)),
         \A d \in DOMAIN g, a \in Flow!Marks(g) : Depth(g, d, a) < Depth(g, n, m) => v[<<d, a>>] = w[<<d, a>>]
  PROVE  Visit(v, g, n, m) = Visit(w, g, n, m)
<1>1. CASE m.cycle \/ n \in m.shut
  BY <1>1 DEF Visit
<1>2. CASE ~ (m.cycle \/ n \in m.shut) /\ n \in m.open
  BY <1>2 DEF Visit
<1>3. CASE ~ (m.cycle \/ n \in m.shut) /\ n \notin m.open
  <2> DEFINE b == Flow!Opened(n, m)
             G == {a \in Flow!Marks(g) : a.cycle \/ a.open = m.open \union {n}}
  <2>1. b \in G
    BY DEF Flow!Opened, Flow!Marks
  <2>2. g[n] \in SUBSET DOMAIN g /\ IsFiniteSet(g[n])
    BY FS_Subset DEF IsGraph
  <2>3. \A d \in g[n], a \in G : v[<<d, a>>] = w[<<d, a>>] /\ v[<<d, a>>] \in G
    <3> SUFFICES ASSUME NEW d \in g[n], NEW a \in G PROVE v[<<d, a>>] = w[<<d, a>>] /\ v[<<d, a>>] \in G
      OBVIOUS
    <3>1. d \in DOMAIN g /\ a \in Flow!Marks(g) /\ (a.cycle \/ a.open = m.open \union {n})
      BY <2>2
    <3>2. Depth(g, d, a) < Depth(g, n, m)
      BY <3>1, <1>3, VisitNext
    <3>3. GoodVisit(g, d, a, v[<<d, a>>])
      BY <3>1, <3>2 DEF AllGood
    <3>4. v[<<d, a>>] \in Flow!Marks(g) /\ (a.cycle => v[<<d, a>>] = a) /\ (v[<<d, a>>].cycle \/ v[<<d, a>>].open = a.open)
      BY <3>3 DEF GoodVisit
    <3> DEFINE r == v[<<d, a>>]
    <3>5. r \in G
      <4>1. r \in Flow!Marks(g) /\ (a.cycle => r = a) /\ (r.cycle \/ r.open = a.open)
        BY <3>4
      <4> HIDE DEF r
      <4> QED
        BY <3>1, <4>1
    <3> QED
      BY <3>1, <3>2, <3>5
  <2>4. Folded(v, b, g[n]) = Folded(w, b, g[n])
    <3> HIDE DEF b, G
    <3> QED
      BY <2>1, <2>2, <2>3, FoldSame
  <2> HIDE DEF b
  <2>5. /\ Visit(v, g, n, m) = IF Folded(v, b, g[n]).cycle THEN Folded(v, b, g[n])
                               ELSE Flow!Closed(n, Folded(v, b, g[n]))
        /\ Visit(w, g, n, m) = IF Folded(w, b, g[n]).cycle THEN Folded(w, b, g[n])
                               ELSE Flow!Closed(n, Folded(w, b, g[n]))
    BY <1>3 DEF Visit, b
  <2> QED
    BY <2>4, <2>5
<1> QED
  BY <1>1, <1>2, <1>3

\* The function of one step of the recursion.
Stepped(v, g) == [p \in (DOMAIN g) \X Flow!Marks(g) |-> Visit(v, g, p[1], p[2])]

LEMMA SteppedIs ==
  ASSUME NEW g, NEW v, NEW n \in DOMAIN g, NEW m \in Flow!Marks(g)
  PROVE  Stepped(v, g)[<<n, m>>] = Visit(v, g, n, m)
  BY DEF Stepped

LEMMA SteppedSame ==
  ASSUME NEW g, IsGraph(g), NEW v, NEW k \in Nat, Solves(v, g, k),
         NEW n \in DOMAIN g, NEW m \in Flow!Marks(g), Depth(g, n, m) <= k
  PROVE  Visit(v, g, n, m) = Visit(Stepped(v, g), g, n, m)
<1>1. Depth(g, n, m) \in Nat
  BY DepthIsNatural
<1>2. \A d \in DOMAIN g, a \in Flow!Marks(g) : Depth(g, d, a) < Depth(g, n, m) => Depth(g, d, a) < k
  <2> SUFFICES ASSUME NEW d \in DOMAIN g, NEW a \in Flow!Marks(g), Depth(g, d, a) < Depth(g, n, m)
               PROVE  Depth(g, d, a) < k
    OBVIOUS
  <2>1. Depth(g, d, a) \in Nat
    BY DepthIsNatural
  <2> QED
    BY <1>1, <2>1
<1>3. AllGood(v, g, k)
  BY VisitsAreGood
<1>4. AllGood(v, g, Depth(g, n, m))
  BY <1>2, <1>3, Zenon DEF AllGood
<1>5. \A d \in DOMAIN g, a \in Flow!Marks(g) :
        Depth(g, d, a) < Depth(g, n, m) => v[<<d, a>>] = Stepped(v, g)[<<d, a>>]
  BY <1>2, SteppedIs, Zenon DEF Solves
<1> HIDE DEF Stepped
<1> QED
  BY <1>4, <1>5, VisitSame

LEMMA VisitExists ==
  ASSUME NEW g, IsGraph(g)
  PROVE  \E v : IsVisit(v, g)
<1> DEFINE Bad == {k \in Nat : ~ \E v : Solves(v, g, k)}
<1>1. Bad = {}
  <2> SUFFICES ASSUME Bad # {} PROVE FALSE
    OBVIOUS
  <2>1. PICK k \in Bad : \A i \in Bad : k <= i
    <3>1. PICK i : i \in Bad
      OBVIOUS
    <3>2. Bad \in SUBSET Nat
      OBVIOUS
    <3> HIDE DEF Bad
    <3> QED
      BY <3>1, <3>2, LeastMember
  <2>2. k \in Nat
    BY <2>1
  <2>3. k # 0
    <3> SUFFICES ASSUME k = 0 PROVE FALSE
      OBVIOUS
    <3>1. \A n \in DOMAIN g, m \in Flow!Marks(g) : ~ (Depth(g, n, m) < 0)
      <4> TAKE n \in DOMAIN g, m \in Flow!Marks(g)
      <4>1. Depth(g, n, m) \in Nat
        BY DepthIsNatural
      <4> QED
        BY <4>1
    <3>2. Solves(g, g, 0)
      BY <3>1, Zenon DEF Solves
    <3> QED
      BY <3>2, <2>1
  <2>4. k - 1 \in Nat /\ ~ (k <= k - 1)
    BY <2>2, <2>3
  <2>5. PICK v : Solves(v, g, k - 1)
    <3>1. k - 1 \notin Bad
      <4> HIDE DEF Bad
      <4> QED
        BY <2>1, <2>4
    <3> QED
      BY <2>4, <3>1
  <2>6. ASSUME NEW n \in DOMAIN g, NEW m \in Flow!Marks(g), Depth(g, n, m) < k
        PROVE  Stepped(v, g)[<<n, m>>] = Visit(Stepped(v, g), g, n, m)
    <3>1. Depth(g, n, m) \in Nat
      BY DepthIsNatural
    <3>2. Depth(g, n, m) <= k - 1
      BY <2>2, <2>6, <3>1
    <3>3. Visit(v, g, n, m) = Visit(Stepped(v, g), g, n, m)
      BY <2>4, <2>5, <3>2, SteppedSame
    <3> QED
      BY <3>3, SteppedIs
  <2>7. Solves(Stepped(v, g), g, k)
    BY <2>6 DEF Solves
  <2> QED
    BY <2>7, <2>1
<1> DEFINE c == Cardinality(DOMAIN g) + 1
<1>2. c \in Nat /\ \A n, m : Depth(g, n, m) < c /\ Depth(g, n, m) <= c
  <2>1. Cardinality(DOMAIN g) \in Nat
    BY DepthIsNatural
  <2> SUFFICES ASSUME NEW n, NEW m PROVE c \in Nat /\ Depth(g, n, m) < c /\ Depth(g, n, m) <= c
    BY <2>1
  <2>2. Depth(g, n, m) \in Nat /\ Depth(g, n, m) <= Cardinality(DOMAIN g)
    BY DepthIsNatural
  <2> QED
    BY <2>1, <2>2
<1> HIDE DEF c
<1>3. PICK v : Solves(v, g, c)
  BY <1>1, <1>2
<1>4. \A n \in DOMAIN g, m \in Flow!Marks(g) : Visit(v, g, n, m) = Visit(Stepped(v, g), g, n, m)
  BY <1>2, <1>3, SteppedSame
<1> DEFINE h == Stepped(v, g)
<1>5. h = [p \in (DOMAIN g) \X Flow!Marks(g) |-> Visit(v, g, p[1], p[2])]
  BY DEF Stepped
<1>6. \A n \in DOMAIN g, m \in Flow!Marks(g) : Visit(v, g, n, m) = Visit(h, g, n, m)
  BY <1>4
<1> HIDE DEF h
<1>7. h = [p \in (DOMAIN g) \X Flow!Marks(g) |-> Visit(h, g, p[1], p[2])]
  BY <1>5, <1>6, Zenon
<1> QED
  BY <1>7 DEF IsVisit

LEMMA AllVisitsAreGood ==
  ASSUME NEW g, IsGraph(g), NEW n \in DOMAIN g, NEW m \in Flow!Marks(g)
  PROVE  GoodVisit(g, n, m, VisitOf(g)[<<n, m>>])
<1> DEFINE v == VisitOf(g)
<1>1. IsVisit(v, g)
  BY VisitExists DEF VisitOf
<1> HIDE DEF v
<1>2. \A x \in DOMAIN g, y \in Flow!Marks(g) : v[<<x, y>>] = Visit(v, g, x, y)
  BY <1>1 DEF IsVisit
<1> DEFINE k == Depth(g, n, m) + 1
<1>3. k \in Nat /\ Depth(g, n, m) < k
  BY DepthIsNatural
<1> HIDE DEF k
<1>4. Solves(v, g, k)
  BY <1>2, Zenon DEF Solves
<1>5. AllGood(v, g, k)
  BY <1>3, <1>4, VisitsAreGood
<1> QED
  BY <1>3, <1>5 DEF AllGood, v

\* The search finds a cycle if and only if there is a knot.
LEMMA CycleIsKnot ==
  ASSUME NEW g, IsGraph(g)
  PROVE  Flow!HasCycle(g) <=> Knotted(g)
<1> DEFINE v == VisitOf(g)
           D == DOMAIN g
           Mid(s) == {a \in Flow!Marks(g) :
                        IF a.cycle THEN Knotted(g)
                        ELSE a.open = {} /\ s \subseteq a.shut /\ Explored(g, a)}
           P == [s \in SUBSET D |-> Mid(s)]
           e == Folded(v, Fresh, D)
<1>1. Flow!HasCycle(g) = e.cycle
  BY HasCycleIs
<1>2. \A n \in D, m \in Flow!Marks(g) : GoodVisit(g, n, m, v[<<n, m>>])
  BY AllVisitsAreGood
<1> HIDE DEF v
<1>3. Fresh \in P[{}]
  <2>1. Fresh \in Flow!Marks(g) /\ Fresh.open = {} /\ Fresh.shut = {} /\ ~ Fresh.cycle
    BY DEF Fresh, Flow!Marks
  <2>2. Explored(g, Fresh)
    BY <2>1 DEF Explored, IsKnot
  <2> QED
    BY <2>1, <2>2
<1>4. \A s \in SUBSET D : \A d \in s : \A a \in P[s \ {d}] : v[<<d, a>>] \in P[s]
  <2> SUFFICES ASSUME NEW s \in SUBSET D, NEW d \in s, NEW a \in P[s \ {d}] PROVE v[<<d, a>>] \in P[s]
    OBVIOUS
  <2> DEFINE r == v[<<d, a>>]
  <2>1. a \in Mid(s \ {d}) /\ a \in Flow!Marks(g) /\ d \in DOMAIN g
    OBVIOUS
  <2>2. GoodVisit(g, d, a, r)
    BY <1>2, <2>1
  <2> HIDE DEF r
  <2>3. CASE a.cycle
    <3>1. r = a
      BY <2>2, <2>3 DEF GoodVisit
    <3>2. r \in Mid(s)
      BY <2>1, <2>3, <3>1
    <3> QED
      BY <3>2 DEF r
  <2>4. CASE ~ a.cycle
    <3>1. a.open = {} /\ s \ {d} \subseteq a.shut /\ Explored(g, a)
      BY <2>1, <2>4
    <3>2. BeforeVisit(g, d, a)
      BY <2>4, <3>1 DEF BeforeVisit, Chained
    <3>3. r \in Flow!Marks(g) /\ AfterVisit(g, d, a, r) /\ (r.cycle \/ r.open = {})
      BY <2>2, <3>1, <3>2 DEF GoodVisit
    <3>4. ASSUME ~ r.cycle PROVE s \subseteq r.shut /\ Explored(g, r)
      BY <3>1, <3>3, <3>4 DEF AfterVisit
    <3>5. r \in Mid(s)
      BY <3>3, <3>4 DEF AfterVisit
    <3> QED
      BY <3>5 DEF r
  <2> QED
    BY <2>3, <2>4
<1>5. e \in Mid(D)
  <2>1. IsFiniteSet(D)
    BY DEF IsGraph
  <2>2. e \in P[D]
    <3> HIDE DEF P, D
    <3> QED
      BY <2>1, <1>3, <1>4, FoldKeeps
  <2> QED
    BY <2>2
<1> HIDE DEF e
<1>6. CASE e.cycle
  BY <1>1, <1>5, <1>6
<1>7. CASE ~ e.cycle
  <2>1. D \subseteq e.shut /\ Explored(g, e)
    BY <1>5, <1>7
  <2>2. ~ Knotted(g)
    BY <2>1 DEF Explored, Knotted
  <2> QED
    BY <1>1, <1>7, <2>2
<1> QED
  BY <1>6, <1>7

\* An order in which each step comes after what it depends on, as far as it goes.
Follows(o) == \A i \in DOMAIN o : o[i].deps \subseteq {o[j].id : j \in 1..(i - 1)}
Runs(o, k, S) == /\ o \in [1..k -> S]
                 /\ \A i, j \in 1..k : i # j => o[i] # o[j]
                 /\ Follows(o)

\* The steps S as a graph over their ids.
Draws(g, S) ==
  /\ IsFiniteSet(S)
  /\ \A s, t \in S : s.id = t.id => s = t
  /\ DOMAIN g = {s.id : s \in S}
  /\ \A s \in S : g[s.id] = s.deps /\ s.deps \subseteq DOMAIN g

LEMMA DrawnGraph ==
  ASSUME NEW S, NEW g, Draws(g, S)
  PROVE  IsGraph(g)
<1> DEFINE f == [s \in S |-> s.id]
<1>1. f \in Surjection(S, DOMAIN g)
  BY DEF Draws, Surjection
<1>2. IsFiniteSet(DOMAIN g)
  <2> HIDE DEF f
  <2> QED
    BY <1>1, FS_Surjection DEF Draws
<1> QED
  BY <1>2 DEF Draws, IsGraph

\* As many different steps as there are are all of them.
LEMMA AllInOrder ==
  ASSUME NEW S, IsFiniteSet(S), NEW k \in Nat, NEW o, Runs(o, k, S)
  PROVE  /\ k <= Cardinality(S)
         /\ k = Cardinality(S) => \A s \in S : \E i \in 1..k : o[i] = s
<1> DEFINE R == {o[i] : i \in 1..k}
<1>1. R \in SUBSET S
  BY DEF Runs
<1>2. IsFiniteSet(1..k) /\ Cardinality(1..k) = k
  <2>1. 0 \in Int /\ 1 \in Int /\ k \in Int
    OBVIOUS
  <2>2. Cardinality(1..k) = IF 1 > k THEN 0 ELSE k - 1 + 1
    BY <2>1, FS_Interval
  <2> QED
    BY <2>1, <2>2, FS_Interval
<1>3. o \in Bijection(1..k, R)
  BY DEF Runs, Bijection, Injection, Surjection, IsInjective
<1>4. IsFiniteSet(R) /\ Cardinality(R) = k
  <2> HIDE DEF R
  <2> QED
    BY <1>2, <1>3, FS_Bijection DEF ExistsBijection
<1>5. Cardinality(R) <= Cardinality(S) /\ (Cardinality(R) = Cardinality(S) => S = R)
  <2> HIDE DEF R
  <2> QED
    BY <1>1, FS_Subset
<1> QED
  BY <1>4, <1>5

LEMMA OrderMeansNoKnot ==
  ASSUME NEW S, NEW g, Draws(g, S), NEW o, Runs(o, Cardinality(S), S)
  PROVE  ~ Knotted(g)
<1> SUFFICES ASSUME NEW T \in SUBSET DOMAIN g, IsKnot(g, T) PROVE FALSE
  BY DEF Knotted
<1> DEFINE k == Cardinality(S)
           At == {i \in 1..k : o[i].id \in T}
<1>1. k \in Nat /\ IsFiniteSet(S)
  BY FS_CardinalityType DEF Draws
<1>2. \A s \in S : \E i \in 1..k : o[i] = s
  BY <1>1, AllInOrder
<1>3. PICK x : x \in T
  BY DEF IsKnot
<1>4. PICK s \in S : s.id = x
  BY <1>3 DEF Draws
<1>5. PICK a : a \in At
  BY <1>2, <1>3, <1>4
<1>6. PICK i \in At : \A j \in At : i <= j
  <2>1. At \in SUBSET Nat
    BY <1>1
  <2> HIDE DEF At
  <2> QED
    BY <1>5, <2>1, LeastMember
<1>7. i \in 1..k /\ o[i].id \in T /\ o[i] \in S
  BY <1>6 DEF Runs
<1>8. PICK y \in T : y \in g[o[i].id]
  BY <1>7 DEF IsKnot
<1>9. y \in o[i].deps
  BY <1>7, <1>8 DEF Draws
<1>10. PICK j \in 1..(i - 1) : o[j].id = y
  <2>1. DOMAIN o = 1..k
    BY DEF Runs
  <2> QED
    BY <2>1, <1>7, <1>9 DEF Runs, Follows
<1>11. j \in At /\ ~ (i <= j)
  BY <1>1, <1>7, <1>10
<1> QED
  BY <1>6, <1>11

LEMMA NoKnotMeansOrder ==
  ASSUME NEW S, NEW g, Draws(g, S), ~ Knotted(g)
  PROVE  \E o : Runs(o, Cardinality(S), S)
<1> DEFINE n == Cardinality(S)
           Bad == {k \in Nat : k <= n /\ ~ \E o : Runs(o, k, S)}
<1>1. n \in Nat /\ IsFiniteSet(S)
  BY FS_CardinalityType DEF Draws
<1>2. Bad = {}
  <2> SUFFICES ASSUME Bad # {} PROVE FALSE
    OBVIOUS
  <2>1. PICK k \in Bad : \A i \in Bad : k <= i
    <3>1. PICK i : i \in Bad
      OBVIOUS
    <3>2. Bad \in SUBSET Nat
      OBVIOUS
    <3> HIDE DEF Bad
    <3> QED
      BY <3>1, <3>2, LeastMember
  <2>2. k \in Nat /\ k <= n
    BY <2>1
  <2>3. k # 0
    <3> SUFFICES ASSUME k = 0 PROVE FALSE
      OBVIOUS
    <3>1. 1..k = {}
      OBVIOUS
    <3>2. Runs([i \in 1..k |-> i], k, S)
      BY <3>1 DEF Runs, Follows
    <3> QED
      BY <3>2, <2>1
  <2> DEFINE p == k - 1
  <2>4. p \in Nat /\ p < n /\ p <= n /\ ~ (k <= p) /\ k = p + 1 /\ p # n
    BY <1>1, <2>2, <2>3
  <2> HIDE DEF p
  <2>5. PICK o : Runs(o, p, S)
    <3>1. p \notin Bad
      <4> HIDE DEF Bad
      <4> QED
        BY <2>1, <2>4
    <3> QED
      BY <2>4, <3>1
  <2> DEFINE R == {o[i] : i \in 1..p}
             T == {s.id : s \in S \ R}
  <2>6. S \ R # {}
    <3> SUFFICES ASSUME S \ R = {} PROVE FALSE
      OBVIOUS
    <3>1. R \in SUBSET S
      BY <2>5 DEF Runs
    <3>2. IsFiniteSet(1..p) /\ Cardinality(1..p) = p
      <4>1. Cardinality(1..p) = IF 1 > p THEN 0 ELSE p - 1 + 1
        BY <2>4, FS_Interval
      <4> QED
        BY <2>4, <4>1, FS_Interval
    <3>3. o \in Surjection(1..p, R)
      BY <2>5 DEF Runs, Surjection
    <3>4. Cardinality(R) <= p
      <4> HIDE DEF R
      <4> QED
        BY <3>2, <3>3, FS_Surjection DEF ExistsSurjection
    <3>5. R = S
      BY <3>1
    <3>6. Cardinality(S) <= p
      <4> HIDE DEF R
      <4> QED
        BY <3>4, <3>5
    <3> HIDE DEF R, T, Bad
    <3> QED
      BY <3>6, <2>4, <1>1
  <2>7. T \in SUBSET DOMAIN g /\ T # {}
    BY <2>6 DEF Draws
  <2>8. PICK x \in T : g[x] \intersect T = {}
    <3> HIDE DEF T
    <3> QED
      BY <2>7 DEF Knotted, IsKnot
  <2>9. PICK s \in S \ R : s.id = x
    BY <2>8
  <2>10. s.deps \subseteq {o[j].id : j \in 1..p}
    <3> SUFFICES ASSUME NEW d \in s.deps PROVE d \in {o[j].id : j \in 1..p}
      OBVIOUS
    <3>1. d \in g[x] /\ d \in DOMAIN g
      BY <2>9 DEF Draws
    <3>2. d \notin T
      BY <3>1, <2>8
    <3>3. PICK t \in S : t.id = d
      BY <3>1 DEF Draws
    <3>4. t \in R
      BY <3>2, <3>3
    <3> QED
      BY <3>3, <3>4
  <2> DEFINE q == [i \in 1..k |-> IF i = k THEN s ELSE o[i]]
  <2>11. q[k] = s /\ \A i \in 1..p : q[i] = o[i]
    BY <2>4
  <2>12. \A i \in 1..k : i = k \/ i \in 1..p
    BY <2>4
  <2>13. q \in [1..k -> S]
    BY <2>5, <2>9, <2>12 DEF Runs
  <2> HIDE DEF q
  <2>14. \A i, j \in 1..k : i # j => q[i] # q[j]
    <3> SUFFICES ASSUME NEW i \in 1..k, NEW j \in 1..k, i # j PROVE q[i] # q[j]
      OBVIOUS
    <3>1. \A l \in 1..p : q[l] # s
      BY <2>9, <2>11
    <3>2. CASE i = k
      BY <3>2, <3>1, <2>11, <2>12
    <3>3. CASE j = k
      BY <3>3, <3>1, <2>11, <2>12
    <3>4. CASE i # k /\ j # k
      BY <3>4, <2>11, <2>12, <2>5 DEF Runs
    <3> QED
      BY <3>2, <3>3, <3>4
  <2>15. Follows(q)
    <3> SUFFICES ASSUME NEW i \in 1..k PROVE q[i].deps \subseteq {q[j].id : j \in 1..(i - 1)}
      BY <2>13 DEF Follows
    <3>1. \A j \in 1..(i - 1) : j \in 1..p
      BY <2>2, <2>4
    <3>2. {q[j].id : j \in 1..(i - 1)} = {o[j].id : j \in 1..(i - 1)}
      BY <3>1, <2>11
    <3>3. CASE i = k
      <4>1. i - 1 = p
        BY <3>3, <2>4
      <4> QED
        BY <3>2, <3>3, <4>1, <2>10, <2>11
    <3>4. CASE i # k
      <4>1. i \in 1..p /\ q[i] = o[i]
        BY <3>4, <2>11, <2>12
      <4>2. i \in DOMAIN o
        BY <4>1, <2>5 DEF Runs
      <4>3. o[i].deps \subseteq {o[j].id : j \in 1..(i - 1)}
        BY <4>2, <2>5 DEF Runs, Follows
      <4> QED
        BY <3>2, <4>1, <4>3
    <3> QED
      BY <3>3, <3>4
  <2>16. Runs(q, k, S)
    BY <2>13, <2>14, <2>15 DEF Runs
  <2> QED
    BY <2>16, <2>1
<1>3. n \in Nat /\ n <= n
  BY <1>1
<1> QED
  BY <1>2, <1>3

LEMMA DrawnFromRecipe ==
  ASSUME NEW r \in Recipes,
         \A i, j \in DOMAIN r.steps : r.steps[i].id = r.steps[j].id => i = j,
         \A s \in Flow!StepsOf(r) : s.deps \subseteq Flow!StepIds(r)
  PROVE  Draws([i \in Flow!StepIds(r) |-> (CHOOSE s \in Flow!StepsOf(r) : s.id = i).deps], Flow!StepsOf(r))
<1> DEFINE S == Flow!StepsOf(r)
           g == [i \in Flow!StepIds(r) |-> (CHOOSE s \in S : s.id = i).deps]
<1>1. r.steps \in Seq(S) /\ S = {r.steps[i] : i \in DOMAIN r.steps}
  BY FlowAssumption DEF FlowAssumption, Flow!RecipeAssumption, Flow!StepsOf, Flow!ToSet
<1>2. Flow!StepIds(r) = {s.id : s \in S}
  BY DEF Flow!StepIds
<1> HIDE DEF S
<1>3. IsFiniteSet(S)
  <2> DEFINE f == [i \in 1..Len(r.steps) |-> r.steps[i]]
  <2>1. Len(r.steps) \in Nat /\ DOMAIN r.steps = 1..Len(r.steps)
    BY <1>1
  <2>2. f \in Surjection(1..Len(r.steps), S)
    BY <1>1, <2>1 DEF Surjection
  <2>3. IsFiniteSet(1..Len(r.steps))
    BY <2>1, FS_Interval
  <2> HIDE DEF f
  <2> QED
    BY <2>2, <2>3, FS_Surjection
<1>4. \A s, t \in S : s.id = t.id => s = t
  BY <1>1
<1>5. DOMAIN g = {s.id : s \in S}
  BY <1>2
<1>6. \A s \in S : g[s.id] = s.deps
  <2> SUFFICES ASSUME NEW s \in S PROVE g[s.id] = s.deps
    OBVIOUS
  <2>1. s.id \in Flow!StepIds(r)
    BY <1>2
  <2>2. (CHOOSE t \in S : t.id = s.id) = s
    BY <1>4
  <2> QED
    BY <2>1, <2>2
<1>7. \A s \in S : s.deps \subseteq DOMAIN g
  BY <1>2, <1>5 DEF S
<1> HIDE DEF g
<1>8. Draws(g, S)
  BY <1>3, <1>4, <1>5, <1>6, <1>7 DEF Draws
<1> QED
  BY <1>8 DEF g, S

\* Ids are as many as steps if and only if each is given once.
LEMMA DistinctIds ==
  ASSUME NEW r \in Recipes
  PROVE  Flow!Cardinality(Flow!StepIds(r)) = Len(r.steps)
           <=> \A i, j \in DOMAIN r.steps : r.steps[i].id = r.steps[j].id => i = j
<1> DEFINE n == Len(r.steps)
           f == [i \in 1..n |-> r.steps[i].id]
           I == Flow!StepIds(r)
<1>1. r.steps \in Seq(Flow!StepsOf(r)) /\ Flow!StepsOf(r) = {r.steps[i] : i \in DOMAIN r.steps}
  BY FlowAssumption DEF FlowAssumption, Flow!RecipeAssumption, Flow!StepsOf, Flow!ToSet
<1>2. n \in Nat /\ DOMAIN r.steps = 1..n
  BY <1>1
<1>3. f \in Surjection(1..n, I)
  BY <1>1, <1>2 DEF Surjection, Flow!StepIds
<1>4. IsFiniteSet(1..n) /\ Cardinality(1..n) = n
  <2> HIDE DEF n, f, I
  <2>1. Cardinality(1..n) = IF 1 > n THEN 0 ELSE n - 1 + 1
    BY <1>2, FS_Interval
  <2> QED
    BY <1>2, <2>1, FS_Interval
<1>5. Cardinality(I) = n <=> f \in Injection(1..n, I)
  <2> HIDE DEF f, I, n
  <2>1. f \in Surjection(1..n, I) /\ IsFiniteSet(1..n)
    BY <1>3, <1>4
  <2>2. Cardinality(I) = Cardinality(1..n) <=> f \in Injection(1..n, I)
    BY <2>1, FS_Surjection, Zenon
  <2> QED
    BY <2>2, <1>4
<1>6. f \in Injection(1..n, I) <=> \A i, j \in 1..n : r.steps[i].id = r.steps[j].id => i = j
  BY <1>3 DEF Injection, Surjection, IsInjective
<1>7. Flow!Cardinality(I) = Cardinality(I)
  BY SameCardinality
<1> HIDE DEF f, I, n
<1>8. Flow!Cardinality(I) = n <=> \A i, j \in DOMAIN r.steps : r.steps[i].id = r.steps[j].id => i = j
  BY <1>2, <1>5, <1>6, <1>7
<1> QED
  BY <1>8 DEF I, n

\* Validation refuses exactly the recipes whose steps cannot be run as they are drawn.
LEMMA ValidMeansRunnable ==
  ASSUME NEW r \in Recipes
  PROVE  Flow!Invalid(r) <=> ~ Flow!Runnable(r)
<1> DEFINE S == Flow!StepsOf(r)
           I == Flow!StepIds(r)
           g == [i \in I |-> (CHOOSE s \in S : s.id = i).deps]
           Once == \A i, j \in DOMAIN r.steps : r.steps[i].id = r.steps[j].id => i = j
           Known == \A s \in S : s.deps \union s.refs \subseteq I
           Told == r.out = Implied \/ r.out \in I
           Ordered == \E o : Runs(o, Cardinality(S), S)
<1>1. r.steps \in Seq(S)
  BY FlowAssumption DEF FlowAssumption, Flow!RecipeAssumption
<1>2. Len(r.steps) = 0 <=> r.steps = <<>>
  BY <1>1
<1>3. Flow!Invalid(r) <=> \/ Len(r.steps) = 0 \/ ~ Once \/ ~ Known \/ ~ Told
                          \/ Flow!HasCycle(g)
  BY DistinctIds DEF Flow!Invalid
<1>4. Flow!Runnable(r) <=> r.steps # <<>> /\ Once /\ Known /\ Told /\ Ordered
  <2>1. Flow!SetToSeqs(S) = {o \in [1..Cardinality(S) -> S] : \A i, j \in 1..Cardinality(S) : i # j => o[i] # o[j]}
    <3>1. Flow!Cardinality(S) = Cardinality(S)
      BY SameCardinality
    <3> HIDE DEF S
    <3> QED
      BY <3>1 DEF Flow!SetToSeqs
  <2>2. Ordered <=> \E o \in Flow!SetToSeqs(S) :
                      \A i \in DOMAIN o : o[i].deps \subseteq {o[j].id : j \in 1..(i - 1)}
    <3> HIDE DEF S
    <3> QED
      BY <2>1 DEF Runs, Follows
  <2>3. Known <=> UNION {s.deps \union s.refs : s \in S} \subseteq I
    OBVIOUS
  <2> HIDE DEF Ordered, Known
  <2> QED
    BY <2>2, <2>3 DEF Flow!Runnable
<1>5. ASSUME Once, Known PROVE Flow!HasCycle(g) <=> ~ Ordered
  <2>1. Draws(g, S)
    <3>1. \A s \in Flow!StepsOf(r) : s.deps \subseteq Flow!StepIds(r)
      BY <1>5
    <3> QED
      BY <1>5, <3>1, DrawnFromRecipe
  <2> HIDE DEF g, S, I
  <2>2. Flow!HasCycle(g) <=> Knotted(g)
    BY <2>1, DrawnGraph, CycleIsKnot
  <2> QED
    BY <2>1, <2>2, OrderMeansNoKnot, NoKnotMeansOrder
<1> HIDE DEF Once, Known, Told, Ordered, g, S, I
<1> QED
  BY <1>2, <1>3, <1>4, <1>5

LEMMA VerdictStep ==
  ASSUME WholeInv, Flow!Verdict, [Flow!Next]_flowVars
  PROVE  Flow!Verdict'
<1>1. recipe \in Recipes
  BY DEF WholeInv
<1>2. recipe' = recipe /\ given' = given
  BY DEF Flow!Next, flowVars, Flow!Call, Flow!StartWave, Flow!EndWave, Flow!Return, Flow!Cancel,
         Flow!Acquire, Flow!Finish, Flow!Ended, Flow!vars
<1>3. Flow!Runnable(recipe)' = Flow!Runnable(recipe)
  BY <1>2 DEF Flow!Runnable, Flow!StepsOf, Flow!StepIds
<1>4. CASE Flow!Call
  <2>1. phase' = "refused" <=> Flow!Invalid(recipe) \/ Flow!MissesInput(recipe)
    BY <1>4 DEF Flow!Call
  <2>2. Flow!Invalid(recipe) <=> ~ Flow!Runnable(recipe)
    BY <1>1, ValidMeansRunnable
  <2> HIDE DEF Flow!Runnable
  <2> QED
    BY <1>2, <1>3, <2>1, <2>2 DEF Flow!Verdict, Flow!MissesInput
<1>5. CASE ~ Flow!Call
  <2>1. phase' = phase \/ (phase = "running" /\ phase' \in {"returned", "cancelled"})
    BY <1>5 DEF Flow!Next, flowVars, Flow!StartWave, Flow!EndWave, Flow!Return, Flow!Cancel,
         Flow!Acquire, Flow!Finish, Flow!Ended, Flow!vars
  <2> HIDE DEF Flow!Runnable
  <2> QED
    BY <1>2, <1>3, <2>1 DEF Flow!Verdict
<1> QED
  BY <1>4, <1>5

-----------------------------------------------------------------------------
(* The whole run, and its types *)

\* The number of a step is that of a place in the recipe where its id stands.
LEMMA StepNoIs ==
  ASSUME recipe \in Recipes, NEW s \in Flow!StepIds(recipe)
  PROVE  /\ Len(recipe.steps) \in Nat
         /\ Flow!StepNo(s) \in 1..Len(recipe.steps) /\ recipe.steps[Flow!StepNo(s)].id = s
<1> DEFINE n == Len(recipe.steps)
           Left == {n - i : i \in {j \in 1..n : recipe.steps[j].id = s}}
<1>1. recipe.steps \in Seq(Flow!StepsOf(recipe))
  BY FlowAssumption DEF FlowAssumption, Flow!RecipeAssumption
<1>2. n \in Nat /\ DOMAIN recipe.steps = 1..n
  BY <1>1
<1>3. PICK i \in 1..n : recipe.steps[i].id = s
  BY <1>2 DEF Flow!StepIds, Flow!StepsOf, Flow!ToSet
<1>4. PICK l \in Left : \A k \in Left : l <= k
  <2>1. Left \in SUBSET Nat /\ n - i \in Left
    BY <1>2, <1>3
  <2> HIDE DEF Left
  <2> QED
    BY <2>1, LeastMember
<1>5. PICK j \in 1..n : recipe.steps[j].id = s /\ l = n - j
  BY <1>4
<1>6. \A k \in 1..n : recipe.steps[k].id = s => k <= j
  <2> SUFFICES ASSUME NEW k \in 1..n, recipe.steps[k].id = s PROVE k <= j
    OBVIOUS
  <2>1. n - k \in Left
    OBVIOUS
  <2>2. n - j <= n - k
    <3> HIDE DEF Left
    <3> QED
      BY <2>1, <1>4, <1>5
  <2> HIDE DEF n, Left
  <2> QED
    BY <2>2, <1>2, <1>5
<1> HIDE DEF n
<1> QED
  BY <1>2, <1>5, <1>6 DEF Flow!StepNo, n

\* The members of a set of steps in order are all of them, each once.
LEMMA InOrderIs ==
  ASSUME recipe \in Recipes, NEW S \in SUBSET Flow!StepIds(recipe)
  PROVE  /\ IsFiniteSet(S)
         /\ Flow!InOrder(S) \in Seq(S) /\ Len(Flow!InOrder(S)) = Cardinality(S)
         /\ Flow!ToSet(Flow!InOrder(S)) = S
<1> DEFINE n == Len(recipe.steps)
           D == {Flow!StepNo(s) : s \in S}
           f == [i \in D |-> recipe.steps[i].id]
           c == Cardinality(S)
           q == Flow!InOrder(S)
<1>1. \A s \in S : n \in Nat /\ Flow!StepNo(s) \in 1..n /\ recipe.steps[Flow!StepNo(s)].id = s
  BY StepNoIs
<1>2. n \in Nat
  BY FlowAssumption DEF FlowAssumption, Flow!RecipeAssumption
<1>3. D \in SUBSET (1..n)
  BY <1>1
<1>4. f \in Bijection(D, S)
  <2>1. \A i \in D : recipe.steps[i].id \in S /\ Flow!StepNo(recipe.steps[i].id) = i
    BY <1>1
  <2>2. \A s \in S : Flow!StepNo(s) \in D /\ recipe.steps[Flow!StepNo(s)].id = s
    BY <1>1
  <2> HIDE DEF D
  <2>3. f \in [D -> S]
    BY <2>1
  <2>4. \A i, j \in D : f[i] = f[j] => i = j
    BY <2>1
  <2>5. \A s \in S : f[Flow!StepNo(s)] = s
    BY <2>2
  <2> HIDE DEF f
  <2> QED
    BY <2>2, <2>3, <2>4, <2>5 DEF Bijection, Injection, Surjection, IsInjective
<1> HIDE DEF n
<1>5. IsFiniteSet(D) /\ Cardinality(D) \in Nat
  <2> HIDE DEF D
  <2> QED
    BY <1>2, <1>3, PlacesCount
<1>6. IsFiniteSet(S) /\ c = Cardinality(D)
  <2> HIDE DEF D, f
  <2> QED
    BY <1>4, <1>5, FS_Bijection DEF ExistsBijection
<1>7. q = [k \in 1..c |-> CHOOSE s \in S : Cardinality(UpTo(D, Flow!StepNo(s))) = k]
  BY DEF Flow!InOrder, UpTo, Flow!Cardinality, Cardinality
<1> HIDE DEF q, c
<1>8. \A k \in 1..c : q[k] \in S /\ Cardinality(UpTo(D, Flow!StepNo(q[k]))) = k
  <2> SUFFICES ASSUME NEW k \in 1..c
               PROVE  q[k] \in S /\ Cardinality(UpTo(D, Flow!StepNo(q[k]))) = k
    OBVIOUS
  <2>1. Place(D, k) \in D /\ Cardinality(UpTo(D, Place(D, k))) = k
    <3> HIDE DEF D
    <3> QED
      BY <1>2, <1>3, <1>6, PlaceIs
  <2>2. \E s \in S : Cardinality(UpTo(D, Flow!StepNo(s))) = k
    BY <2>1
  <2> HIDE DEF D
  <2> QED
    BY <2>2, <1>7
<1>9. ASSUME NEW s \in S PROVE \E k \in 1..c : q[k] = s
  <2> DEFINE i == Flow!StepNo(s)
             k == Cardinality(UpTo(D, i))
  <2>1. i \in D /\ i \in Nat /\ i - 1 \in Nat /\ i \in 1..n
    BY <1>1, <1>2, <1>3
  <2> HIDE DEF D, i
  <2>2. k \in Nat /\ k = Cardinality(UpTo(D, i - 1)) + 1 /\ Cardinality(UpTo(D, i - 1)) \in Nat
    BY <1>2, <1>3, <2>1, PlacesCount
  <2>3. k <= Cardinality(D)
    <3>1. UpTo(D, i) \in SUBSET D
      BY DEF UpTo
    <3> QED
      BY <3>1, <1>5, FS_Subset
  <2>4. k \in 1..c
    <3> HIDE DEF k
    <3> QED
      BY <2>2, <2>3, <1>5, <1>6
  <2>5. q[k] \in S /\ Cardinality(UpTo(D, Flow!StepNo(q[k]))) = k
    BY <2>4, <1>8
  <2>6. Flow!StepNo(q[k]) \in D
    BY <2>5 DEF D
  <2>7. Flow!StepNo(q[k]) = i
    BY <1>2, <1>3, <2>1, <2>5, <2>6, PlaceOnly
  <2>8. q[k] = s
    BY <2>5, <2>7, <1>1 DEF i
  <2> QED
    BY <2>4, <2>8
<1>10. c \in Nat
  BY <1>5, <1>6
<1>11. q \in Seq(S) /\ Len(q) = c
  <2>1. q \in [1..c -> S]
    BY <1>7, <1>8
  <2> QED
    BY <2>1, <1>10
<1>12. Flow!ToSet(q) = S
  BY <1>7, <1>8, <1>9 DEF Flow!ToSet
<1> QED
  BY <1>6, <1>11, <1>12 DEF q, c

\* The steps that are done and have failed are reported, each once.
Erred == {s \in done : out[s] = "error"}
Reported ==
  /\ failed \in Seq(done) /\ IsFiniteSet(Erred)
  /\ Len(failed) = Cardinality(Erred) /\ Flow!ToSet(failed) = Erred

TallyInv ==
  /\ phase # "cancelled" => \A s \in Labels : out[s] # "none" => s \in done \union wave
  /\ pending \intersect done = {} /\ done \subseteq Flow!StepIds(recipe)
  /\ Reported

LEMMA TallyInit == Flow!Init => TallyInv
<1> SUFFICES ASSUME Flow!Init PROVE TallyInv
  OBVIOUS
<1>1. done = {} /\ failed = <<>> /\ pending = {} /\ \A s \in Labels : out[s] = "none"
  BY DEF Flow!Init
<1>2. Erred = {}
  BY <1>1 DEF Erred
<1>3. Flow!ToSet(failed) = {} /\ Len(failed) = 0 /\ failed \in Seq(done)
  BY <1>1 DEF Flow!ToSet
<1>4. IsFiniteSet(Erred) /\ Cardinality(Erred) = 0
  BY <1>2, FS_EmptySet
<1> QED
  BY <1>1, <1>2, <1>3, <1>4, Zenon DEF TallyInv, Reported

\* What is reported stays as long as what is done does, and its outputs.
LEMMA ReportedStays ==
  ASSUME Reported, done' = done, failed' = failed, \A s \in done : out'[s] = out[s]
  PROVE  Reported'
<1>1. Erred' = Erred
  BY DEF Erred
<1> QED
  BY <1>1 DEF Reported

LEMMA TallyEndWave ==
  ASSUME WholeInv, FlowInv, TallyInv, Flow!EndWave
  PROVE  TallyInv'
<1> DEFINE W == {s \in wave : out[s] = "error"}
           q == Flow!InOrder(W)
<1>1. /\ done' = done \union wave /\ pending' = pending \ wave /\ wave' = {}
      /\ failed' = failed \o q /\ UNCHANGED <<recipe, phase, out>>
  BY DEF Flow!EndWave
<1>2. wave \subseteq pending /\ pending \subseteq Flow!StepIds(recipe) /\ recipe \in Recipes
  BY DEF WholeInv
<1>3. IsFiniteSet(W) /\ q \in Seq(W) /\ Len(q) = Cardinality(W) /\ Flow!ToSet(q) = W
  <2>1. W \in SUBSET Flow!StepIds(recipe)
    BY <1>2
  <2> HIDE DEF W
  <2> QED
    BY <2>1, <1>2, InOrderIs
<1>4. Erred' = Erred \union W /\ Erred \intersect W = {}
  BY <1>1, <1>2 DEF Erred, TallyInv
<1>5. failed \in Seq(done) /\ IsFiniteSet(Erred) /\ Len(failed) = Cardinality(Erred)
      /\ Flow!ToSet(failed) = Erred
  BY DEF TallyInv, Reported
<1>6. W \subseteq done'
  BY <1>1
<1> HIDE DEF W, q
<1>7. failed \in Seq(done') /\ q \in Seq(done') /\ failed' \in Seq(done')
  BY <1>1, <1>3, <1>5, <1>6
<1>8. Len(failed') = Cardinality(Erred')
  <2>1. Cardinality(Erred \union W) = Cardinality(Erred) + Cardinality(W) - Cardinality(Erred \intersect W)
    BY <1>3, <1>5, FS_Union
  <2>2. Cardinality(Erred \intersect W) = 0
    BY <1>4, FS_EmptySet
  <2>3. Cardinality(Erred) \in Nat /\ Cardinality(W) \in Nat
    BY <1>3, <1>5, FS_CardinalityType
  <2>4. Len(failed \o q) = Len(failed) + Len(q)
    BY <1>7
  <2> QED
    BY <2>1, <2>2, <2>3, <2>4, <1>1, <1>3, <1>4, <1>5
<1>9. Flow!ToSet(failed') = Erred'
  <2>1. Flow!ToSet(failed \o q) = Flow!ToSet(failed) \union Flow!ToSet(q)
    <3>1. failed \in Seq(done') /\ q \in Seq(done')
      BY <1>7
    <3>2. /\ DOMAIN (failed \o q) = 1..(Len(failed) + Len(q))
          /\ \A i \in 1..(Len(failed) + Len(q)) :
               (failed \o q)[i] = IF i <= Len(failed) THEN failed[i] ELSE q[i - Len(failed)]
      BY <3>1
    <3>3. DOMAIN failed = 1..Len(failed) /\ DOMAIN q = 1..Len(q) /\ Len(failed) \in Nat /\ Len(q) \in Nat
      BY <3>1
    <3>4. ASSUME NEW i \in 1..Len(failed) PROVE failed[i] \in Flow!ToSet(failed \o q)
      BY <3>2, <3>3, <3>4 DEF Flow!ToSet
    <3>5. ASSUME NEW i \in 1..Len(q) PROVE q[i] \in Flow!ToSet(failed \o q)
      <4>1. i + Len(failed) \in 1..(Len(failed) + Len(q)) /\ ~ (i + Len(failed) <= Len(failed))
            /\ i + Len(failed) - Len(failed) = i
        BY <3>3
      <4> QED
        BY <3>2, <4>1 DEF Flow!ToSet
    <3>6. ASSUME NEW i \in 1..(Len(failed) + Len(q))
          PROVE  (failed \o q)[i] \in Flow!ToSet(failed) \union Flow!ToSet(q)
      BY <3>2, <3>3 DEF Flow!ToSet
    <3> QED
      BY <3>2, <3>3, <3>4, <3>5, <3>6 DEF Flow!ToSet
  <2> QED
    BY <2>1, <1>1, <1>3, <1>4, <1>5
<1>10. IsFiniteSet(Erred')
  BY <1>3, <1>4, <1>5, FS_Union
<1>11. Reported'
  BY <1>7, <1>8, <1>9, <1>10 DEF Reported
<1>12. Flow!StepIds(recipe)' = Flow!StepIds(recipe)
  BY <1>1
<1>13. pending' \intersect done' = {} /\ done' \subseteq Flow!StepIds(recipe)
  BY <1>1, <1>2 DEF TallyInv
<1>14. phase' # "cancelled" => \A s \in Labels : out'[s] # "none" => s \in done' \union wave'
  BY <1>1 DEF TallyInv
<1> QED
  BY <1>11, <1>12, <1>13, <1>14 DEF TallyInv

LEMMA TallyStep ==
  ASSUME WholeInv, FlowInv, TallyInv, [Flow!Next]_flowVars
  PROVE  TallyInv'
<1>1. CASE Flow!EndWave
  BY <1>1, TallyEndWave
<1>2. CASE Flow!Call
  <2>1. /\ UNCHANGED <<recipe, wave, out, done, failed>> /\ phase' # "cancelled" /\ phase = "called"
        /\ pending' \subseteq Flow!StepIds(recipe) \union pending
    BY <1>2 DEF Flow!Call
  <2>2. done = {}
    BY <2>1 DEF WholeInv
  <2>3. Reported'
    BY <2>1, ReportedStays DEF TallyInv
  <2> QED
    BY <2>1, <2>2, <2>3 DEF TallyInv
<1>3. CASE Flow!StartWave
  <2>1. /\ UNCHANGED <<recipe, phase, pending, out, done, failed>> /\ wave = {}
    BY <1>3 DEF Flow!StartWave
  <2>2. Reported'
    BY <2>1, ReportedStays DEF TallyInv
  <2> QED
    BY <2>1, <2>2, SameRecipe DEF TallyInv
<1>4. CASE Flow!Return \/ UNCHANGED flowVars \/ (\E s \in Labels : Flow!Acquire(s))
  <2>1. /\ UNCHANGED <<recipe, pending, wave, out, done, failed>>
        /\ phase' = "cancelled" <=> phase = "cancelled"
    BY <1>4 DEF Flow!Return, flowVars, Flow!Acquire
  <2>2. Reported'
    BY <2>1, ReportedStays DEF TallyInv
  <2> QED
    BY <2>1, <2>2, SameRecipe DEF TallyInv
<1>5. ASSUME NEW s \in Labels, Flow!Finish(s) PROVE TallyInv'
  <2>1. /\ UNCHANGED <<recipe, phase, pending, wave, done, failed>> /\ s \in slot
        /\ \E result \in {"ok", "error"} : out' = [out EXCEPT ![s] = result]
    BY <1>5 DEF Flow!Finish
  <2>2. s \in wave /\ s \notin done
    BY <2>1 DEF FlowInv, WholeInv, TallyInv
  <2>3. \A t : t # s => out'[t] = out[t]
    BY <2>1
  <2>4. Reported'
    BY <2>1, <2>2, <2>3, ReportedStays DEF TallyInv
  <2> QED
    BY <2>1, <2>2, <2>3, <2>4, SameRecipe DEF TallyInv
<1>6. CASE Flow!Cancel
  <2>1. /\ UNCHANGED <<recipe, pending, done, failed>> /\ phase' = "cancelled"
        /\ out' = [s \in Labels |-> IF s \in slot THEN "stopped" ELSE out[s]]
    BY <1>6 DEF Flow!Cancel
  <2>2. done \subseteq Labels
    BY FlowAssumption DEF TallyInv, WholeInv, FlowAssumption, Flow!RecipeAssumption
  <2>3. \A s \in done : out'[s] = out[s]
    BY <2>1, <2>2 DEF FlowInv, WholeInv, TallyInv
  <2>4. Reported'
    BY <2>1, <2>3, ReportedStays DEF TallyInv
  <2> QED
    BY <2>1, <2>4, SameRecipe DEF TallyInv
<1> QED
  BY <1>1, <1>2, <1>3, <1>4, <1>5, <1>6 DEF Flow!Next, Flow!Ended, Flow!vars, flowVars

LEMMA WholeRun ==
  ASSUME WholeInv, FlowInv, TallyInv
  PROVE  Flow!RunIsWhole
<1> SUFFICES ASSUME phase = "returned" PROVE Flow!RunIsWhole
  BY DEF Flow!RunIsWhole
<1>1. /\ done = Flow!StepIds(recipe)
      /\ \A s \in done : out[s] # "none"
      /\ Flow!Rendered(Flow!OutRefs(recipe)) = Flow!OutRefs(recipe)
  BY WholeWhenReturned
<1>2. wave = {} /\ done \subseteq Labels
  BY FlowAssumption, <1>1 DEF WholeInv, FlowAssumption, Flow!RecipeAssumption
<1>3. {s \in Labels : out[s] = "error"} = Erred
  BY <1>2 DEF TallyInv, Erred
<1>4. /\ Len(failed) = Flow!Cardinality({s \in Labels : out[s] = "error"})
      /\ Flow!ToSet(failed) = {s \in Labels : out[s] = "error"}
  BY <1>3, SameCardinality DEF TallyInv, Reported
<1> QED
  BY <1>1, <1>4 DEF Flow!RunIsWhole

\* For every recipe (engine.py, validate_recipe and execute_workflow): a run is refused if and
\* only if its steps have no order in which each comes after what it depends on, or an input,
\* id or reference is amiss; what is let in runs whole, with its prompts filled, and reports
\* each failure once.
THEOREM WorkflowsAreSound == Spec => []RunSound
<1> DEFINE Inv == FlowInv /\ WholeInv /\ TallyInv /\ Flow!Verdict
<1>1. Init => Inv
  <2>1. Flow!Init => Flow!Verdict
    BY DEF Flow!Init, Flow!Verdict
  <2> QED
    BY <2>1, FlowInit, WholeInit, TallyInit DEF Init
<1>2. Inv /\ [Next]_vars => Inv'
  <2> SUFFICES ASSUME Inv, [Next]_vars PROVE Inv'
    OBVIOUS
  <2>1. FlowInv' /\ WholeInv'
    BY FlowTogether
  <2>2. TallyInv' /\ Flow!Verdict'
    BY FlowMoves, TallyStep, VerdictStep
  <2> QED
    BY <2>1, <2>2
<1>3. Inv => RunSound
  BY WholeRun DEF RunSound, Flow!RunSound, WholeInv
<1> QED
  BY <1>1, <1>2, <1>3, PTL DEF Spec

FlowTyped ==
  /\ given \in {"absent", "empty", "value"}
  /\ phase \in {"called", "running", "returned", "refused", "cancelled"}
  /\ out \in [Labels -> {"none", "ok", "error", "stopped"}]
  /\ seen \in [Labels -> SUBSET Labels]
  /\ Cardinality(slot) <= MaxConcurrency

LEMMA FlowTypedStep ==
  ASSUME FlowTyped, WholeInv, FlowInv, TallyInv, [Flow!Next]_flowVars
  PROVE  FlowTyped'
<1>1. CASE Flow!Call \/ Flow!EndWave \/ Flow!Return \/ Flow!Ended \/ UNCHANGED flowVars
  BY <1>1 DEF FlowTyped, Flow!Call, Flow!EndWave, Flow!Return, Flow!Ended, Flow!vars, flowVars
<1>2. CASE Flow!StartWave
  <2>1. /\ UNCHANGED <<given, phase, out, slot>>
        /\ seen' = [s \in Labels |-> IF s \in wave' THEN Flow!RefsOf(s) \intersect done ELSE seen[s]]
    BY <1>2 DEF Flow!StartWave, Flow!Rendered
  <2>2. done \subseteq Labels
    BY FlowAssumption DEF TallyInv, WholeInv, FlowAssumption, Flow!RecipeAssumption
  <2> QED
    BY <2>1, <2>2 DEF FlowTyped
<1>3. ASSUME NEW s \in Labels, Flow!Acquire(s) PROVE FlowTyped'
  <2>1. /\ UNCHANGED <<given, phase, out, seen>> /\ slot' = slot \union {s}
        /\ Cardinality(slot) < MaxConcurrency /\ s \notin slot
    BY <1>3, SameCardinality DEF Flow!Acquire, Flow!Waiting
  <2>2. MaxConcurrency \in Nat /\ IsFiniteSet(Labels)
    BY FlowAssumption DEF FlowAssumption, Flow!RecipeAssumption, IsFiniteSet, Flow!IsFiniteSet
  <2>3. IsFiniteSet(slot)
    <3>1. slot \in SUBSET Labels
      BY DEF FlowInv
    <3> QED
      BY <3>1, <2>2, FS_Subset
  <2>4. Cardinality(slot') = Cardinality(slot) + 1 /\ Cardinality(slot) \in Nat
    BY <2>1, <2>3, FS_AddElement, FS_CardinalityType
  <2>5. Cardinality(slot') <= MaxConcurrency
    BY <2>1, <2>2, <2>4
  <2> QED
    BY <2>1, <2>5 DEF FlowTyped
<1>4. ASSUME NEW s \in Labels, Flow!Finish(s) PROVE FlowTyped'
  <2>1. /\ UNCHANGED <<given, phase, seen>> /\ slot' = slot \ {s} /\ s \in slot
        /\ \E result \in {"ok", "error"} : out' = [out EXCEPT ![s] = result]
    BY <1>4 DEF Flow!Finish
  <2>2. MaxConcurrency \in Nat /\ IsFiniteSet(Labels)
    BY FlowAssumption DEF FlowAssumption, Flow!RecipeAssumption, IsFiniteSet, Flow!IsFiniteSet
  <2>3. IsFiniteSet(slot) /\ Cardinality(slot) \in Nat
    <3>1. slot \in SUBSET Labels
      BY DEF FlowInv
    <3> QED
      BY <3>1, <2>2, FS_Subset, FS_CardinalityType
  <2>4. Cardinality(slot') = Cardinality(slot) - 1
    BY <2>1, <2>3, FS_RemoveElement
  <2>5. Cardinality(slot') <= MaxConcurrency
    BY <2>2, <2>3, <2>4 DEF FlowTyped
  <2>6. out' \in [Labels -> {"none", "ok", "error", "stopped"}]
    BY <2>1 DEF FlowTyped
  <2> QED
    BY <2>1, <2>5, <2>6 DEF FlowTyped
<1>5. CASE Flow!Cancel
  <2>1. /\ UNCHANGED <<given, seen>> /\ phase' = "cancelled" /\ slot' = {}
        /\ out' = [s \in Labels |-> IF s \in slot THEN "stopped" ELSE out[s]]
    BY <1>5 DEF Flow!Cancel
  <2>2. Cardinality(slot') <= MaxConcurrency
    BY <2>1, FS_EmptySet, FlowAssumption DEF FlowAssumption, Flow!RecipeAssumption
  <2> QED
    BY <2>1, <2>2 DEF FlowTyped
<1> QED
  BY <1>1, <1>2, <1>3, <1>4, <1>5 DEF Flow!Next

LEMMA TaskTypeOK == TaskType => Task!TypeOK
<1> SUFFICES ASSUME TaskType PROVE Task!TypeOK
  OBVIOUS
<1>1. Task!Text = Texts /\ Task!TaskState = State
  BY DEF Task!Text, Texts, Task!TaskState, Task!Protocol!TaskState, State
<1>2. \A t \in Tasks : \A i \in DOMAIN queue[t] : queue[t][i] \in Event
  BY DEF TaskType
<1> QED
  BY <1>1, <1>2 DEF TaskType, Task!TypeOK, Event, RunRecord

\* For any numbers of tasks, turns, texts and steps: task, goal and workflow have the shape of
\* the code's state (a2a_executor.py, graph/goals/, graph/workflows/engine.py), and no more steps
\* run than the semaphore has permits.
THEOREM TurnsTyped == Spec => []TypeOK
<1> DEFINE Inv == TaskInv /\ GoalInv /\ FlowInv /\ WholeInv /\ TallyInv /\ FlowTyped
<1>1. Init => Inv
  <2>1. Flow!Init => FlowTyped
    <3>1. MaxConcurrency \in Nat
      BY FlowAssumption DEF FlowAssumption, Flow!RecipeAssumption
    <3> QED
      BY <3>1, FS_EmptySet DEF Flow!Init, FlowTyped
  <2> QED
    BY <2>1, TaskInvInit, GoalInvInit, FlowInit, WholeInit, TallyInit DEF Init
<1>2. Inv /\ [Next]_vars => Inv'
  <2> SUFFICES ASSUME Inv, [Next]_vars PROVE Inv'
    OBVIOUS
  <2>1. TaskInv' /\ GoalInv'
    BY TaskMoves, TaskInvStep, GoalMoves, GoalInvStep
  <2>2. FlowInv' /\ WholeInv'
    BY FlowTogether
  <2>3. TallyInv' /\ FlowTyped'
    BY FlowMoves, TallyStep, FlowTypedStep
  <2> QED
    BY <2>1, <2>2, <2>3
<1>3. Inv => TypeOK
  <2> SUFFICES ASSUME Inv PROVE TypeOK
    OBVIOUS
  <2>1. Task!TypeOK
    BY TaskTypeOK DEF TaskInv
  <2>2. Goal!TypeOK
    BY GoalTypeOK DEF GoalInv
  <2>3. Flow!TypeOK
    <3>1. slot \subseteq wave /\ wave \subseteq pending /\ pending \subseteq Flow!StepIds(recipe)
          /\ recipe \in Recipes
      BY DEF FlowInv, WholeInv
    <3>2. done \subseteq Flow!StepIds(recipe) /\ failed \in Seq(done)
      BY DEF TallyInv, Reported
    <3> QED
      BY <3>1, <3>2, SameCardinality DEF Flow!TypeOK, FlowTyped
  <2> QED
    BY <2>1, <2>2, <2>3 DEF TypeOK
<1> QED
  BY <1>1, <1>2, <1>3, PTL DEF Spec
=============================================================================
