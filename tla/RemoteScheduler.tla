-------------------------- MODULE RemoteScheduler --------------------------
(***************************************************************************)
(* The Workstacean backend of the scheduler (scheduler/workstacean.py):    *)
(* several agents publish commands to one install, which keeps the jobs.   *)
(* The HTTP answer says only that a command was published; the install     *)
(* takes the commands in order.  A name or job id is the sequence of its   *)
(* parts between the dashes.                                               *)
(***************************************************************************)
EXTENDS Integers, SequencesExt

CONSTANTS Agents,   \* agent names
          Ids,      \* job ids as the tools pass them on
          Words,    \* what stands between dashes
          Prompts,
          MaxCalls  \* bound: calls of the tools

RemoteAssumption == MaxCalls \in Nat /\ Agents \cup Ids \subseteq Seq(Words) \ {<< >>}

VARIABLES bus,    \* commands published and not yet taken
          jobs,   \* the install's jobs
          told,   \* agent -> full id -> what its last call about the job told it
          calls   \* calls made

remoteVars == <<bus, jobs, told, calls>>

(* _namespaced_id: an id that already starts with the name is left alone. *)
NamespacedId(a, id) == IF IsStrictPrefix(a, id) THEN id ELSE a \o id
FullIds == {NamespacedId(a, id) : a \in Agents, id \in Ids}

Absent == [is |-> "absent"]
Added(p) == [is |-> "added", prompt |-> p]
Removed == [is |-> "removed"]
Unsure == [is |-> "unsure"]
Nothing == [is |-> "nothing"]

Init == /\ bus = << >>
        /\ jobs = [i \in FullIds |-> Absent]
        /\ told = [a \in Agents |-> [i \in FullIds |-> Nothing]]
        /\ calls = 0

(* _publish: accepted; refused or never arrived, which raises; or accepted and *)
(* the answer lost, which raises too.                                          *)
Publish(command, a, answer) ==
  \/ bus' = Append(bus, command) /\ told' = [told EXCEPT ![a][command.id] = answer]
  \/ bus' = Append(bus, command) /\ told' = [told EXCEPT ![a][command.id] = Unsure]
  \/ UNCHANGED bus /\ told' = [told EXCEPT ![a][command.id] = Unsure]

Counted == calls < MaxCalls /\ calls' = calls + 1

(* A blank prompt or a malformed schedule raises before anything is sent. *)
AddJob(a, id, p) ==
  /\ Counted
  /\ Publish([action |-> "add", id |-> NamespacedId(a, id), prompt |-> p, agent |-> a], a, Added(p))
  /\ UNCHANGED jobs

CancelJob(a, id) ==
  /\ Counted
  /\ Publish([action |-> "remove", id |-> NamespacedId(a, id)], a, Removed)
  /\ UNCHANGED jobs

Effect(command) ==
  IF command.action = "add"
  THEN [is |-> "kept", prompt |-> command.prompt, agent |-> command.agent] ELSE Absent

(* The install takes the next command: a job added under an id replaces it. *)
Take ==
  /\ bus # << >>
  /\ jobs' = [jobs EXCEPT ![Head(bus).id] = Effect(Head(bus))]
  /\ bus' = Tail(bus)
  /\ UNCHANGED <<told, calls>>

Next ==
  \/ \E a \in Agents, id \in Ids : CancelJob(a, id) \/ \E p \in Prompts : AddJob(a, id, p)
  \/ Take

Spec == Init /\ [][Next]_remoteVars

(***************************************************************************)
(* Properties                                                              *)
(***************************************************************************)
(* Commands, jobs and what the agents were told have their types. *)
TypeOK ==
  /\ \A n \in DOMAIN bus : bus[n].id \in FullIds /\ bus[n].action \in {"add", "remove"}
  /\ jobs \in [FullIds -> {Absent} \cup [is : {"kept"}, prompt : Prompts, agent : Agents]]
  /\ told \in [Agents -> [FullIds -> {Nothing, Unsure, Removed} \cup [is : {"added"}, prompt : Prompts]]]
  /\ calls \in 0..MaxCalls

(* What becomes of job i when the install has taken what is on the bus. *)
Settled(i) ==
  LET about == {n \in DOMAIN bus : bus[n].id = i}
  IN IF about = {} THEN jobs[i] ELSE Effect(bus[Max(about)])

(* No agent's name starts with another's and a dash. *)
Apart == \A a, b \in Agents : ~IsStrictPrefix(a, b)

(* Several agents share one install "without cross-firing": whatever they publish   *)
(* in whatever order, and whichever answers are lost, a job an agent was told it    *)
(* has is, once the commands are taken, its own and with its last prompt, and one   *)
(* it was told is cancelled is gone, where no name is the beginning of another's.   *)
JobsApart ==
  Apart => \A a \in Agents, i \in FullIds :
    /\ told[a][i].is = "added" =>
         Settled(i) = [is |-> "kept", prompt |-> told[a][i].prompt, agent |-> a]
    /\ told[a][i].is = "removed" => Settled(i) = Absent

(* Not so: the same of any names: agent "gina" with the job "work-x" and agent     *)
(* "gina-work" with the job "x" have one job between them.                         *)
JobsAlwaysApart ==
  \A a \in Agents, i \in FullIds : told[a][i].is = "added" =>
    Settled(i) = [is |-> "kept", prompt |-> told[a][i].prompt, agent |-> a]
=============================================================================
