---------------------------- MODULE ExecuteCode ----------------------------
(***************************************************************************)
(* The execute_code tool (tools/execute_code.py): a script runs in a child *)
(* process and calls the agent's tools over two pipes; the parent serves   *)
(* the calls while it waits for the child under a timeout, and takes all   *)
(* of it down at the end, which may be the child's exit, the timeout, a    *)
(* failed start or the cancellation of the turn.  The child matches a      *)
(* response with its call only by order.                                   *)
(***************************************************************************)
EXTENDS Integers, Sequences, FiniteSets

CONSTANTS MaxCalls,   \* bound: tool calls of the script
          Runs        \* bound: calls of execute_code, one after another

CodeAssumption == {MaxCalls, Runs} \subseteq Nat

Fds == {"req_r", "req_w", "resp_r", "resp_w"}

VARIABLES parent,   \* where run_code is
          runs,
          child,    \* the child process
          req, resp,\* what is in the pipes: numbers of calls
          service,  \* _service_rpc: reading, invoking a tool, writing back, or done
          got,      \* responses the script has read
          fds,      \* descriptors the parent holds
          file      \* the script's file exists

vars == <<parent, runs, child, req, resp, service, got, fds, file>>

Absent == [at |-> "absent", asked |-> 0]
Off == [at |-> "off", id |-> 0]

Init == /\ parent = "idle" /\ runs = 0 /\ child = Absent /\ req = << >> /\ resp = << >>
        /\ service = Off /\ got = << >> /\ fds = {} /\ file = FALSE

(***************************************************************************)
(* The parent.                                                             *)
(***************************************************************************)
Begin == /\ parent = "idle" /\ runs < Runs /\ runs' = runs + 1
         /\ parent' = "starting" /\ file' = TRUE /\ fds' = Fds
         /\ child' = Absent /\ req' = << >> /\ resp' = << >> /\ got' = << >> /\ service' = Off

(* The outer finally: transports, descriptors, file. *)
CleanUp == parent' = "idle" /\ file' = FALSE /\ fds' = {}

SpawnFails == /\ parent = "starting" /\ CleanUp
              /\ UNCHANGED <<runs, child, req, resp, service, got>>

(* The child's ends are closed, ours become transports. *)
Spawn == /\ parent = "starting" /\ parent' = "waiting"
         /\ child' = [Absent EXCEPT !.at = "running"]
         /\ fds' = {"req_r", "resp_w"}
         /\ service' = [Off EXCEPT !.at = "reading"]
         /\ UNCHANGED <<runs, req, resp, got, file>>

(* communicate() has the output and the exit. *)
ChildIsDone == /\ parent = "waiting" /\ child.at = "dead" /\ parent' = "leaving"
               /\ UNCHANGED <<runs, child, req, resp, service, got, fds, file>>

(* wait_for gives up: kill, then wait for the exit. *)
TimeOut == /\ parent = "waiting" /\ parent' = "killing"
           /\ child' = [child EXCEPT !.at = "dead"]
           /\ UNCHANGED <<runs, req, resp, service, got, fds, file>>

Reaped == /\ parent = "killing" /\ parent' = "leaving"
          /\ UNCHANGED <<runs, child, req, resp, service, got, fds, file>>

(* The turn is cancelled while run_code waits. *)
Cancelled == /\ parent \in {"waiting", "killing"} /\ parent' = "leaving"
             /\ UNCHANGED <<runs, child, req, resp, service, got, fds, file>>

\* Mutation: the service is left to itself.
LeaveBug == /\ parent = "leaving" /\ CleanUp
            /\ UNCHANGED <<runs, child, req, resp, service, got>>

(* The inner finally ends the service, whatever it is doing. *)
Leave == /\ parent = "leaving" /\ CleanUp
         /\ service' = Off
         /\ UNCHANGED <<runs, child, req, resp, got>>

(***************************************************************************)
(* The bridge.                                                             *)
(***************************************************************************)
(* A tool that is not in the map is answered at once, with an error. *)
ServiceReads ==
  /\ service.at = "reading" /\ req # << >>
  /\ \E known \in BOOLEAN :
       service' = [at |-> IF known THEN "invoking" ELSE "writing", id |-> Head(req)]
  /\ req' = Tail(req)
  /\ UNCHANGED <<parent, runs, child, resp, got, fds, file>>

(* It returned or raised: either is an answer. *)
ToolEnds == /\ service.at = "invoking"
            /\ service' = [service EXCEPT !.at = "writing"]
            /\ UNCHANGED <<parent, runs, child, req, resp, got, fds, file>>

ServiceWrites ==
  /\ service.at = "writing"
  /\ IF child.at = "dead" THEN UNCHANGED resp /\ service' = Off
     ELSE /\ resp' = Append(resp, service.id)
          /\ service' = [service EXCEPT !.at = "reading"]
  /\ UNCHANGED <<parent, runs, child, req, got, fds, file>>

(* The child closed its end. *)
ServiceEnds == /\ service.at = "reading" /\ req = << >> /\ child.at = "dead"
               /\ service' = Off
               /\ UNCHANGED <<parent, runs, child, req, resp, got, fds, file>>

(***************************************************************************)
(* The script.                                                             *)
(***************************************************************************)
ChildCalls == /\ child.at = "running" /\ child.asked < MaxCalls
              /\ child' = [at |-> "calling", asked |-> child.asked + 1]
              /\ req' = IF "req_r" \in fds THEN Append(req, child.asked + 1) ELSE req
              /\ UNCHANGED <<parent, runs, resp, service, got, fds, file>>

ChildReads == /\ child.at = "calling" /\ resp # << >>
              /\ got' = Append(got, Head(resp)) /\ resp' = Tail(resp)
              /\ child' = [child EXCEPT !.at = "running"]
              /\ UNCHANGED <<parent, runs, req, service, fds, file>>

(* The bridge is gone: writing or reading raises, and the script may go on. *)
ChildSeesEof == /\ child.at = "calling" /\ resp = << >> /\ fds = {}
                /\ child' = [child EXCEPT !.at = "running"]
                /\ UNCHANGED <<parent, runs, req, resp, service, got, fds, file>>

ChildExits == /\ child.at = "running" /\ child' = [child EXCEPT !.at = "dead"]
              /\ UNCHANGED <<parent, runs, req, resp, service, got, fds, file>>

Next == \/ Begin \/ SpawnFails \/ Spawn \/ ChildIsDone \/ TimeOut \/ Reaped \/ Cancelled \/ Leave
        \/ ServiceReads \/ ToolEnds \/ ServiceWrites \/ ServiceEnds
        \/ ChildCalls \/ ChildReads \/ ChildSeesEof \/ ChildExits

Spec == Init /\ [][Next]_vars

(***************************************************************************)
(* Properties                                                              *)
(***************************************************************************)
(* Parent, child and service have their types. *)
TypeOK == /\ parent \in {"idle", "starting", "waiting", "killing", "leaving"}
          /\ child.at \in {"absent", "running", "calling", "dead"} /\ child.asked \in 0..MaxCalls
          /\ service.at \in {"off", "reading", "invoking", "writing"}
          /\ fds \subseteq Fds /\ file \in BOOLEAN

(* Whatever ended a run, and wherever the bridge was then, no descriptor,   *)
(* no file, no service and no tool call of it is left.                      *)
Released == parent = "idle" => fds = {} /\ ~file /\ service.at = "off"

(* The script reads the answer of the call it made, and while it waits for  *)
(* one the bridge has that call in hand, so that it never waits in vain.    *)
OwnAnswers ==
  /\ \A i \in DOMAIN got : got[i] = i
  /\ child.at = "calling" /\ parent = "waiting" =>
       \/ child.asked \in {req[i] : i \in DOMAIN req} \cup {resp[i] : i \in DOMAIN resp}
       \/ service.at \in {"invoking", "writing"} /\ service.id = child.asked

(* The bridge carries every answer, and nothing of it outlives the call. *)
BridgeSound == Released /\ OwnAnswers

(* Not so: no script outlives the call that ran it.  One whose turn is      *)
(* cancelled does.                                                          *)
NoOrphan == parent = "idle" => child.at \in {"absent", "dead"}
=============================================================================
