---------------------------- MODULE PeerConsult ----------------------------
(***************************************************************************)
(* Asking another agent (tools/peer_tools.py, A2aAdapter of                *)
(* plugins/delegates/adapters.py): one message/send, and while the answer  *)
(* has no text and names a task that is not over, a tasks/get a second, at *)
(* most MaxPolls of them.  The peer works on its task meanwhile.  Of a     *)
(* text only what it is matters: the answer, word of progress, the reason  *)
(* of a failure, or a question back.                                       *)
(***************************************************************************)
EXTENDS Integers

CONSTANTS Calls,    \* calls of peer_consult and of delegate_to on an a2a delegate
          MaxPolls  \* _MAX_POLLS

ConsultAssumption == MaxPolls \in Nat

VARIABLES consult,  \* call -> where it is, its polls, what it returned
          peer      \* call -> the peer's task: its state and text, and the polls made by then

peerVars == <<consult, peer>>

Over == {"completed", "failed", "canceled", "rejected"}
PeerStates == {"none", "message", "submitted", "working", "input_required"} \cup Over
Texts == {"none", "progress", "answer", "reason", "question"}

Init == /\ consult = [c \in Calls |-> [at |-> "idle", polls |-> 0, got |-> "none"]]
        /\ peer = [c \in Calls |-> [state |-> "none", text |-> "none", by |-> 0]]

Return(c, got) == consult' = [consult EXCEPT ![c].at = "done", ![c].got = got]

(* No such peer, an empty query, or an address the egress list refuses. *)
Refuse(c) == consult[c].at = "idle" /\ Return(c, "refused") /\ UNCHANGED peer

Send(c) ==
  /\ consult[c].at = "idle"
  /\ consult' = [consult EXCEPT ![c].at = "sent"]
  /\ UNCHANGED peer

(***************************************************************************)
(* The peer.  It answers with a plain message, or with a task it goes on   *)
(* with; a paused task waits for a reply nobody sends.                     *)
(***************************************************************************)
PeerMoves(c, from, to, texts) ==
  /\ peer[c].state \in from
  /\ \E t \in texts : peer' = [peer EXCEPT ![c] = [state |-> to, text |-> t, by |-> consult[c].polls]]
  /\ UNCHANGED consult

PeerTakes(c) ==
  /\ consult[c].at = "sent"
  /\ \/ PeerMoves(c, {"none"}, "submitted", {"none"})
     \/ PeerMoves(c, {"none"}, "message", {"answer"})

PeerWorks(c) ==
  \/ PeerMoves(c, {"submitted", "working"}, "working", {"none", "progress"})
  \/ PeerMoves(c, {"working"}, "completed", {"none", "answer"})
  \/ PeerMoves(c, {"working"}, "input_required", {"question"})
  \/ \E s \in {"failed", "canceled", "rejected"} :
       PeerMoves(c, {"submitted", "working"}, s, {"none", "reason"})

(***************************************************************************)
(* The caller.  The text of a message is not where it looks, and a message *)
(* has no task to ask for.                                                 *)
(***************************************************************************)
Terminal == {"completed", "failed", "canceled"}
ExtractText(task) == IF task.state = "message" THEN "none" ELSE task.text
Last(task, polls) == task.state \in Terminal \cup {"message"} \/ polls >= MaxPolls
Reply(task) == IF ExtractText(task) = "none" THEN "no text" ELSE ExtractText(task)

SendReturns(c) ==
  /\ consult[c].at = "sent" /\ peer[c].state # "none"
  /\ IF ExtractText(peer[c]) # "none" \/ Last(peer[c], 0) THEN Return(c, Reply(peer[c]))
     ELSE consult' = [consult EXCEPT ![c].at = "polling"]
  /\ UNCHANGED peer

(* In the loop only the state is looked at; the text once it is over. *)
Poll(c) ==
  LET polls == consult[c].polls + 1
  IN /\ consult[c].at = "polling"
     /\ consult' = [consult EXCEPT ![c] =
          IF Last(peer[c], polls) THEN [at |-> "done", polls |-> polls, got |-> Reply(peer[c])]
          ELSE [@ EXCEPT !.polls = polls]]
     /\ UNCHANGED peer

(* A timeout, an HTTP status of 400 or more or an error object, on any call: *)
(* the tool's text says so; the peer is not told.                            *)
RpcFails(c) ==
  /\ consult[c].at \in {"sent", "polling"}
  /\ Return(c, "error")
  /\ UNCHANGED peer

Next == \E c \in Calls :
  \/ Refuse(c) \/ Send(c) \/ SendReturns(c) \/ Poll(c) \/ RpcFails(c)
  \/ PeerTakes(c) \/ PeerWorks(c)

Spec == Init /\ [][Next]_peerVars

(***************************************************************************)
(* Properties                                                              *)
(***************************************************************************)
(* Calls and the peer's tasks have their types. *)
TypeOK ==
  /\ consult \in [Calls -> [at : {"idle", "sent", "polling", "done"}, polls : 0..MaxPolls,
                            got : Texts \cup {"no text", "refused", "error"}]]
  /\ peer \in [Calls -> [state : PeerStates, text : Texts, by : 0..MaxPolls]]

(* Whatever the peer does between two polls, an answer its task has before the   *)
(* last poll is returned, unless a call failed or an earlier text was taken for  *)
(* it; "no text" is said only of a task that had none when it was last read.     *)
AnswerInTime ==
  \A c \in Calls : consult[c].at = "done" /\ peer[c].state # "message" =>
    /\ peer[c].text = "answer" /\ peer[c].by < MaxPolls /\ consult[c].got # "error"
         => consult[c].got \in {"answer", "progress"}
    /\ consult[c].got = "no text" /\ peer[c].by < consult[c].polls => peer[c].text = "none"

(* Not so: peer_consult "sends it an A2A message and relays the reply": a plain  *)
(* message is not relayed, and word of progress, a question or the reason of a   *)
(* failure is relayed as if it were the reply.                                   *)
RepliesOnly ==
  \A c \in Calls : consult[c].got \in Texts \cup {"no text"} =>
    consult[c].got \in {"none", "answer"} /\ (consult[c].got = "no text" => peer[c].text # "answer")
=============================================================================
