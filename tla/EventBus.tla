----------------------------- MODULE EventBus -------------------------------
(***************************************************************************)
(* Server-to-client push: events/bus.py (one bounded queue per subscriber, *)
(* drop-oldest) and _sse_event_stream of operator_api/routes.py, which     *)
(* frames one subscription for one GET /api/events.                        *)
(*                                                                         *)
(* The events are the numbers 1..published in the order of publish().      *)
(* publish() runs on the event loop and awaits nothing, so it is one step. *)
(* A client that lost its stream connects again (EventSource).             *)
(***************************************************************************)
EXTENDS Naturals, Sequences, FiniteSetsExt

CONSTANTS
  Clients,      \* consoles
  MaxQueue,     \* max_queue of the bus
  MaxEvents,    \* bound on the events published
  MaxStreams    \* bound on the connections of one client

BusAssumption ==
  /\ MaxQueue \in Nat \ {0} /\ MaxEvents \in Nat /\ MaxStreams \in Nat

VARIABLES
  published,    \* events published so far
  subscribers,  \* _subscribers: the clients whose queue is registered
  queue,        \* each client's queue
  stream,       \* each client's response generator
  \* History, read by the properties only.
  got,          \* events each client received on its present stream, in order
  since,        \* events published when its present queue was registered
  dropped,      \* events its present queue had to drop
  streams,      \* streams each client has opened
  ended         \* clients whose last stream was ended by the server

history == <<got, since, dropped, streams, ended>>
vars == <<published, subscribers, queue, stream, history>>

\* "none": not connected. "open": the ": connected" comment is out, subscribe() has
\* not run yet. "wait": in wait_for. "send": a frame is being written to the socket.
\* "over": a keepalive was written, and the generator below has finished.
Pc == {"none", "open", "wait", "send", "over"}

TypeOK ==
  /\ published \in 0..MaxEvents
  /\ subscribers \subseteq Clients
  /\ queue \in [Clients -> Seq(1..MaxEvents)]
  /\ \A c \in Clients : Len(queue[c]) <= MaxQueue
  /\ stream \in [Clients -> Pc]
  /\ got \in [Clients -> Seq(1..MaxEvents)]
  /\ since \in [Clients -> 0..MaxEvents]
  /\ dropped \in [Clients -> 0..MaxEvents]
  /\ streams \in [Clients -> 0..MaxStreams]
  /\ ended \subseteq Clients

Init ==
  /\ published = 0
  /\ subscribers = {}
  /\ queue = [c \in Clients |-> <<>>]
  /\ stream = [c \in Clients |-> "none"]
  /\ got = [c \in Clients |-> <<>>]
  /\ since = [c \in Clients |-> 0]
  /\ dropped = [c \in Clients |-> 0]
  /\ streams = [c \in Clients |-> 0]
  /\ ended = {}
-----------------------------------------------------------------------------
(* The bus *)

\* Mutation: the queue has no bound.
PutAllBug(q, e) == Append(q, e)

\* A full queue drops its oldest event for the newest.
Put(q, e) == Append(IF Len(q) = MaxQueue THEN Tail(q) ELSE q, e)

Publish ==
  /\ published < MaxEvents
  /\ published' = published + 1
  /\ queue' = [c \in Clients |->
                 IF c \in subscribers THEN Put(queue[c], published + 1) ELSE queue[c]]
  /\ dropped' = [c \in Clients |->
                   IF c \in subscribers /\ Len(queue[c]) = MaxQueue THEN dropped[c] + 1
                   ELSE dropped[c]]
  /\ UNCHANGED <<subscribers, stream, got, since, streams, ended>>

\* Mutation: the queue of a finished subscription stays registered.
UnsubscribeBug(c) == queue' = [queue EXCEPT ![c] = <<>>] /\ UNCHANGED subscribers

\* The finally clause of subscribe().
Unsubscribe(c) ==
  /\ subscribers' = subscribers \ {c}
  /\ queue' = [queue EXCEPT ![c] = <<>>]
-----------------------------------------------------------------------------
(* GET /api/events *)

Connect(c) ==
  /\ stream[c] = "none"
  /\ streams[c] < MaxStreams
  /\ streams' = [streams EXCEPT ![c] = @ + 1]
  /\ stream' = [stream EXCEPT ![c] = "open"]
  /\ got' = [got EXCEPT ![c] = <<>>]
  /\ ended' = ended \ {c}
  /\ UNCHANGED <<published, subscribers, queue, since, dropped>>

\* The first __anext__ runs subscribe() up to its first wait.
Subscribe(c) ==
  /\ stream[c] = "open"
  /\ stream' = [stream EXCEPT ![c] = "wait"]
  /\ subscribers' = subscribers \union {c}
  /\ since' = [since EXCEPT ![c] = published]
  /\ dropped' = [dropped EXCEPT ![c] = 0]
  /\ UNCHANGED <<published, queue, got, streams, ended>>

\* An event is there: its frame is handed to the socket.
Frame(c) ==
  /\ stream[c] = "wait"
  /\ queue[c] # <<>>
  /\ got' = [got EXCEPT ![c] = Append(@, Head(queue[c]))]
  /\ queue' = [queue EXCEPT ![c] = Tail(@)]
  /\ stream' = [stream EXCEPT ![c] = "send"]
  /\ UNCHANGED <<published, subscribers, since, dropped, streams, ended>>

\* The socket took the frame: the next wait begins.
Sent(c) ==
  /\ stream[c] = "send"
  /\ stream' = [stream EXCEPT ![c] = "wait"]
  /\ UNCHANGED <<published, subscribers, queue, history>>

\* No event for keepalive_s. wait_for cancels __anext__, which ends the generator:
\* its finally clause runs and the queue is gone, with an event that came too late
\* to wake it. A keepalive comment is written.
Keepalive(c) ==
  /\ stream[c] = "wait"
  /\ Unsubscribe(c)
  /\ stream' = [stream EXCEPT ![c] = "over"]
  /\ UNCHANGED <<published, history>>

\* The next __anext__ of a finished generator: StopAsyncIteration, the response ends.
EndOfStream(c) ==
  /\ stream[c] = "over"
  /\ stream' = [stream EXCEPT ![c] = "none"]
  /\ ended' = ended \union {c}
  /\ UNCHANGED <<published, subscribers, queue, got, since, dropped, streams>>

\* The client goes away: the response is cancelled and the generator closed.
Disconnect(c) ==
  /\ stream[c] # "none"
  /\ Unsubscribe(c)
  /\ stream' = [stream EXCEPT ![c] = "none"]
  /\ UNCHANGED <<published, history>>
-----------------------------------------------------------------------------
Next ==
  \/ Publish
  \/ \E c \in Clients : Connect(c) \/ Subscribe(c) \/ Frame(c) \/ Sent(c)
  \/ \E c \in Clients : Keepalive(c) \/ EndOfStream(c) \/ Disconnect(c)

Spec == Init /\ [][Next]_vars
-----------------------------------------------------------------------------
(* Safety *)

\* What a registered client has received and what waits in its queue is, in order
\* and without repetition, everything published since its queue was registered,
\* except the events that had to make room. A slow console loses only its own, and
\* never the newest: its queue is the last events published (events/bus.py:10-12).
NothingElseLost ==
  \A c \in subscribers :
    LET has == got[c] \o queue[c]
    IN /\ Len(has) + dropped[c] = published - since[c]
       /\ \A i, j \in DOMAIN has : i < j => has[i] < has[j]
       /\ \A i \in DOMAIN queue[c] : queue[c][i] = published - Len(queue[c]) + i

\* Only a stream that can still read its queue is registered: closed connections
\* leave nothing behind that publish() would go on filling.
NoLeak == \A c \in subscribers : stream[c] \in {"wait", "send"}

\* A stream delivers everything, or is not fed.
StreamSound == NothingElseLost /\ NoLeak

\* Periodic keepalives hold the connection open through idle stretches
\* (operator_api/routes.py:92): the server never ends a stream.
HeldOpen == ended = {}
=============================================================================
