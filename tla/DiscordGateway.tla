--------------------------- MODULE DiscordGateway ---------------------------
(***************************************************************************)
(* The inbound Discord surface: surfaces/discord/gateway.py with its       *)
(* conversations, turn log and return address, and the plugin that starts, *)
(* stops and reconnects it (plugins/discord/__init__.py).                  *)
(*                                                                         *)
(* Discord is external: a connected gateway gets every message once; what  *)
(* is sent while none is connected is never seen (the code identifies anew,*)
(* it does not resume).  Messages are numbered; a message of a bot, of     *)
(* nobody on the allowlist or without content changes nothing and is left  *)
(* out, and so are reactions, typing, threads and wording.                 *)
(***************************************************************************)
EXTENDS Naturals, Sequences, SequencesExt

CONSTANTS
  Chats,      \* the (channel, user) pairs
  DMs,        \* those that are direct messages
  Reloads,    \* settings saves that reload the surface
  Limit,      \* turns of the log that warm a burst
  MaxMsgs,    \* bound on the messages sent
  MaxEvents   \* bound on the activity events published

DiscordAssumption == DMs \subseteq Chats /\ {Limit, MaxMsgs, MaxEvents} \subseteq Nat

VARIABLES
  sent,       \* the chat of each message sent so far
  buffer,     \* _message_buffers: the burst of each chat, if it has one
  open,       \* chats with a conversation that has not timed out
  flushes,    \* the bursts an agent turn runs for
  tlog,       \* the turn log of each chat: messages, and 0 for a reply
  address,    \* the return address
  gateways,   \* gateway tasks: "start", "up", "down" or "gone"
  task,       \* _state["task"], 0 for none
  loops,      \* delivery loops that run
  delivery,   \* _delivery_task, 0 for none
  reload,     \* where each reload is
  \* History, read by the properties only.
  seen,       \* messages a gateway took into a burst, with repetitions
  replied,    \* messages of bursts that were answered, with repetitions
  posts       \* posts of activity events to the return address

bursts == <<buffer, open, flushes, tlog>>
surface == <<gateways, task, loops, delivery, reload>>
history == <<seen, replied, posts>>
vars == <<sent, bursts, address, surface, history>>

NoBurst == <<>>
NoChat == "none"
Live == {g \in DOMAIN gateways : gateways[g] # "gone"}
Count(x, s) == Cardinality({i \in DOMAIN s : s[i] = x})

TypeOK ==
  /\ sent \in Seq(Chats) /\ open \subseteq Chats
  /\ buffer \in [Chats -> Seq(DOMAIN sent)]
  /\ tlog \in [Chats -> Seq({0} \union DOMAIN sent)]
  /\ \A f \in flushes : f.chat \in Chats /\ f.msgs \in Seq(DOMAIN sent) \ {<<>>}
  /\ address \in DMs \union {NoChat}
  /\ gateways \in Seq({"start", "up", "down", "gone"})
  /\ task \in 0..Len(gateways) /\ delivery \in 0..Len(gateways)
  /\ loops \subseteq 1..Len(gateways)
  /\ reload \in [Reloads -> {"due", "stop", "sweep", "launch", "done"}]

Init ==
  /\ sent = <<>>
  /\ buffer = [c \in Chats |-> NoBurst] /\ open = {}
  /\ flushes = {} /\ tlog = [c \in Chats |-> <<>>]
  /\ address = NoChat
  /\ gateways = <<"start">> /\ task = 1 /\ loops = {1} /\ delivery = 1
  /\ reload = [r \in Reloads |-> "due"]
  /\ seen = <<>> /\ replied = <<>> /\ posts = <<>>
-----------------------------------------------------------------------------
(* Messages and bursts *)

\* A guild message needs a mention, a conversation or a burst; a DM never.
Accepts(c, mentioned) == c \in DMs \/ mentioned \/ c \in open \/ buffer[c] # NoBurst

\* The message joins the burst of its chat, once for each gateway that got it; its
\* timer starts anew.
Buffered(c, m, n) == buffer' = [buffer EXCEPT ![c] = @ \o [i \in 1..n |-> m]]

\* return_address.record, for direct messages only.
Recorded(c) == IF c \in DMs THEN c ELSE address

\* MESSAGE_CREATE: _handle_message runs to its end in each connected gateway.
Receive(c, mentioned) ==
  LET n == Cardinality({g \in Live : gateways[g] = "up"})
      m == Len(sent) + 1
  IN /\ Len(sent) < MaxMsgs
     /\ sent' = Append(sent, c)
     /\ IF n > 0 /\ Accepts(c, mentioned)
        THEN /\ Buffered(c, m, n)
             /\ open' = IF buffer[c] = NoBurst THEN open \union {c} ELSE open
             /\ address' = Recorded(c)
             /\ seen' = seen \o [i \in 1..n |-> m]
        ELSE UNCHANGED <<buffer, open, address, seen>>
     /\ UNCHANGED <<flushes, tlog, surface, replied, posts>>

\* The conversation times out: has() is false from now on, the sweep drops it. Only
\* the first message of a burst opens or prolongs it (get_or_create).
Timeout(c) ==
  /\ c \in open
  /\ open' = open \ {c}
  /\ UNCHANGED <<sent, buffer, flushes, tlog, address, surface, history>>

\* Mutation: the burst is recorded before the log is read.
WarmedBug(c) == LET s == tlog[c] \o buffer[c]
                IN SubSeq(s, IF Len(s) > Limit THEN Len(s) - Limit + 1 ELSE 1, Len(s))

\* get_recent_turns: the newest turns of the chat.
Warmed(c) == LET s == tlog[c]
             IN SubSeq(s, IF Len(s) > Limit THEN Len(s) - Limit + 1 ELSE 1, Len(s))

\* The timer of the burst expires: _flush_burst pops it, reads the log, records the
\* messages and asks the agent, all before the first await.
Flush(c) ==
  /\ buffer[c] # NoBurst
  /\ flushes' = flushes \union {[chat |-> c, msgs |-> buffer[c], warm |-> Warmed(c)]}
  /\ tlog' = [tlog EXCEPT ![c] = @ \o buffer[c]]
  /\ buffer' = [buffer EXCEPT ![c] = NoBurst]
  /\ UNCHANGED <<sent, open, address, surface, history>>

\* The agent answered, or its error or the fallback stands in; the reply is posted
\* and recorded.
Reply(f) ==
  /\ f \in flushes
  /\ flushes' = flushes \ {f}
  /\ tlog' = [tlog EXCEPT ![f.chat] = Append(@, 0)]
  /\ replied' = replied \o f.msgs
  /\ UNCHANGED <<sent, buffer, open, address, surface, seen, posts>>

\* An activity.message event: each delivery loop posts it to the return address.
Activity ==
  /\ Len(posts) < MaxEvents
  /\ address # NoChat /\ loops # {}
  /\ posts' = Append(posts, Cardinality(loops))
  /\ UNCHANGED <<sent, bursts, address, surface, seen, replied>>
-----------------------------------------------------------------------------
(* Gateway tasks *)

\* GET /users/@me fails: the task returns, and nothing starts it again; or the gateway
\* connects. A connection is lost, or Discord asks to reconnect; it is made anew.
Connect(g) ==
  /\ g \in Live
  /\ gateways' = [gateways EXCEPT ![g] = IF @ = "up" THEN "down" ELSE "up"]
  /\ UNCHANGED <<sent, bursts, address, task, loops, delivery, reload, history>>

NoBotUser(g) ==
  /\ gateways[g] = "start"
  /\ gateways' = [gateways EXCEPT ![g] = "gone"]
  /\ UNCHANGED <<sent, bursts, address, task, loops, delivery, reload, history>>

Advance(r, pc) == reload' = [reload EXCEPT ![r] = pc]

\* _teardown cancels the gateway task it holds, then stop() cancels the delivery loop
\* and awaits its end.
Teardown(r) ==
  /\ reload[r] = "due"
  /\ gateways' = [g \in DOMAIN gateways |-> IF g = task THEN "gone" ELSE gateways[g]]
  /\ task' = 0
  /\ Advance(r, IF delivery = 0 THEN "sweep" ELSE "stop")
  /\ loops' = loops \ {delivery}
  /\ UNCHANGED <<sent, bursts, address, delivery, history>>

DeliveryStopped(r) ==
  /\ reload[r] = "stop"
  /\ delivery' = 0
  /\ Advance(r, "sweep")
  /\ UNCHANGED <<sent, bursts, address, gateways, task, loops, history>>

\* The conversation sweeper is cancelled and awaited.
SweeperStopped(r) ==
  /\ reload[r] = "sweep"
  /\ Advance(r, "launch")
  /\ UNCHANGED <<sent, bursts, address, gateways, task, loops, delivery, history>>

\* _launch: nothing if the surface is switched off or has no token; otherwise a new
\* delivery loop and a new gateway task.
Launch(r, enabled) ==
  LET g == Len(gateways) + 1
  IN /\ reload[r] = "launch"
     /\ Advance(r, "done")
     /\ IF enabled
        THEN /\ gateways' = Append(gateways, "start")
             /\ task' = g /\ delivery' = g /\ loops' = loops \union {g}
        ELSE UNCHANGED <<gateways, task, loops, delivery>>
     /\ UNCHANGED <<sent, bursts, address, history>>
-----------------------------------------------------------------------------
Next ==
  \/ \E c \in Chats, mentioned \in BOOLEAN : Receive(c, mentioned)
  \/ \E c \in Chats : Timeout(c) \/ Flush(c)
  \/ \E f \in flushes : Reply(f)
  \/ Activity
  \/ \E g \in DOMAIN gateways : Connect(g) \/ NoBotUser(g)
  \/ \E r \in Reloads :
       \/ Teardown(r) \/ DeliveryStopped(r) \/ SweeperStopped(r)
       \/ \E enabled \in BOOLEAN : Launch(r, enabled)

Spec == Init /\ [][Next]_vars
-----------------------------------------------------------------------------
(* Safety *)

\* Every message a gateway took is in its chat's burst, or in the one burst an agent turn
\* runs for, or answered, exactly as often as it was taken: a message that arrives
\* while a burst is flushed or the surface is reloaded is neither lost nor asked twice.
EachOnce ==
  \A m \in DOMAIN sent :
    LET asked == {f \in flushes : Count(m, f.msgs) > 0}
        rest == Count(m, replied) + Count(m, buffer[sent[m]])
    IN \/ asked = {} /\ Count(m, seen) = rest
       \/ \E f \in flushes : asked = {f} /\ Count(m, seen) = rest + Count(m, f.msgs)

\* The context a burst is warmed with is what its chat said before, as far as the limit
\* reaches, and nothing of the burst itself (gateway.py:402-406).
WarmedRight ==
  \A f \in flushes :
    /\ \A i \in DOMAIN f.warm : f.warm[i] < Head(f.msgs)
    /\ \A m \in 1..(Head(f.msgs) - 1) :
         sent[m] = f.chat /\ Contains(seen, m) =>
           Contains(f.warm, m) \/ Len(f.warm) = Limit

\* Not so: the task the plugin holds is the gateway that runs (plugins/discord/__init__.py:33):
\* there is no other. There is, after two reloads overlapped in their awaits.
OneGateway == Live \subseteq {task}

\* With one reload at a time an activity event is posted once (gateway.py:263-265).
PostedOnce == \A i \in DOMAIN posts : posts[i] = 1

\* What is said in a chat is answered once and in its context, what happens is told once.
Heard == EachOnce /\ WarmedRight /\ PostedOnce
=============================================================================
