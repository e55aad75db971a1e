----------------------------- MODULE AcpClient -----------------------------
(***************************************************************************)
(* One configured coding agent, its cached clients and the calls made to   *)
(* it (plugins/coding_agent/acp_client.py): by the code_with tool, which   *)
(* takes a per-agent lock and drops a client that failed                   *)
(* (plugins/coding_agent/__init__.py), and by an acp delegate, which does  *)
(* neither (plugins/delegates/adapters.py, AcpAdapter.dispatch).           *)
(*                                                                         *)
(* All code runs on one event loop: an action lasts from one await to the  *)
(* next. The agent is a process that may refuse, stay silent or exit. A    *)
(* turn's text is one chunk, named by its call; initialize and session/new *)
(* are one exchange; permission requests and narration are left out.       *)
(***************************************************************************)
EXTENDS FiniteSets, Naturals

CONSTANTS
  Calls,      \* calls of the tools
  Delegated,  \* those made through a delegate
  MaxProcs,   \* bound on agent processes
  None

AcpAssumption ==
  /\ IsFiniteSet(Calls) /\ Delegated \subseteq Calls
  /\ MaxProcs \in Nat
  /\ None \notin Calls /\ None \notin Nat

Clients == 1..Cardinality(Calls)
Procs == 1..MaxProcs

VARIABLES
  cache,     \* _CLIENTS: the client for the next call
  created,   \* number of clients built
  lock,      \* _LOCKS: the call that holds the agent's lock
  pc,        \* where each call is
  client,    \* the client each call got
  fut,       \* the future each call awaits
  ending,    \* how each call ended
  got,       \* the turns whose text is in a call's answer
  starter,   \* the call that holds a client's start lock
  proc,      \* a client's process
  answer,    \* a client's text buffer
  spawned,   \* number of processes launched
  own,       \* the client that launched a process
  life,      \* whether a process runs, has exited, or has been reaped
  ready,     \* processes whose session the client knows
  reader,    \* processes whose output is being read
  turn,      \* the process at work on a call's prompt
  said       \* calls whose text the agent has written

tools == <<cache, created, lock>>
callVars == <<pc, client, fut, ending, got>>
clientVars == <<starter, proc, answer>>
agents == <<spawned, own, life, ready, reader, turn, said>>
vars == <<tools, callVars, clientVars, agents>>

Where == {"idle", "locking", "entering", "launch", "hello", "prompt", "done"}

TypeOK ==
  /\ cache \in {None} \union 1..created
  /\ created \in 0..Cardinality(Calls)
  /\ lock \in {None} \union (Calls \ Delegated)
  /\ pc \in [Calls -> Where]
  /\ client \in [Calls -> 0..created]
  /\ fut \in [Calls -> {"none", "wait", "ok", "bad", "lost"}]
  /\ ending \in [Calls -> {"none", "answer", "error", "exited", "timeout", "broken", "cancelled"}]
  /\ got \in [Calls -> SUBSET Calls]
  /\ starter \in [Clients -> Calls \union {None}]
  /\ \A k \in Clients : starter[k] # None => pc[starter[k]] \in {"launch", "hello"} /\ client[starter[k]] = k
  /\ proc \in [Clients -> 0..spawned]
  /\ answer \in [Clients -> SUBSET Calls]
  /\ spawned \in 0..MaxProcs
  /\ own \in [Procs -> 0..created]
  /\ life \in [Procs -> {"none", "live", "exited", "reaped"}]
  /\ ready \subseteq 1..spawned
  /\ reader \subseteq 1..spawned
  /\ turn \in [Calls -> 0..spawned]
  /\ said \subseteq Calls

Init ==
  /\ cache = None
  /\ created = 0
  /\ lock = None
  /\ pc = [c \in Calls |-> "idle"]
  /\ client = [c \in Calls |-> 0]
  /\ fut = [c \in Calls |-> "none"]
  /\ ending = [c \in Calls |-> "none"]
  /\ got = [c \in Calls |-> {}]
  /\ starter = [k \in Clients |-> None]
  /\ proc = [k \in Clients |-> 0]
  /\ answer = [k \in Clients |-> {}]
  /\ spawned = 0
  /\ own = [p \in Procs |-> 0]
  /\ life = [p \in Procs |-> "none"]
  /\ ready = {}
  /\ reader = {}
  /\ turn = [c \in Calls |-> 0]
  /\ said = {}

-----------------------------------------------------------------------------
(* The tools *)

\* Definitions that end in Bug are mutations of the one that follows: each is
\* a slip the code could have, which the properties must notice.

\* The client is fetched before the lock is taken.
Call(c) ==
  /\ pc[c] = "idle"
  /\ pc' = [pc EXCEPT ![c] = IF c \in Delegated THEN "entering" ELSE "locking"]
  /\ created' = IF cache = None THEN created + 1 ELSE created
  /\ cache' = IF cache = None THEN created + 1 ELSE cache
  /\ client' = [client EXCEPT ![c] = cache']
  /\ UNCHANGED <<lock, fut, ending, got, clientVars, agents>>

LockFree == lock = None

TakeLock(c) ==
  /\ pc[c] = "locking"
  /\ LockFree
  /\ lock' = c
  /\ pc' = [pc EXCEPT ![c] = "entering"]
  /\ UNCHANGED <<cache, created, client, fut, ending, got, clientVars, agents>>

\* A failed client stays in the cache.
CacheAfterBug(c, how) == cache

\* code_with drops whatever client is cached when a call of its ends in an
\* AcpError; other exceptions, cancellation and delegates keep it.
CacheAfter(c, how) ==
  IF how \in {"error", "exited", "timeout"} /\ c \notin Delegated THEN None ELSE cache

Freed(c, how) == [k \in Clients |-> IF starter[k] = c THEN None ELSE starter[k]]

\* A call ends; async with gives its locks back.
Leave(c, how) ==
  /\ pc' = [pc EXCEPT ![c] = "done"]
  /\ ending' = [ending EXCEPT ![c] = how]
  /\ fut' = [fut EXCEPT ![c] = "none"]
  /\ cache' = CacheAfter(c, how)
  /\ lock' = IF lock = c THEN None ELSE lock
  /\ starter' = Freed(c, how)
  /\ UNCHANGED <<created, client>>

-----------------------------------------------------------------------------
(* One turn of a client *)

\* The buffer keeps what it holds.
EmptiedBug(k) == answer

Emptied(k) == [answer EXCEPT ![k] = {}]

\* prompt(), once started: empty the buffer, register a future, write the request.
Send(c, p) ==
  /\ pc' = [pc EXCEPT ![c] = "prompt"]
  /\ answer' = Emptied(client[c])
  /\ fut' = [fut EXCEPT ![c] = "wait"]
  /\ turn' = [turn EXCEPT ![c] = IF life[p] = "live" /\ p \in reader THEN p ELSE 0]
  /\ UNCHANGED <<tools, client, ending, got, proc>>

\* The pipe to a process that has exited may be found broken.
WriteFails(c, p) ==
  /\ life[p] = "exited"
  /\ Leave(c, "broken")
  /\ answer' = Emptied(client[c])
  /\ UNCHANGED <<got, proc, turn>>

MayEnter(c) == pc[c] = "entering" /\ starter[client[c]] = None

\* _ensure_started asks no more than whether there is a process that has not been
\* reaped; neither the session nor the reader.
Running(k) == proc[k] # 0 /\ life[proc[k]] # "reaped"

Enter(c) ==
  /\ MayEnter(c)
  /\ Running(client[c])
  /\ Send(c, proc[client[c]]) \/ WriteFails(c, proc[client[c]])
  /\ starter' = [k \in Clients |-> IF starter[k] = c THEN None ELSE starter[k]]
  /\ UNCHANGED <<spawned, own, life, ready, reader, said>>

\* _start, up to the await for the new process.
Launch(c) ==
  /\ MayEnter(c)
  /\ ~Running(client[c])
  /\ starter' = [starter EXCEPT ![client[c]] = c]
  /\ pc' = [pc EXCEPT ![c] = "launch"]
  /\ UNCHANGED <<tools, client, fut, ending, got, proc, answer, agents>>

\* The process is there: start its reader, begin the handshake.
Launched(c) ==
  LET p == spawned + 1
  IN /\ pc[c] = "launch"
     /\ p \in Procs
     /\ spawned' = p
     /\ own' = [own EXCEPT ![p] = client[c]]
     /\ life' = [life EXCEPT ![p] = "live"]
     /\ reader' = reader \union {p}
     /\ proc' = [proc EXCEPT ![client[c]] = p]
     /\ pc' = [pc EXCEPT ![c] = "hello"]
     /\ fut' = [fut EXCEPT ![c] = "wait"]
     /\ UNCHANGED <<tools, client, ending, got, starter, answer, ready, turn, said>>

\* No such binary or directory.
LaunchFails(c) ==
  /\ pc[c] = "launch"
  /\ Leave(c, "error")
  /\ UNCHANGED <<got, proc, answer, agents>>

\* The handshake is answered: note the session, release the start lock, prompt.
Greeted(c) ==
  LET p == proc[client[c]]
  IN /\ pc[c] = "hello"
     /\ fut[c] = "ok"
     /\ ready' = ready \union {p}
     /\ Send(c, p) \/ WriteFails(c, p)
     /\ starter' = [starter EXCEPT ![client[c]] = None]
     /\ UNCHANGED <<spawned, own, life, reader, said>>

\* Of the handshake's requests, too, the pipe may be found broken.
HelloBreaks(c) ==
  /\ pc[c] = "hello"
  /\ fut[c] = "wait"
  /\ life[proc[client[c]]] = "exited"
  /\ Leave(c, "broken")
  /\ UNCHANGED <<got, proc, answer, agents>>

\* The buffer at the time the caller runs again is the answer.
Answered(c) ==
  /\ pc[c] = "prompt"
  /\ fut[c] = "ok"
  /\ got' = [got EXCEPT ![c] = answer[client[c]]]
  /\ Leave(c, "answer")
  /\ UNCHANGED <<proc, answer, agents>>

\* An error response, or word that the agent exited: AcpError.
Failed(c) ==
  /\ \/ fut[c] = "bad" /\ Leave(c, "error")
     \/ fut[c] = "lost" /\ Leave(c, "exited")
  /\ UNCHANGED <<got, proc, answer, agents>>

\* 30 s for a handshake request, the agent's limit for a prompt: AcpError. The
\* process is not told.
Timeout(c) ==
  /\ fut[c] = "wait"
  /\ Leave(c, "timeout")
  /\ UNCHANGED <<got, proc, answer, agents>>

\* The turn that called the tool is cancelled.
Cancel(c) ==
  /\ pc[c] \notin {"idle", "done"}
  /\ Leave(c, "cancelled")
  /\ UNCHANGED <<got, proc, answer, agents>>

-----------------------------------------------------------------------------
(* The agent's process and the reader of its output *)

\* The agent answers the handshake, or refuses it.
Greet(c) ==
  /\ pc[c] = "hello"
  /\ fut[c] = "wait"
  /\ proc[client[c]] \in reader
  /\ \E reply \in {"ok", "bad"} : fut' = [fut EXCEPT ![c] = reply]
  /\ UNCHANGED <<tools, pc, client, ending, got, clientVars, agents>>

\* agent_message_chunk: the text goes to the client's buffer, whoever waits.
Chunk(c) ==
  /\ turn[c] \in ready
  /\ c \notin said
  /\ said' = said \union {c}
  /\ answer' = [answer EXCEPT ![own[turn[c]]] = @ \union {c}]
  /\ UNCHANGED <<tools, callVars, starter, proc, spawned, own, life, ready, reader, turn>>

\* The agent ends the turn. A response nobody waits for is dropped; without a
\* session the prompt is refused.
Respond(c) ==
  /\ turn[c] # 0
  /\ \E reply \in IF turn[c] \in ready THEN {"ok", "bad"} ELSE {"bad"} :
       fut' = [fut EXCEPT ![c] = IF pc[c] = "prompt" /\ @ = "wait" THEN reply ELSE @]
  /\ turn' = [turn EXCEPT ![c] = 0]
  /\ UNCHANGED <<tools, pc, client, ending, got, clientVars, spawned, own, life, ready, reader, said>>

Exit(p) ==
  /\ life[p] = "live"
  /\ life' = [life EXCEPT ![p] = "exited"]
  /\ UNCHANGED <<tools, callVars, clientVars, spawned, own, ready, reader, turn, said>>

\* The event loop notes the exit status, before or after the end of the output.
Reap(p) ==
  /\ life[p] = "exited"
  /\ life' = [life EXCEPT ![p] = "reaped"]
  /\ UNCHANGED <<tools, callVars, clientVars, spawned, own, ready, reader, turn, said>>

\* The output ends, or a line is longer than the reader takes. Every future of
\* the client is failed, whichever of its processes the request went to.
ReaderEnds(p) ==
  /\ p \in reader
  /\ \/ life[p] # "live"
     \/ \E c \in Calls : turn[c] = p \/ (pc[c] = "hello" /\ proc[client[c]] = p)
  /\ reader' = reader \ {p}
  /\ fut' = [c \in Calls |-> IF client[c] = own[p] /\ fut[c] = "wait" THEN "lost" ELSE fut[c]]
  /\ turn' = [c \in Calls |-> IF turn[c] = p THEN 0 ELSE turn[c]]
  /\ UNCHANGED <<tools, pc, client, ending, got, clientVars, spawned, own, life, ready, said>>

-----------------------------------------------------------------------------
Next ==
  \/ \E c \in Calls :
       \/ Call(c) \/ TakeLock(c) \/ Enter(c) \/ Launch(c) \/ Launched(c) \/ LaunchFails(c)
       \/ Greeted(c) \/ HelloBreaks(c) \/ Answered(c) \/ Failed(c) \/ Timeout(c) \/ Cancel(c)
       \/ Greet(c) \/ Chunk(c) \/ Respond(c)
  \/ \E p \in Procs : Exit(p) \/ Reap(p) \/ ReaderEnds(p)

Spec == Init /\ [][Next]_vars
-----------------------------------------------------------------------------
(* Properties *)

\* Calls that share a client with a delegated one are not kept apart.
Shares(c) == \E d \in Delegated : client[d] = client[c]

GaveUp(c) == ending[c] \in {"timeout", "cancelled", "exited"}

\* An answer holds another call's text only when that call was given up on the
\* same client and its agent went on writing (acp_client.py:49, "callers
\* serialize turns"): never that of a turn that ended. Word that the agent exited
\* gives a call up too: it may be another process of the client that did, whose
\* output ends after its successor has started.
AnswerMine ==
  \A c, d \in Calls :
    ending[c] = "answer" /\ d \in got[c] /\ d # c =>
      client[d] = client[c] /\ (GaveUp(d) \/ Shares(c))

\* An answer holds all the agent wrote in that turn, unless a delegate used the
\* same client.
AnswerWhole ==
  \A c \in Calls : ending[c] = "answer" /\ ~Shares(c) => (c \in got[c] <=> c \in said)

\* A client never has two processes at work in its directory, whoever starts it
\* at the same time and whatever the first start's fate.
OneProcess ==
  \A p, q \in Procs : life[p] = "live" /\ life[q] = "live" /\ own[p] = own[q] => p = q

\* A client that failed a call is not kept: when no call is under way, the cached
\* one can serve the next (__init__.py:229). Cancelled and delegated calls may
\* leave a client that has no session, or no reader.
CacheIsSound ==
  cache # None /\ (\A c \in Calls : pc[c] \in {"idle", "done"}) =>
    \/ proc[cache] = 0
    \/ life[proc[cache]] # "live"
    \/ proc[cache] \in ready \intersect reader
    \/ \E c \in Calls : client[c] = cache /\ (c \in Delegated \/ ending[c] = "cancelled")

\* A call's answer is the agent's answer to it, whole.
AnswerIntact == AnswerMine /\ AnswerWhole

\* No call waits for ever, though none is cancelled: the lock and a client's start
\* lock are held by calls under way, which wait for nothing behind them, and a
\* request has a future that its timeout, at the latest, ends.
NeverWaits ==
  \A c \in Calls :
    /\ pc[c] = "locking" /\ ~LockFree => pc[lock] \in {"entering", "launch", "hello", "prompt"}
    /\ pc[c] = "entering" /\ starter[client[c]] # None => pc[starter[client[c]]] \in {"launch", "hello"}
    /\ pc[c] \in {"hello", "prompt"} => fut[c] # "none"

\* No two processes for one agent, no client without one, no call without an end.
AgentsSound == OneProcess /\ CacheIsSound /\ NeverWaits
=============================================================================
