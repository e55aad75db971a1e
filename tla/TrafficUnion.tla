---------------------------- MODULE TrafficUnion ----------------------------
(* What comes in and goes out beside the turns: the inbox, the event        *)
(* streams, the Discord gateway, the coding agents, and what is kept of a   *)
(* turn.  Each behaviour is one component's, picked at the start.           *)
EXTENDS Integers, Sequences, FiniteSets

CONSTANTS
  Keys, NoKey, DedupWindow, MaxFires, StormWindow, Limits, MaxItems, MaxTime,  \* Inbox
  Consoles, MaxQueue, MaxEvents, MaxStreams,                                   \* EventBus
  Chats, DMs, Reloads, Limit, MaxMsgs, MaxPosts,                               \* DiscordGateway
  Calls, Delegated, MaxProcs, None,                                            \* AcpClient
  Tasks, OnFeed, Names, Rates, DefaultRate, Origins, SkillSets, MaxCalls, Unset \* TurnLedger

VARIABLES pick,
          now, rows, fires, posting, carried, fired, read, gone, allowed,
          published, subscribers, queue, stream, got, since, dropped, streams, ended,
          sent, buffer, open, flushes, tlog, address, gateways, task, loops, delivery, reload,
          seen, replied, posts,
          cache, created, lock, pc, client, fut, ending, texts, starter, proc, answer,
          spawned, own, life, ready, reader, turn, said,
          live, specs, card, phase, run, ledger, feed, news, bill, results, made, parked,
          missed, spoken, stale

inboxVars == <<now, rows, fires, posting, carried, fired, read, gone, allowed>>
busVars == <<published, subscribers, queue, stream, got, since, dropped, streams, ended>>
discordVars == <<sent, buffer, open, flushes, tlog, address, gateways, task, loops, delivery,
                 reload, seen, replied, posts>>
acpVars == <<cache, created, lock, pc, client, fut, ending, texts, starter, proc, answer,
             spawned, own, life, ready, reader, turn, said>>
ledgerVars == <<live, specs, card, phase, run, ledger, feed, news, bill, results, made, parked,
                missed, spoken, stale>>
vars == <<pick, inboxVars, busVars, discordVars, acpVars, ledgerVars>>

Inbox == INSTANCE Inbox
Bus == INSTANCE EventBus WITH Clients <- Consoles
Discord == INSTANCE DiscordGateway WITH MaxEvents <- MaxPosts
Acp == INSTANCE AcpClient WITH got <- texts
Ledger == INSTANCE TurnLedger WITH Activity <- OnFeed

ASSUME InboxAssumption == Inbox!InboxAssumption
ASSUME BusAssumption == Bus!BusAssumption
ASSUME DiscordAssumption == Discord!DiscordAssumption
ASSUME AcpAssumption == Acp!AcpAssumption
ASSUME LedgerAssumption == Ledger!LedgerAssumption

Init == /\ pick \in {"inbox", "bus", "discord", "acp", "ledger"}
        /\ Inbox!Init /\ Bus!Init /\ Discord!Init /\ Acp!Init
        /\ Ledger!Init /\ (pick # "ledger" => specs = {})

Next ==
  \/ pick = "inbox" /\ Inbox!Next
     /\ UNCHANGED <<pick, busVars, discordVars, acpVars, ledgerVars>>
  \/ pick = "bus" /\ Bus!Next
     /\ UNCHANGED <<pick, inboxVars, discordVars, acpVars, ledgerVars>>
  \/ pick = "discord" /\ Discord!Next
     /\ UNCHANGED <<pick, inboxVars, busVars, acpVars, ledgerVars>>
  \/ pick = "acp" /\ Acp!Next
     /\ UNCHANGED <<pick, inboxVars, busVars, discordVars, ledgerVars>>
  \/ pick = "ledger" /\ Ledger!Next
     /\ UNCHANGED <<pick, inboxVars, busVars, discordVars, acpVars>>

Spec == Init /\ [][Next]_vars
-----------------------------------------------------------------------------
\* Of a component that is not picked only the first state is seen.
TypeOK ==
  CASE pick = "inbox" -> Inbox!TypeOK
    [] pick = "bus" -> Bus!TypeOK
    [] pick = "discord" -> Discord!TypeOK
    [] pick = "acp" -> Acp!TypeOK
    [] pick = "ledger" -> Ledger!TypeOK

\* What is posted to the inbox is read, and neither doubles nor floods.
InboxSound == pick = "inbox" => Inbox!InboxSound
\* An event stream delivers everything but what its queue dropped, or is not fed.
StreamSound == pick = "bus" => Bus!StreamSound
\* A message on Discord is answered once and in its context, an event told once.
Heard == pick = "discord" => Discord!Heard
\* A coding agent's answer is its answer to the call that returns it, whole.
AnswerIntact == pick = "acp" => Acp!AnswerIntact
\* A coding agent has one process, serves the next call, and lets no call wait for ever.
AgentsSound == pick = "acp" => Acp!AgentsSound
\* What is told of a turn afterwards is what happened.
LedgerSound == pick = "ledger" => Ledger!LedgerSound
=============================================================================
