----------------------------- MODULE HostProofs -----------------------------
(* Proofs about the configured process and the threads of its turns. *)
EXTENDS HostUnion, SequenceTheorems, FiniteSetTheorems, Basics, TLAPS

-----------------------------------------------------------------------------
(* Boot, settings calls and reload *)

LEMMA HostMoves == [Next]_vars => [Host!Next]_hostVars
  BY DEF Next, vars

Pcs == {"idle", "secrets", "doc", "open", "write", "soul", "mark", "config", "plan", "build",
        "commit", "swap", "undo"}
Backend == Nat \ {0}
CallRecord ==
  [pc : Pcs, kind : {"save", "setup", "reload"}, rev : Nat, switch : BOOLEAN \union {Null},
   secret : BOOLEAN, doc : Host!Doc, cfg : Host!Conf \union {Null}, next : Nat, start : Nat,
   stop : Nat, parts : SUBSET Host!Parts, graph : Host!Graph \union {Null}]

HostType ==
  /\ yaml \in Host!Doc \union {Torn} /\ secrets \in Nat
  /\ marker \in BOOLEAN /\ headless \in BOOLEAN /\ up \in BOOLEAN /\ ending \in BOOLEAN
  /\ conf \in Host!Conf \union {Null} /\ bearer \in Host!Conf \union {Null}
  /\ graph \in Host!Graph \union {Null} /\ parts \in SUBSET Host!Parts
  /\ sched \in Nat /\ polling \in Nat /\ built \in Nat /\ calls \in Nat
  /\ posted \in Seq({"start", "stop"} \X Backend)
  /\ call \in [Workers -> CallRecord]

\* What the graph g is built from: a configuration, parts, a backend.
Fits(g, cfg, ps, n) ==
  g # Null =>
    /\ g.conf = cfg
    /\ g.tools \intersect {"memory", "inbox", "plugins", "mcp", "workflows"} = ps \ {"skills"}
    /\ "scheduler" \in g.tools <=> n # 0

HasRead(c) == c.pc \in {"plan", "build", "commit", "swap"} => c.cfg \in Host!Conf

\* What a call under way has read and built still fits what it will replace.
CallFits(c) ==
  /\ c.pc = "mark" => c.kind = "setup"
  /\ c.pc \in {"plan", "build", "commit", "swap"} => c.cfg \in Host!Conf
  /\ c.pc \in {"build", "commit", "swap"} =>
       /\ c.next # 0 => c.cfg.sched
       /\ sched = 0 => c.next = c.start
       /\ sched # 0 => c.start = 0 /\ (c.next = sched \/ (c.next = 0 /\ c.stop = sched))
  /\ c.pc \in {"commit", "swap"} =>
       /\ Fits(c.graph, c.cfg, c.parts, c.next)
       /\ c.graph = Null => ~marker
  /\ c.pc = "swap" => conf = c.cfg /\ bearer = c.cfg /\ parts \ Host!Late = c.parts \ Host!Late

Resting ==
  /\ conf = Null /\ bearer = Null /\ graph = Null /\ parts = {}
  /\ sched = 0 /\ polling = 0 /\ ~ending /\ posted = <<>>
  /\ call = [t \in Workers |-> Host!Idle]

Served ==
  up /\ (\A t \in Workers : call[t].pc # "swap") =>
    /\ bearer = conf /\ Fits(graph, conf, parts, sched)
    /\ sched # 0 => conf.sched

\* The marker stands over a process without a graph only while a setup is under way.
InSetup ==
  up /\ marker /\ graph = Null =>
    \E t \in Workers : /\ call[t].kind = "setup"
                       /\ call[t].pc \in {"config", "plan", "build", "commit", "swap", "undo"}

\* Who polls and is not to, or is still to start and is not to, has its stop in the queue.
StopQueued ==
  /\ polling \notin {0, sched} /\ ~ending =>
       \E i \in DOMAIN posted : posted[i] = <<"stop", polling>>
  /\ \A i \in DOMAIN posted :
       posted[i][1] = "start" /\ posted[i][2] # sched =>
         \E j \in DOMAIN posted : j > i /\ posted[j] = <<"stop", posted[i][2]>>

HostInv ==
  /\ HostType
  /\ ~up => Resting
  /\ \A t \in Workers : CallFits(call[t])
  /\ Served
  /\ InSetup
  /\ StopQueued

LEMMA HostConstants ==
  /\ Null \notin Host!Conf /\ Null \notin Host!Graph
  /\ \A failed \in Failures : failed \in SUBSET Host!Parts
  BY ReloadAssumption DEF ReloadAssumption, Host!ReloadAssumption

LEMMA HostInit == Init => HostInv
<1> SUFFICES ASSUME Host!Init PROVE HostInv
  BY DEF Init
<1> USE DEF Host!Init
<1>1. Host!Idle \in CallRecord
  BY HostConstants DEF Host!Idle, CallRecord, Pcs, Host!Defaults, Host!Doc, Host!NoBackend
<1>2. HostType
  <2>1. yaml \in Host!Doc
    BY DEF Host!Doc
  <2>2. posted \in Seq({"start", "stop"} \X Backend)
    OBVIOUS
  <2>3. call \in [Workers -> CallRecord]
    BY <1>1
  <2>4. parts \in SUBSET Host!Parts
    OBVIOUS
  <2>5. marker \in BOOLEAN /\ headless \in BOOLEAN /\ up \in BOOLEAN /\ ending \in BOOLEAN
    <3>1. marker \in BOOLEAN BY DEF Host!Init
    <3>2. headless \in BOOLEAN BY DEF Host!Init
    <3>3. up \in BOOLEAN  BY DEF Host!Init
    <3>4. ending \in BOOLEAN BY DEF Host!Init
    <3> QED
      BY <3>1, <3>2, <3>3, <3>4
  <2>6. /\ secrets \in Nat /\ sched \in Nat /\ polling \in Nat /\ built \in Nat /\ calls \in Nat
        /\ conf = Null /\ bearer = Null /\ graph = Null
    BY DEF Host!NoBackend
  <2> QED
    BY <2>1, <2>2, <2>3, <2>4, <2>5, <2>6, Zenon DEF HostType
<1>3. \A t \in Workers : CallFits(call[t])
  BY DEF CallFits, Host!Idle
<1>4. Resting
  BY DEF Resting, Host!NoBackend
<1>5. Served /\ InSetup /\ StopQueued
  BY DEF Served, InSetup, StopQueued, Host!NoBackend
<1> QED
  BY <1>2, <1>3, <1>4, <1>5 DEF HostInv

LEMMA Loads ==
  ASSUME HostType, NEW doc \in Host!Readable
  PROVE  doc \in Host!Doc /\ Host!Load(doc) \in Host!Conf
<1>1. doc \in Host!Doc
  <2>1. Host!Defaults \in Host!Doc
    BY DEF Host!Defaults, Host!Doc
  <2>2. yaml \in Host!Doc \union {Torn}
    BY DEF HostType
  <2> QED
    BY <2>1, <2>2 DEF Host!Readable
<1> QED
  BY <1>1 DEF HostType, Host!Load, Host!Doc, Host!Conf

LEMMA Compiles ==
  ASSUME NEW cfg \in Host!Conf, NEW ps \in SUBSET Host!Parts, NEW n \in Nat, NEW beads \in BOOLEAN
  PROVE  /\ Host!Compile(cfg, ps, n, beads) \in Host!Graph
         /\ Fits(Host!Compile(cfg, ps, n, beads), cfg, ps, n)
<1>1. Host!Compile(cfg, ps, n, beads) \in Host!Graph
  BY DEF Host!Compile, Host!ToolGroups, Host!Graph, Host!Parts
<1> QED
  BY <1>1 DEF Fits, Host!Compile, Host!ToolGroups, Host!Parts, Host!NoBackend

LEMMA IdleRecord == Host!Idle \in CallRecord
  BY HostConstants DEF Host!Idle, CallRecord, Pcs, Host!Defaults, Host!Doc, Host!NoBackend

\* What runs in a call moves its record, and nothing else of it.
LEMMA CallMoves ==
  ASSUME NEW c \in CallRecord
  PROVE  /\ \A p \in Pcs : [c EXCEPT !.pc = p] \in CallRecord
         /\ \A doc \in Host!Doc : [c EXCEPT !.pc = "open", !.doc = doc] \in CallRecord
         /\ \A cfg \in Host!Conf : [c EXCEPT !.pc = "plan", !.cfg = cfg] \in CallRecord
         /\ \A n, s, e \in Nat :
              [c EXCEPT !.pc = "build", !.next = n, !.start = s, !.stop = e] \in CallRecord
         /\ \A ps \in SUBSET Host!Parts, g \in Host!Graph \union {Null} :
              [c EXCEPT !.pc = "commit", !.parts = ps, !.graph = g] \in CallRecord
<1> USE DEF CallRecord
<1>1. {"open", "plan", "build", "commit"} \subseteq Pcs
  BY DEF Pcs
<1>2. \A p \in Pcs : [c EXCEPT !.pc = p] \in CallRecord
  OBVIOUS
<1>3. \A doc \in Host!Doc : [c EXCEPT !.pc = "open", !.doc = doc] \in CallRecord
  BY <1>1
<1>4. \A cfg \in Host!Conf : [c EXCEPT !.pc = "plan", !.cfg = cfg] \in CallRecord
  BY <1>1
<1>5. \A n, s, e \in Nat :
        [c EXCEPT !.pc = "build", !.next = n, !.start = s, !.stop = e] \in CallRecord
  BY <1>1
<1>6. \A ps \in SUBSET Host!Parts, g \in Host!Graph \union {Null} :
        [c EXCEPT !.pc = "commit", !.parts = ps, !.graph = g] \in CallRecord
  BY <1>1
<1> QED
  BY <1>2, <1>3, <1>4, <1>5, <1>6

LEMMA HostTypeCalls ==
  ASSUME HostType, NEW t \in Workers, HasRead(call[t]), Host!Step(t)
  PROVE  HostType'
<1> USE DEF HostType, Host!files, Host!memory, Host!loop, Host!counters, Host!history
<1> DEFINE c == call[t]
<1>1. c \in CallRecord
  OBVIOUS
<1>2. ASSUME NEW d \in CallRecord, call' = [call EXCEPT ![t] = d]
      PROVE  call' \in [Workers -> CallRecord]
  BY <1>2
<1>3. ASSUME NEW kind \in {"save", "setup", "reload"}, NEW switch \in BOOLEAN \union {Null},
             NEW secret \in BOOLEAN, Host!Request(t, kind, switch, secret)
      PROVE  HostType'
  <2> DEFINE d == [Host!Idle EXCEPT !.pc = IF kind = "reload" THEN "config" ELSE "secrets",
                       !.kind = kind, !.rev = calls + 1, !.switch = switch, !.secret = secret]
  <2>1. d \in CallRecord
    <3>1. (IF kind = "reload" THEN "config" ELSE "secrets") \in Pcs /\ calls + 1 \in Nat
      BY DEF Pcs
    <3>2. \A i \in CallRecord, p \in Pcs, n \in Nat :
            [i EXCEPT !.pc = p, !.kind = kind, !.rev = n, !.switch = switch, !.secret = secret]
              \in CallRecord
      BY DEF CallRecord
    <3> QED
      BY <3>1, <3>2, IdleRecord
  <2>2. call' = [call EXCEPT ![t] = d]
    BY <1>3 DEF Host!Request
  <2> HIDE DEF d
  <2>3. call' \in [Workers -> CallRecord]
    BY <2>1, <2>2
  <2> QED
    BY <1>3, <2>3 DEF Host!Request
<1>4. CASE Host!SaveSecrets(t)
  <2>1. call' \in [Workers -> CallRecord]
    BY <1>1, <1>4, CallMoves, IdleRecord DEF Host!SaveSecrets, Host!Goto, Host!Reply, Pcs
  <2>2. secrets' \in Nat
    BY <1>1, <1>4 DEF Host!SaveSecrets, CallRecord
  <2> QED
    BY <1>4, <2>1, <2>2 DEF Host!SaveSecrets
<1>5. CASE Host!LoadDoc(t)
  <2>1. call' \in [Workers -> CallRecord]
    <3>1. PICK doc \in Host!Readable : call' = [call EXCEPT ![t].pc = "open", ![t].doc = doc]
      BY <1>5 DEF Host!LoadDoc
    <3>2. doc \in Host!Doc
      BY Loads
    <3>3. [c EXCEPT !.pc = "open", !.doc = doc] \in CallRecord
      BY <1>1, <3>2, CallMoves
    <3> QED
      BY <3>1, <3>3
  <2> QED
    BY <1>5, <2>1 DEF Host!LoadDoc
<1>6. CASE Host!OpenYaml(t)
  <2>1. call' \in [Workers -> CallRecord]
    BY <1>1, <1>6, CallMoves DEF Host!OpenYaml, Host!Goto, Pcs
  <2> QED
    BY <1>6, <2>1 DEF Host!OpenYaml
<1>7. CASE Host!WriteYaml(t)
  <2>1. call' \in [Workers -> CallRecord]
    BY <1>1, <1>7, CallMoves DEF Host!WriteYaml, Host!Goto, Pcs
  <2>2. yaml' \in Host!Doc
    BY <1>1, <1>7 DEF Host!WriteYaml, Host!Merged, Host!Doc, CallRecord
  <2> QED
    BY <1>7, <2>1, <2>2 DEF Host!WriteYaml
<1>8. CASE Host!WriteSoul(t)
  <2>1. call' \in [Workers -> CallRecord]
    BY <1>1, <1>8, CallMoves, IdleRecord DEF Host!WriteSoul, Host!Goto, Host!Reply, Pcs
  <2> QED
    BY <1>8, <2>1 DEF Host!WriteSoul
<1>9. CASE Host!MarkComplete(t)
  <2>1. call' \in [Workers -> CallRecord]
    BY <1>1, <1>9, CallMoves DEF Host!MarkComplete, Host!Goto, Pcs
  <2> QED
    BY <1>9, <2>1 DEF Host!MarkComplete
<1>10. CASE Host!ReadConfig(t)
  <2>1. call' \in [Workers -> CallRecord]
    <3>1. CASE call' = [call EXCEPT ![t].pc = "undo"]
      BY <1>1, <3>1, CallMoves DEF Pcs
    <3>2. ASSUME NEW doc \in Host!Readable, Host!Planned(t, Host!Load(doc))
          PROVE  call' \in [Workers -> CallRecord]
      <4>1. Host!Load(doc) \in Host!Conf
        BY Loads
      <4>2. [c EXCEPT !.pc = "plan", !.cfg = Host!Load(doc)] \in CallRecord
        BY <1>1, <4>1, CallMoves
      <4> QED
        BY <3>2, <4>2 DEF Host!Planned
    <3> QED
      BY <1>10, <3>1, <3>2 DEF Host!ReadConfig, Host!Goto
  <2> QED
    BY <1>10, <2>1 DEF Host!ReadConfig
<1>11. CASE Host!PlanScheduler(t)
  <2>1. call' \in [Workers -> CallRecord] /\ built' \in Nat
    <3>1. PICK ok \in BOOLEAN :
            LET cfg == c.cfg
                new == IF sched = 0 THEN Host!BuildScheduler(cfg, ok) ELSE 0
            IN /\ call' = [call EXCEPT
                    ![t].pc = "build",
                    ![t].next = IF sched = 0 THEN new ELSE IF cfg.sched THEN sched ELSE 0,
                    ![t].start = new,
                    ![t].stop = IF cfg.sched THEN 0 ELSE sched]
               /\ built' = IF new # 0 THEN new ELSE built
      BY <1>11 DEF Host!PlanScheduler, Host!NoBackend
    <3> DEFINE new == IF sched = 0 THEN Host!BuildScheduler(c.cfg, ok) ELSE 0
               next == IF sched = 0 THEN new ELSE IF c.cfg.sched THEN sched ELSE 0
               stop == IF c.cfg.sched THEN 0 ELSE sched
    <3>2. new \in Nat /\ next \in Nat /\ stop \in Nat
      BY DEF Host!BuildScheduler, Host!NoBackend
    <3>3. call' = [call EXCEPT ![t] = [c EXCEPT !.pc = "build", !.next = next, !.start = new,
                                                !.stop = stop]]
          /\ built' \in {new, built}
      BY <3>1
    <3> HIDE DEF new, next, stop
    <3>4. [c EXCEPT !.pc = "build", !.next = next, !.start = new, !.stop = stop] \in CallRecord
      BY <1>1, <3>2, CallMoves
    <3> QED
      BY <3>2, <3>3, <3>4
  <2> QED
    BY <1>11, <2>1 DEF Host!PlanScheduler
<1>12. CASE Host!Build(t)
  <2>1. CASE call' = [call EXCEPT ![t].pc = "undo"]
    <3>1. call' \in [Workers -> CallRecord]
      BY <1>1, <2>1, CallMoves DEF Pcs
    <3> QED
      BY <1>12, <3>1 DEF Host!Build
  <2>2. ASSUME NEW ps \in SUBSET Host!Parts, NEW g \in Host!Graph \union {Null}, Host!Built(t, ps, g)
        PROVE  HostType'
    <3>1. call' \in [Workers -> CallRecord]
      BY <1>1, <2>2, CallMoves DEF Host!Built
    <3> QED
      BY <1>12, <3>1 DEF Host!Build
  <2>3. c.cfg \in Host!Conf /\ c.next \in Nat
    BY <1>1, <1>12 DEF HasRead, Host!Build, CallRecord
  <2> QED
    BY <1>12, <2>1, <2>2, <2>3, Compiles, HostConstants DEF Host!Build, Host!Goto, Host!Assemble
<1>13. CASE Host!Commit(t)
  <2>1. call' \in [Workers -> CallRecord]
    BY <1>1, <1>13, CallMoves DEF Host!Commit, Host!Goto, Pcs
  <2>2. c.cfg \in Host!Conf /\ c.parts \in SUBSET Host!Parts
    BY <1>1, <1>13 DEF HasRead, Host!Commit, CallRecord
  <2> QED
    BY <1>13, <2>1, <2>2 DEF Host!Commit
<1>14. CASE Host!Swap(t)
  <2>1. call' \in [Workers -> CallRecord]
    BY <1>1, <1>14, IdleRecord DEF Host!Swap, Host!Reply
  <2>2. c.start \in Nat /\ c.stop \in Nat /\ c.next \in Nat /\ c.parts \in SUBSET Host!Parts
        /\ c.graph \in Host!Graph \union {Null}
    BY <1>1 DEF CallRecord
  <2>3. posted' \in Seq({"start", "stop"} \X Backend)
    <3> DEFINE S == IF c.stop # 0 THEN << <<"stop", c.stop>> >> ELSE <<>>
               T == IF c.start # 0 THEN << <<"start", c.start>> >> ELSE <<>>
    <3>1. S \in Seq({"start", "stop"} \X Backend) /\ T \in Seq({"start", "stop"} \X Backend)
      <4>1. c.stop # 0 => <<"stop", c.stop>> \in {"start", "stop"} \X Backend
        BY <2>2 DEF Backend
      <4>2. c.start # 0 => <<"start", c.start>> \in {"start", "stop"} \X Backend
        BY <2>2 DEF Backend
      <4> DEFINE M == {"start", "stop"} \X Backend
      <4>3. S \in Seq(M)
        <5> DEFINE m == <<"stop", c.stop>>
        <5>1. CASE c.stop = 0
          BY <5>1
        <5>2. CASE c.stop # 0
          <6>1. m \in M /\ S = <<m>>
            BY <4>1, <5>2
          <6> HIDE DEF m, M
          <6> QED
            BY <6>1
        <5> QED
          BY <5>1, <5>2
      <4>4. T \in Seq(M)
        <5> DEFINE m == <<"start", c.start>>
        <5>1. CASE c.start = 0
          BY <5>1
        <5>2. CASE c.start # 0
          <6>1. m \in M /\ T = <<m>>
            BY <4>2, <5>2
          <6> HIDE DEF m, M
          <6> QED
            BY <6>1
        <5> QED
          BY <5>1, <5>2
      <4> QED
        BY <4>3, <4>4
    <3>2. posted' = posted \o S \o T
      BY <1>14 DEF Host!Swap, Host!NoBackend
    <3> HIDE DEF S, T
    <3> QED
      BY <3>1, <3>2
  <2>4. graph' \in Host!Graph \union {Null} /\ parts' \in SUBSET Host!Parts /\ sched' \in Nat
    BY <1>14, <2>2 DEF Host!Swap
  <2> QED
    BY <1>14, <2>1, <2>3, <2>4 DEF Host!Swap
<1>15. CASE Host!Undo(t)
  <2>1. call' \in [Workers -> CallRecord]
    BY <1>1, <1>15, IdleRecord DEF Host!Undo, Host!Reply
  <2> QED
    BY <1>15, <2>1 DEF Host!Undo
<1> QED
  BY <1>3, <1>4, <1>5, <1>6, <1>7, <1>8, <1>9, <1>10, <1>11, <1>12, <1>13, <1>14, <1>15
     DEF Host!Step

\* A call that is not at its swap leaves what serves, and what the loop holds, alone.
LEMMA HostQuiet ==
  ASSUME HostInv, up, NEW t \in Workers, \A u \in Workers : u = t, call[t].pc # "swap",
         UNCHANGED <<up, Host!memory, Host!loop>>
  PROVE  /\ up' /\ Served' /\ StopQueued'
         /\ UNCHANGED <<conf, bearer, graph, parts, sched, posted>>
<1>1. UNCHANGED <<up, conf, bearer, graph, parts, sched, polling, ending, posted>>
  BY DEF Host!memory, Host!loop
<1>2. \A u \in Workers : call[u].pc # "swap"
  OBVIOUS
<1>3. Served'
  BY <1>1, <1>2 DEF HostInv, Served, Fits
<1>4. StopQueued'
  BY <1>1 DEF HostInv, StopQueued
<1> QED
  BY <1>1, <1>3, <1>4

LEMMA HostCalls ==
  ASSUME HostInv, NEW t \in Workers, \A u \in Workers : u = t, Host!Step(t)
  PROVE  HostInv'
<1> DEFINE c == call[t]
           d == call'[t]
<1>1. HostType /\ CallFits(c) /\ c \in CallRecord /\ call \in [Workers -> CallRecord]
  BY DEF HostInv, HostType
<1>2. HostType'
  <2>1. HasRead(c)
    BY <1>1 DEF CallFits, HasRead
  <2> QED
    BY <1>1, <2>1, HostTypeCalls
<1>3. up
  <2>1. ASSUME ~up PROVE c = Host!Idle
    BY <2>1 DEF HostInv, Resting
  <2>2. c = Host!Idle => c.pc = "idle"
    BY DEF Host!Idle
  <2> QED
    BY <2>1, <2>2 DEF Host!Step, Host!Request, Host!SaveSecrets, Host!LoadDoc, Host!OpenYaml,
       Host!WriteYaml, Host!WriteSoul, Host!MarkComplete, Host!ReadConfig, Host!PlanScheduler,
       Host!Build, Host!Commit, Host!Swap, Host!Undo
<1>4. ASSUME UNCHANGED <<up, Host!memory, Host!loop>>, c.pc # "swap", CallFits(call[t])',
             marker' /\ graph = Null =>
               d.kind = "setup" /\ d.pc \in {"config", "plan", "build", "commit", "swap", "undo"}
      PROVE  HostInv'
  <2>1. up' /\ Served' /\ StopQueued' /\ graph' = graph
    BY <1>3, <1>4, HostQuiet
  <2>2. \A u \in Workers : CallFits(call[u])'
    BY <1>4
  <2>3. InSetup'
    BY <1>4, <2>1 DEF InSetup
  <2> QED
    BY <1>2, <2>1, <2>2, <2>3 DEF HostInv
\* A call that set the marker over no graph is a setup, and this one.
<1>5. marker /\ graph = Null =>
        c.kind = "setup" /\ c.pc \in {"config", "plan", "build", "commit", "swap", "undo"}
  BY <1>3 DEF HostInv, InSetup
<1>7. CASE \/ \E kind \in {"save", "setup"}, switch \in BOOLEAN \union {Null}, secret \in BOOLEAN :
                Host!Request(t, kind, switch, secret)
           \/ Host!Request(t, "reload", Null, FALSE)
  <2>1. UNCHANGED <<up, Host!memory, Host!loop, marker>> /\ c.pc = "idle"
        /\ d.pc \in {"secrets", "config"}
    <3>1. PICK kind, switch, secret : Host!Request(t, kind, switch, secret)
      BY <1>7
    <3>2. d = [Host!Idle EXCEPT !.pc = IF kind = "reload" THEN "config" ELSE "secrets",
                 !.kind = kind, !.rev = calls + 1, !.switch = switch, !.secret = secret]
      BY <1>1, <3>1 DEF Host!Request
    <3>3. d.pc = IF kind = "reload" THEN "config" ELSE "secrets"
      BY <3>2, IdleRecord DEF CallRecord
    <3> QED
      BY <3>1, <3>3 DEF Host!Request, Host!files
  <2>2. CallFits(call[t])'
    BY <2>1 DEF CallFits
  <2> QED
    BY <1>4, <1>5, <2>1, <2>2
<1>8. CASE Host!SaveSecrets(t)
  <2>1. UNCHANGED <<up, Host!memory, Host!loop, marker>> /\ c.pc = "secrets"
        /\ d.pc \in {"doc", "idle"}
    BY <1>1, <1>8, IdleRecord DEF Host!SaveSecrets, Host!Goto, Host!Reply, Host!Idle, CallRecord
  <2>2. CallFits(call[t])'
    BY <2>1 DEF CallFits
  <2> QED
    BY <1>4, <1>5, <2>1, <2>2
<1>9. CASE Host!LoadDoc(t)
  <2>1. UNCHANGED <<up, Host!memory, Host!loop, marker>> /\ c.pc = "doc" /\ d.pc = "open"
    BY <1>1, <1>9 DEF Host!LoadDoc, Host!files, CallRecord
  <2>2. CallFits(call[t])'
    BY <2>1 DEF CallFits
  <2> QED
    BY <1>4, <1>5, <2>1, <2>2
<1>10. CASE Host!OpenYaml(t)
  <2>1. UNCHANGED <<up, Host!memory, Host!loop, marker>> /\ c.pc = "open" /\ d.pc = "write"
    BY <1>1, <1>10 DEF Host!OpenYaml, Host!Goto, CallRecord
  <2>2. CallFits(call[t])'
    BY <2>1 DEF CallFits
  <2> QED
    BY <1>4, <1>5, <2>1, <2>2
<1>11. CASE Host!WriteYaml(t)
  <2>1. UNCHANGED <<up, Host!memory, Host!loop, marker>> /\ c.pc = "write" /\ d.pc = "soul"
    BY <1>1, <1>11 DEF Host!WriteYaml, Host!Goto, CallRecord
  <2>2. CallFits(call[t])'
    BY <2>1 DEF CallFits
  <2> QED
    BY <1>4, <1>5, <2>1, <2>2
<1>12. CASE Host!WriteSoul(t)
  <2>1. UNCHANGED <<up, Host!memory, Host!loop, marker>> /\ c.pc = "soul"
        /\ d.pc \in {"mark", "config", "idle"} /\ (d.pc = "mark" => d.kind = "setup")
    BY <1>1, <1>12 DEF Host!WriteSoul, Host!files, Host!Goto, Host!Reply, Host!Idle, CallRecord
  <2>2. CallFits(call[t])'
    BY <2>1 DEF CallFits
  <2> QED
    BY <1>4, <1>5, <2>1, <2>2
<1>13. CASE Host!MarkComplete(t)
  <2>1. UNCHANGED <<up, Host!memory, Host!loop>> /\ c.pc = "mark" /\ d.pc = "config"
        /\ d.kind = c.kind
    BY <1>1, <1>13 DEF Host!MarkComplete, Host!Goto, CallRecord
  <2>2. CallFits(call[t])' /\ d.kind = "setup"
    BY <1>1, <2>1 DEF CallFits
  <2> QED
    BY <1>4, <2>1, <2>2
<1>14. CASE Host!ReadConfig(t)
  <2>1. UNCHANGED <<up, Host!memory, Host!loop, marker>> /\ c.pc = "config" /\ d.kind = c.kind
        /\ (d.pc = "undo" \/ (d.pc = "plan" /\ d.cfg \in Host!Conf))
    BY <1>1, <1>14, Loads DEF Host!ReadConfig, Host!Planned, Host!files, Host!Goto, CallRecord
  <2>2. CallFits(call[t])'
    BY <2>1 DEF CallFits
  <2> QED
    BY <1>4, <1>5, <2>1, <2>2
<1>15. CASE Host!Undo(t)
  <2>1. UNCHANGED <<up, Host!memory, Host!loop>> /\ c.pc = "undo" /\ d.pc = "idle"
        /\ (marker' = (marker /\ c.kind # "setup"))
    BY <1>1, <1>15 DEF Host!Undo, Host!Reply, Host!Idle, CallRecord
  <2>2. CallFits(call[t])'
    BY <2>1 DEF CallFits
  <2> QED
    BY <1>4, <1>5, <2>1, <2>2
<1>16. CASE Host!PlanScheduler(t)
  <2>1. UNCHANGED <<up, Host!memory, Host!loop, marker>> /\ c.pc = "plan" /\ d.pc = "build"
        /\ d.kind = c.kind /\ d.cfg = c.cfg
    BY <1>1, <1>16 DEF Host!PlanScheduler, Host!files, CallRecord
  <2>2. sched = 0 => d.next = d.start /\ (d.next # 0 => c.cfg.sched)
    BY <1>1, <1>16 DEF Host!PlanScheduler, Host!BuildScheduler, Host!NoBackend, CallRecord
  <2>3. sched # 0 => /\ d.start = 0 /\ (d.next # 0 => c.cfg.sched)
                     /\ (d.next = sched \/ (d.next = 0 /\ d.stop = sched))
    BY <1>1, <1>16 DEF Host!PlanScheduler, Host!NoBackend, CallRecord
  <2>4. CallFits(call[t])'
    BY <1>1, <2>1, <2>2, <2>3 DEF CallFits, Host!memory
  <2> QED
    BY <1>4, <1>5, <2>1, <2>4
<1>17. CASE Host!Build(t)
  <2>1. UNCHANGED <<up, Host!memory, Host!loop, marker>> /\ c.pc = "build"
    BY <1>17 DEF Host!Build, Host!files
  <2>2. CASE marker /\ Host!Goto(t, "undo")
    <3>1. d.pc = "undo" /\ d.kind = c.kind
      BY <1>1, <2>2 DEF Host!Goto, CallRecord
    <3>2. CallFits(call[t])'
      BY <3>1 DEF CallFits
    <3> QED
      BY <1>4, <1>5, <2>1, <3>1, <3>2
  <2>3. ASSUME NEW ps \in SUBSET Host!Parts, NEW g, Host!Built(t, ps, g), Fits(g, c.cfg, ps, c.next),
               g = Null => ~marker
        PROVE  HostInv'
    <3>1. /\ d.pc = "commit" /\ d.cfg = c.cfg /\ d.next = c.next /\ d.start = c.start
          /\ d.stop = c.stop /\ d.parts = ps /\ d.graph = g /\ d.kind = c.kind
      BY <1>1, <2>3 DEF Host!Built, CallRecord
    <3>2. CallFits(call[t])'
      BY <1>1, <2>1, <2>3, <3>1 DEF CallFits, Fits, Host!memory
    <3> QED
      BY <1>4, <1>5, <2>1, <3>1, <3>2
  <2>4. c.cfg \in Host!Conf /\ c.next \in Nat
    BY <1>1, <2>1 DEF CallFits, CallRecord
  <2>5. CASE marker /\ \E failed \in Failures :
               LET ps == Host!Assemble(failed)
               IN Host!Built(t, ps, Host!Compile(c.cfg, ps, c.next, FALSE))
    <3>1. PICK failed \in Failures : Host!Built(t, Host!Assemble(failed),
                                       Host!Compile(c.cfg, Host!Assemble(failed), c.next, FALSE))
      BY <2>5
    <3>2. Host!Assemble(failed) \in SUBSET Host!Parts
      BY DEF Host!Assemble
    <3>3. Host!Compile(c.cfg, Host!Assemble(failed), c.next, FALSE) # Null
      BY <2>4, <3>2, Compiles, HostConstants
    <3> QED
      BY <2>3, <2>4, <3>1, <3>2, <3>3, Compiles
  <2>6. CASE ~marker /\ Host!Built(t, {}, Null)
    BY <2>3, <2>6 DEF Fits
  <2> QED
    BY <1>17, <2>2, <2>5, <2>6 DEF Host!Build
<1>18. CASE Host!Commit(t)
  <2>1. /\ UNCHANGED <<up, marker, graph, sched, polling, ending, posted>>
        /\ c.pc = "commit" /\ d = [c EXCEPT !.pc = "swap"]
        /\ conf' = c.cfg /\ bearer' = c.cfg
        /\ parts' = (c.parts \ Host!Late) \union (parts \intersect Host!Late)
    BY <1>1, <1>18 DEF Host!Commit, Host!Goto, Host!files, Host!loop
  <2>2. d.pc = "swap" /\ d.kind = c.kind /\ d.cfg = c.cfg /\ d.next = c.next /\ d.start = c.start
        /\ d.stop = c.stop /\ d.parts = c.parts /\ d.graph = c.graph
    BY <1>1, <2>1 DEF CallRecord
  <2>3. CallFits(call[t])'
    BY <1>1, <2>1, <2>2 DEF CallFits, Fits
  <2>4. Served'
    BY <2>2 DEF Served
  <2>5. InSetup'
    BY <1>5, <2>1, <2>2 DEF InSetup
  <2>6. StopQueued'
    BY <2>1 DEF HostInv, StopQueued
  <2>7. \A u \in Workers : CallFits(call[u])'
    BY <2>3
  <2> QED
    BY <1>2, <1>3, <2>1, <2>4, <2>5, <2>6, <2>7 DEF HostInv
<1>19. CASE Host!Swap(t)
  <2> DEFINE S == IF c.stop # 0 THEN << <<"stop", c.stop>> >> ELSE <<>>
             T == IF c.start # 0 THEN << <<"start", c.start>> >> ELSE <<>>
  <2>1. /\ UNCHANGED <<up, marker, conf, bearer, polling, ending>>
        /\ c.pc = "swap" /\ d = Host!Idle /\ graph' = c.graph /\ sched' = c.next
        /\ parts' = (parts \ Host!Late) \union (c.parts \intersect Host!Late)
        /\ posted' = posted \o S \o T
    BY <1>1, <1>19 DEF Host!Swap, Host!Reply, Host!files, Host!NoBackend
  <2>2. d.pc = "idle"
    BY <2>1 DEF Host!Idle
  <2>3. /\ c.next # 0 => c.cfg.sched
        /\ sched = 0 => c.next = c.start
        /\ sched # 0 => c.start = 0 /\ (c.next = sched \/ (c.next = 0 /\ c.stop = sched))
        /\ Fits(c.graph, c.cfg, c.parts, c.next) /\ (c.graph = Null => ~marker)
        /\ conf = c.cfg /\ bearer = c.cfg /\ parts \ Host!Late = c.parts \ Host!Late
    BY <1>1, <2>1 DEF CallFits
  <2>4. Served'
    <3>1. parts' = c.parts
      BY <2>1, <2>3
    <3> QED
      BY <2>1, <2>3, <3>1 DEF Served, Fits
  <2>5. InSetup'
    BY <2>1, <2>3 DEF InSetup
  <2>6. \A u \in Workers : CallFits(call[u])'
    BY <2>2 DEF CallFits
  <2>7. StopQueued'
    <3> DEFINE n == Len(posted)
    <3>1. posted \in Seq({"start", "stop"} \X Backend) /\ n \in Nat /\ DOMAIN posted = 1..n
      BY <1>1 DEF HostType
    <3>2. StopQueued
      BY DEF HostInv
    <3>3. /\ S \in Seq({"start", "stop"} \X Nat) /\ Len(S) \in 0..1
          /\ T \in Seq({"start", "stop"} \X Nat) /\ Len(T) \in 0..1
      <4>1. c.stop \in Nat /\ c.start \in Nat
        BY <1>1 DEF CallRecord
      <4> DEFINE M == {"start", "stop"} \X Nat
      <4>4. \A m \in M, b \in BOOLEAN :
              LET q == IF b THEN <<m>> ELSE <<>> IN q \in Seq(M) /\ Len(q) \in 0..1
        <5> HIDE DEF M
        <5> QED
          OBVIOUS
      <4>5. <<"stop", c.stop>> \in M /\ <<"start", c.start>> \in M
        BY <4>1
      <4> HIDE DEF M
      <4>2. S \in Seq(M) /\ Len(S) \in 0..1
        BY <4>4, <4>5
      <4>3. T \in Seq(M) /\ Len(T) \in 0..1
        BY <4>4, <4>5
      <4> QED
        BY <4>2, <4>3 DEF M
    <3>4. /\ c.stop # 0 => Len(S) = 1 /\ S[1] = <<"stop", c.stop>>
          /\ \A i \in 1..Len(S) : S[i] = <<"stop", c.stop>>
          /\ \A i \in 1..Len(T) : T[i] = <<"start", c.start>> /\ c.start # 0
      OBVIOUS
    <3>5. /\ DOMAIN posted' = 1..(n + Len(S) + Len(T))
          /\ \A i \in 1..n : posted'[i] = posted[i]
          /\ \A i \in 1..Len(S) : posted'[n + i] = S[i]
          /\ \A i \in 1..Len(T) : posted'[n + Len(S) + i] = T[i]
      <4> HIDE DEF S, T
      <4> QED
        BY <2>1, <3>1, <3>3, SMTT(30)
    <3> HIDE DEF S, T, n
    \* The backend that serves no more is stopped after all that was posted before.
    <3>6. sched # 0 /\ c.next # sched =>
            n + 1 \in DOMAIN posted' /\ posted'[n + 1] = <<"stop", sched>>
      <4> SUFFICES ASSUME sched # 0, c.next # sched
                   PROVE  n + 1 \in DOMAIN posted' /\ posted'[n + 1] = <<"stop", sched>>
        OBVIOUS
      <4>1. c.stop = sched /\ Len(S) = 1 /\ S[1] = <<"stop", sched>>
        BY <2>3, <3>4
      <4> QED
        BY <3>1, <3>3, <3>5, <4>1
    <3>7. ASSUME polling \notin {0, c.next}, ~ending
          PROVE  \E i \in DOMAIN posted' : posted'[i] = <<"stop", polling>>
      <4>1. CASE polling = sched
        BY <3>6, <3>7, <4>1
      <4>2. CASE polling # sched
        <5>1. PICK i \in 1..n : posted[i] = <<"stop", polling>>
          BY <3>1, <3>2, <3>7, <4>2 DEF StopQueued
        <5>2. i \in DOMAIN posted'
          BY <3>1, <3>3, <3>5
        <5> QED
          BY <3>5, <5>1, <5>2
      <4> QED
        BY <4>1, <4>2
    <3>8. ASSUME NEW i \in DOMAIN posted', posted'[i][1] = "start", posted'[i][2] # c.next
          PROVE  \E j \in DOMAIN posted' : j > i /\ posted'[j] = <<"stop", posted'[i][2]>>
      <4>1. CASE i \in 1..n
        <5>1. posted'[i] = posted[i] /\ posted[i][2] \in Backend
          BY <3>1, <3>5, <4>1
        <5>2. CASE posted[i][2] = sched
          <6>1. sched # 0 /\ c.next # sched /\ n + 1 > i
            BY <3>1, <3>8, <4>1, <5>1, <5>2 DEF Backend
          <6> QED
            BY <3>6, <5>1, <5>2, <6>1
        <5>3. CASE posted[i][2] # sched
          <6>1. PICK j \in 1..n : j > i /\ posted[j] = <<"stop", posted[i][2]>>
            BY <3>1, <3>2, <3>8, <4>1, <5>1, <5>3 DEF StopQueued
          <6>2. j \in DOMAIN posted'
            BY <3>1, <3>3, <3>5
          <6> QED
            BY <3>5, <5>1, <6>1, <6>2
        <5> QED
          BY <5>2, <5>3
      <4>2. CASE i \notin 1..n
        <5>1. i - n \in 1..Len(S) \/ i - n - Len(S) \in 1..Len(T)
          BY <3>1, <3>3, <3>5, <4>2, SMTT(30)
        <5>2. CASE i - n \in 1..Len(S)
          <6>1. posted'[n + (i - n)] = <<"stop", c.stop>> /\ n + (i - n) = i
            BY <3>1, <3>4, <3>5, <5>2
          <6> QED
            BY <3>8, <6>1
        <5>3. CASE i - n - Len(S) \in 1..Len(T)
          <6>1. n + Len(S) + (i - n - Len(S)) = i
            BY <3>1, <3>3, <3>5
          <6>2. posted'[i] = <<"start", c.start>> /\ c.start # 0
            BY <3>4, <3>5, <5>3, <6>1
          <6>3. c.next = c.start
            BY <2>3, <6>2
          <6> QED
            BY <3>8, <6>2, <6>3
        <5> QED
          BY <5>1, <5>2, <5>3
      <4> QED
        BY <4>1, <4>2
    <3> QED
      BY <2>1, <3>7, <3>8 DEF StopQueued
  <2> QED
    BY <1>2, <1>3, <2>1, <2>4, <2>5, <2>6, <2>7 DEF HostInv
<1> QED
  BY <1>7, <1>8, <1>9, <1>10, <1>11, <1>12, <1>13, <1>14, <1>15, <1>16, <1>17, <1>18, <1>19
     DEF Host!Step

LEMMA HostBoots ==
  ASSUME HostInv, Host!Boot
  PROVE  HostInv'
<1>1. HostType /\ Resting
  BY DEF HostInv, Host!Boot
<1>2. PICK doc \in Host!Readable, failed \in Failures, ok \in BOOLEAN :
        LET cfg == Host!Load(doc)
            ready == marker \/ headless
            ps == IF ready THEN Host!Assemble(failed) ELSE {}
            backend == IF ready THEN Host!BuildScheduler(cfg, ok) ELSE Host!NoBackend
        IN /\ marker' = ready
           /\ conf' = cfg /\ bearer' = cfg
           /\ graph' = IF ready THEN Host!Compile(cfg, ps, backend, TRUE) ELSE Null
           /\ parts' = ps
           /\ sched' = backend
           /\ polling' = backend
           /\ built' = IF backend # Host!NoBackend THEN backend ELSE built
  BY DEF Host!Boot, Host!StartupHook
<1> DEFINE cfg == Host!Load(doc)
           ready == marker \/ headless
           ps == IF ready THEN Host!Assemble(failed) ELSE {}
           backend == IF ready THEN Host!BuildScheduler(cfg, ok) ELSE 0
<1>3. cfg \in Host!Conf
  BY <1>1, Loads
<1>4. ps \in SUBSET Host!Parts
  BY DEF Host!Assemble
<1>5. backend \in Nat /\ (backend # 0 => ready /\ cfg.sched)
  BY <1>1 DEF HostType, Host!BuildScheduler, Host!NoBackend
<1>6. ready \in BOOLEAN
  BY <1>1 DEF HostType
<1>7. /\ marker' = ready /\ conf' = cfg /\ bearer' = cfg /\ parts' = ps
      /\ graph' = (IF ready THEN Host!Compile(cfg, ps, backend, TRUE) ELSE Null)
      /\ sched' = backend /\ polling' = backend /\ built' \in {backend, built}
  BY <1>2 DEF Host!NoBackend
<1> HIDE DEF cfg, ready, ps, backend
<1>8. Host!Compile(cfg, ps, backend, TRUE) \in Host!Graph \ {Null}
      /\ Fits(Host!Compile(cfg, ps, backend, TRUE), cfg, ps, backend)
  BY <1>3, <1>4, <1>5, Compiles, HostConstants
<1>9. UNCHANGED <<yaml, secrets, headless, ending, posted, call, calls>> /\ up' = TRUE
  BY DEF Host!Boot
<1>10. HostType'
  BY <1>1, <1>3, <1>4, <1>5, <1>6, <1>7, <1>8, <1>9 DEF HostType
<1>11. \A t \in Workers : call[t].pc = "idle"
  BY <1>1 DEF Resting, Host!Idle
<1>12. \A t \in Workers : CallFits(call[t])'
  BY <1>9, <1>11 DEF CallFits
<1>13. Served'
  BY <1>5, <1>7, <1>8 DEF Served, Fits
<1>14. InSetup'
  BY <1>7, <1>8 DEF InSetup
<1>15. posted = <<>>
  BY <1>1 DEF Resting
<1>16. StopQueued'
  BY <1>7, <1>9, <1>15 DEF StopQueued
<1> QED
  BY <1>9, <1>10, <1>12, <1>13, <1>14, <1>16 DEF HostInv

LEMMA HostStops ==
  ASSUME HostInv, Host!Stop
  PROVE  HostInv'
<1>1. Resting' /\ UNCHANGED <<yaml, secrets, marker, headless, built, calls>> /\ up' = FALSE
  BY DEF Resting, Host!Stop, Host!NoBackend, Host!files, Host!counters
<1>2. call' \in [Workers -> CallRecord]
  BY <1>1, IdleRecord DEF Resting
<1>3. posted' \in Seq({"start", "stop"} \X Backend)
  BY <1>1 DEF Resting
<1>4. HostType
  BY DEF HostInv
<1>5. HostType'
  <2>1. /\ conf' = Null /\ bearer' = Null /\ graph' = Null /\ parts' = {}
        /\ sched' = 0 /\ polling' = 0
    BY <1>1 DEF Resting
  <2>2. up' \in BOOLEAN
    BY <1>1
  <2>3. ending' \in BOOLEAN
    BY DEF Host!Stop
  <2> QED
    BY <1>1, <1>2, <1>3, <1>4, <2>1, <2>2, <2>3 DEF HostType
<1>6. \A t \in Workers : CallFits(call[t])'
  BY <1>1 DEF Resting, CallFits, Host!Idle
<1>7. Served' /\ InSetup' /\ StopQueued'
  BY <1>1 DEF Resting, Served, InSetup, StopQueued
<1> QED
  BY <1>1, <1>5, <1>6, <1>7 DEF HostInv

LEMMA HostLoop ==
  ASSUME HostInv, Host!RunStart \/ Host!RunStop \/ Host!StopEnds
  PROVE  HostInv'
<1> DEFINE M == {"start", "stop"} \X Backend
           n == Len(posted)
<1>1. HostType /\ StopQueued /\ posted \in Seq(M) /\ n \in Nat /\ DOMAIN posted = 1..n
  BY DEF HostInv, HostType
<1>2. UNCHANGED <<Host!files, up, Host!memory, call, Host!counters>>
  BY DEF Host!RunStart, Host!RunStop, Host!StopEnds
<1>3. UNCHANGED <<yaml, secrets, marker, headless, up, conf, bearer, graph, parts, sched, call,
                 calls, built>>
  BY <1>2 DEF Host!files, Host!memory, Host!counters
<1>4. up
  BY DEF HostInv, Resting, Host!RunStart, Host!RunStop, Host!StopEnds
<1>5. (\A t \in Workers : CallFits(call[t])') /\ Served' /\ InSetup'
  BY <1>3 DEF HostInv, CallFits, Served, InSetup, Fits
<1>6. ASSUME posted # <<>>
      PROVE  /\ n > 0 /\ Head(posted) = posted[1] /\ posted[1] \in M
             /\ Tail(posted) \in Seq(M) /\ DOMAIN Tail(posted) = 1..(n - 1)
             /\ \A i \in 1..(n - 1) : Tail(posted)[i] = posted[i + 1]
  <2> HIDE DEF M
  <2> QED
    BY <1>1, <1>6
\* A stop that is queued and is not the head is queued when the head has run.
<1>7. ASSUME posted # <<>>, posted' = Tail(posted), NEW m, NEW j \in DOMAIN posted,
             posted[j] = m, m # posted[1]
      PROVE  \E k \in DOMAIN posted' : posted'[k] = m
  <2>1. j - 1 \in 1..(n - 1) /\ (j - 1) + 1 = j
    BY <1>1, <1>7
  <2> QED
    BY <1>6, <1>7, <2>1
<1>8. ASSUME posted # <<>>, posted' = Tail(posted)
      PROVE  \A i \in DOMAIN posted' : posted'[i][1] = "start" /\ posted'[i][2] # sched =>
               \E k \in DOMAIN posted' : k > i /\ posted'[k] = <<"stop", posted'[i][2]>>
  <2> SUFFICES ASSUME NEW i \in DOMAIN posted', posted'[i][1] = "start", posted'[i][2] # sched
               PROVE  \E k \in DOMAIN posted' : k > i /\ posted'[k] = <<"stop", posted'[i][2]>>
    OBVIOUS
  <2>1. i \in 1..(n - 1) /\ posted'[i] = posted[i + 1] /\ i + 1 \in 1..n
    BY <1>1, <1>6, <1>8
  <2>2. PICK j \in DOMAIN posted : j > i + 1 /\ posted[j] = <<"stop", posted[i + 1][2]>>
    BY <1>1, <2>1 DEF StopQueued
  <2>3. j - 1 \in 1..(n - 1) /\ j - 1 > i /\ (j - 1) + 1 = j
    BY <1>1, <2>1, <2>2
  <2>4. j - 1 \in DOMAIN posted' /\ posted'[j - 1] = posted[j]
    BY <1>6, <1>8, <2>3
  <2> QED
    BY <2>1, <2>2, <2>3, <2>4
<1>9. CASE Host!RunStart
  <2>1. /\ posted # <<>> /\ posted[1][1] = "start" /\ posted' = Tail(posted)
        /\ polling' = (IF polling = 0 THEN posted[1][2] ELSE polling) /\ ending' = ending
    BY <1>6, <1>9 DEF Host!RunStart, Host!NoBackend
  <2>2. posted[1][2] \in Backend
    BY <1>6, <2>1
  <2>3. HostType'
    BY <1>1, <1>3, <1>6, <2>1, <2>2 DEF HostType, Backend
  <2>4. ASSUME polling' \notin {0, sched}, ~ending
        PROVE  \E j \in DOMAIN posted : posted[j] = <<"stop", polling'>>
    <3>1. CASE polling = 0
      BY <1>1, <1>6, <2>1, <2>4, <3>1 DEF StopQueued
    <3>2. CASE polling # 0
      BY <1>1, <2>1, <2>4, <3>2 DEF StopQueued
    <3> QED
      BY <3>1, <3>2
  <2>5. ASSUME polling' \notin {0, sched}, ~ending
        PROVE  \E j \in DOMAIN posted' : posted'[j] = <<"stop", polling'>>
    <3>1. PICK j \in DOMAIN posted : posted[j] = <<"stop", polling'>>
      BY <2>4, <2>5
    <3>2. <<"stop", polling'>> # posted[1]
      BY <2>1
    <3> QED
      BY <1>7, <2>1, <3>1, <3>2
  <2>6. StopQueued'
    BY <1>3, <1>8, <2>1, <2>5 DEF StopQueued
  <2> QED
    BY <1>3, <1>4, <1>5, <2>3, <2>6 DEF HostInv
<1>10. CASE Host!RunStop
  <2>1. /\ posted # <<>> /\ posted[1][1] = "stop" /\ posted' = Tail(posted) /\ polling' = polling
        /\ ending' = (ending \/ polling = posted[1][2])
    BY <1>6, <1>10 DEF Host!RunStop
  <2>2. HostType'
    BY <1>1, <1>3, <1>6, <2>1 DEF HostType
  <2>3. ASSUME polling \notin {0, sched}, ~ending'
        PROVE  \E j \in DOMAIN posted' : posted'[j] = <<"stop", polling>>
    <3>1. PICK j \in DOMAIN posted : posted[j] = <<"stop", polling>>
      BY <1>1, <2>1, <2>3 DEF StopQueued
    <3>2. polling # posted[1][2]
      BY <2>1, <2>3
    <3>4. <<"stop", polling>> # posted[1]
      BY <3>2
    <3> QED
      BY <1>7, <2>1, <3>1, <3>4
  <2>4. StopQueued'
    BY <1>3, <1>8, <2>1, <2>3 DEF StopQueued
  <2> QED
    BY <1>3, <1>4, <1>5, <2>2, <2>4 DEF HostInv
<1>11. CASE Host!StopEnds
  <2>1. polling' = 0 /\ ending' = FALSE /\ posted' = posted
    BY <1>11 DEF Host!StopEnds, Host!NoBackend
  <2>2. HostType'
    BY <1>1, <1>3, <2>1 DEF HostType
  <2>3. StopQueued'
    BY <1>1, <1>3, <2>1 DEF StopQueued
  <2> QED
    BY <1>3, <1>4, <1>5, <2>2, <2>3 DEF HostInv
<1> QED
  BY <1>9, <1>10, <1>11

\* Settings calls one after the other: \A t, u \in Workers : t = u.
LEMMA HostStep ==
  ASSUME HostInv, \A t, u \in Workers : t = u, [Host!Next]_hostVars
  PROVE  HostInv'
<1>1. CASE Host!ResetSetup
  <2>1. HostType /\ marker' = FALSE
    BY <1>1 DEF HostInv, Host!ResetSetup
  <2>2. UNCHANGED <<yaml, secrets, headless, up, conf, bearer, graph, parts, sched, polling,
                   ending, posted, call, calls, built>> /\ up
    <3>1. up /\ UNCHANGED <<yaml, secrets, headless, up, Host!memory, Host!loop, call,
                            Host!counters>>
      BY <1>1 DEF Host!ResetSetup, Host!counters
    <3> QED
      BY <3>1 DEF Host!memory, Host!loop, Host!counters
  <2>3. HostType'
    BY <2>1, <2>2 DEF HostType
  <2>4. (\A t \in Workers : CallFits(call[t])') /\ Served' /\ InSetup' /\ StopQueued'
    BY <2>1, <2>2 DEF HostInv, CallFits, Served, InSetup, StopQueued, Fits
  <2> QED
    BY <2>2, <2>3, <2>4 DEF HostInv
<1>2. CASE UNCHANGED hostVars
  <2>1. UNCHANGED <<yaml, secrets, marker, headless, up, conf, bearer, graph, parts, sched,
                   polling, ending, posted, call, calls, built>>
    BY <1>2 DEF hostVars
  <2> QED
    BY <2>1 DEF HostInv, HostType, Resting, CallFits, Served, InSetup, StopQueued, Fits
<1>3. ASSUME NEW t \in Workers, Host!Step(t) PROVE HostInv'
  BY <1>3, HostCalls
<1> QED
  BY <1>1, <1>2, <1>3, HostBoots, HostStops, HostLoop DEF Host!Next

LEMMA HostInvSound == HostInv => Host!ServesConfig /\ Host!NoOrphan
<1> SUFFICES ASSUME HostInv PROVE Host!ServesConfig /\ Host!NoOrphan
  OBVIOUS
<1>1. Host!Consistent
  BY DEF HostInv, Served, Fits, Host!Consistent, Host!NoBackend
<1>2. Host!MarkerMeansGraph
  BY DEF HostInv, InSetup, Host!MarkerMeansGraph, Host!Calm
<1>3. Host!NoOrphan
  BY DEF HostInv, StopQueued, Host!NoOrphan, Host!Calm, Host!NoBackend
<1> QED
  BY <1>1, <1>2, <1>3 DEF Host!ServesConfig

\* What serves is of one configuration: graph, tools, stores, bearer and scheduler belong
\* together whichever part or step of a boot or a call fails, and the marker stands over no
\* process without a graph, as long as settings calls run one after the other.
THEOREM OneConfigServes ==
  ASSUME \A t, u \in Workers : t = u
  PROVE  Spec => []ServesConfig
<1>1. HostInv /\ [Next]_vars => HostInv'
  BY HostMoves, HostStep
<1>2. HostInv => ServesConfig
  BY HostInvSound DEF ServesConfig
<1> QED
  BY <1>1, <1>2, HostInit, PTL DEF Spec

\* A backend that was switched off or replaced is stopped: between calls, once the loop has
\* run what it was handed, none polls but the one that serves.
THEOREM NoPollerIsOrphaned ==
  ASSUME \A t, u \in Workers : t = u
  PROVE  Spec => []NoOrphan
<1>1. HostInv /\ [Next]_vars => HostInv'
  BY HostMoves, HostStep
<1>2. HostInv => NoOrphan
  BY HostInvSound DEF NoOrphan
<1> QED
  BY <1>1, <1>2, HostInit, PTL DEF Spec

-----------------------------------------------------------------------------
(* The conversation of a thread *)

LEMMA ChatMoves == [Next]_vars => [Chat!Next]_chatVars
  BY DEF Next, vars

TurnPcs == {"new", "run", "snapshot", "judge", "parked", "done"}
SavedRecord == [n : Nat, at : Nat, said : SUBSET Turns, ask : Turns \union {Nobody}]
TurnRecord == [pc : TurnPcs, th : Chat!Threads, via : {"a2a", "gradio"}, said : SUBSET Turns,
               runs : Nat, ask : Turns \union {Nobody}]
JobRecord == [pc : {"idle", "next", "delete"}, todo : SUBSET Chat!Threads, th : Chat!Threads,
              read : SUBSET Turns]
Jobs == {"sweep", "tab"}

ChatType ==
  /\ now \in Nat
  /\ saved \in [Chat!Threads -> SavedRecord]
  /\ turn \in [Turns -> TurnRecord]
  /\ job \in [Jobs -> JobRecord]
  /\ knowledge \in SUBSET Turns /\ dropped \in SUBSET Turns /\ raced \in SUBSET Turns

\* Turn t has spoken on thread th; it is not the only one there.
On(t, th) == turn[t].pc # "new" /\ turn[t].th = th
Shared(t, th) == \E u \in Turns \ {t} : On(u, th)
Summed == knowledge \union dropped

\* What is on a thread is in what a run will save of it, in what a retirement has read
\* of it, or accounted for.
RunKnows ==
  \A t \in Turns : turn[t].pc = "run" =>
    /\ t \in turn[t].said
    /\ \A v \in Turns : On(v, turn[t].th) => v \in turn[t].said \union Summed \union raced
JobKnows ==
  \A j \in Jobs : job[j].pc = "delete" =>
    \A v \in Turns : On(v, job[j].th) =>
      /\ v \in job[j].read \union Summed \union raced
      /\ v \in job[j].read \union Summed \/ Shared(v, job[j].th)

\* A turn alone on its thread is in it, or was summarised or dropped with it.
AloneIsThere ==
  \A t \in Turns, th \in Chat!Threads : On(t, th) =>
    t \in saved[th].said \union Summed \/ Shared(t, th)

\* A thread that is saved, or is to be retired, is one that turns were on.
Spoken ==
  \A th \in Chat!Threads :
    \/ saved[th] # Chat!Empty
    \/ \E j \in Jobs : th \in job[j].todo \/ (job[j].pc = "delete" /\ job[j].th = th)
    => \E t \in Turns : On(t, th)

ChatInv ==
  /\ ChatType
  /\ Chat!NothingLost
  /\ RunKnows
  /\ JobKnows
  /\ AloneIsThere
  /\ Spoken
  /\ Chat!QuestionPending

LEMMA ChatConstants == Keep \in Nat /\ MaxTime \in Nat /\ Nobody \notin Turns
  BY ThreadAssumption DEF ThreadAssumption, Chat!ThreadAssumption

LEMMA ChatInit == Init => ChatInv
<1> SUFFICES ASSUME Chat!Init PROVE ChatInv
  BY DEF Init
<1> USE DEF Chat!Init
<1>1. ChatType
  <2>1. Chat!Empty \in SavedRecord
    BY DEF Chat!Empty, SavedRecord
  <2>2. Project \in Chat!Threads
    BY DEF Chat!Threads
  <2>3. Chat!NewTurn \in TurnRecord
    BY <2>2 DEF Chat!NewTurn, TurnRecord, TurnPcs
  <2>4. Chat!NoJob \in JobRecord
    BY <2>2 DEF Chat!NoJob, JobRecord
  <2> QED
    BY <2>1, <2>3, <2>4 DEF ChatType, Jobs
<1>2. \A t \in Turns : turn[t].pc = "new"
  BY DEF Chat!NewTurn
<1>3. \A j \in Jobs : job[j].pc = "idle" /\ job[j].todo = {}
  BY DEF Chat!NoJob, Jobs
<1>4. \A th \in Chat!Threads : saved[th] = Chat!Empty
  OBVIOUS
<1> HIDE DEF Chat!Init
<1> QED
  BY <1>1, <1>2, <1>3, <1>4 DEF ChatInv, Chat!NothingLost, RunKnows, JobKnows, AloneIsThere, Spoken,
     Chat!QuestionPending, On

\* A step of a turn that neither speaks nor saves.
LEMMA ChatSilent ==
  ASSUME ChatInv, ChatType', UNCHANGED <<saved, job, knowledge, dropped>>, raced \subseteq raced',
         \A t \in Turns : /\ turn'[t].th = turn[t].th
                          /\ turn'[t].pc = "new" <=> turn[t].pc = "new"
                          /\ turn'[t].pc = "run" =>
                               turn[t].pc = "run" /\ turn'[t].said = turn[t].said
                          /\ turn'[t].pc = "parked" =>
                               \/ turn[t].pc = "parked" /\ turn'[t].ask = turn[t].ask
                               \/ turn'[t].ask = saved[turn[t].th].ask
  PROVE  ChatInv'
<1>1. \A t \in Turns, th \in Chat!Threads : On(t, th)' <=> On(t, th)
  BY DEF On
<1>2. \A t \in Turns, th \in Chat!Threads : Shared(t, th)' <=> Shared(t, th)
  BY <1>1 DEF Shared
<1>3. \A t \in Turns : turn[t].th \in Chat!Threads
  BY DEF ChatInv, ChatType, TurnRecord
<1>4. \A j \in Jobs : job[j].th \in Chat!Threads
  BY DEF ChatInv, ChatType, JobRecord
<1>5. Chat!NothingLost'
  BY DEF ChatInv, Chat!NothingLost
<1>6. RunKnows'
  BY <1>1, <1>3 DEF ChatInv, RunKnows, Summed
<1>7. JobKnows'
  BY <1>1, <1>2, <1>4 DEF ChatInv, JobKnows, Summed
<1>8. AloneIsThere'
  BY <1>1, <1>2 DEF ChatInv, AloneIsThere, Summed
<1>9. Spoken'
  BY <1>1 DEF ChatInv, Spoken
<1>10. Chat!QuestionPending'
  BY DEF ChatInv, Chat!QuestionPending
<1> QED
  BY <1>5, <1>6, <1>7, <1>8, <1>9, <1>10 DEF ChatInv

\* A step of a retirement that deletes nothing yet.
LEMMA ChatRetires ==
  ASSUME ChatInv, ChatType', UNCHANGED <<saved, turn, knowledge, dropped>>, raced \subseteq raced',
         \A j \in Jobs, th \in Chat!Threads :
           th \in job'[j].todo =>
             th \in job[j].todo \/ saved[th] # Chat!Empty,
         \A j \in Jobs : job'[j].pc = "delete" =>
           \/ job[j].pc = "delete" /\ job'[j].th = job[j].th /\ job'[j].read = job[j].read
           \/ job'[j].th \in job[j].todo /\ job'[j].read = saved[job'[j].th].said
  PROVE  ChatInv'
<1>1. \A t \in Turns, th \in Chat!Threads : On(t, th)' <=> On(t, th)
  BY DEF On
<1>2. \A t \in Turns, th \in Chat!Threads : Shared(t, th)' <=> Shared(t, th)
  BY <1>1 DEF Shared
<1>3. \A t \in Turns : turn[t].th \in Chat!Threads
  BY DEF ChatInv, ChatType, TurnRecord
<1>4. \A j \in Jobs : job'[j].th \in Chat!Threads
  BY DEF ChatType, JobRecord
<1>5. Chat!NothingLost'
  BY DEF ChatInv, Chat!NothingLost
<1>6. RunKnows'
  BY <1>1, <1>3 DEF ChatInv, RunKnows, Summed
<1>7. JobKnows'
  <2> SUFFICES ASSUME NEW j \in Jobs, job'[j].pc = "delete", NEW v \in Turns, On(v, job'[j].th)
               PROVE  /\ v \in job'[j].read \union Summed \union raced
                      /\ v \in job'[j].read \union Summed \/ Shared(v, job'[j].th)
    BY <1>1, <1>2, <1>4 DEF JobKnows, Summed
  <2>1. CASE job[j].pc = "delete" /\ job'[j].th = job[j].th /\ job'[j].read = job[j].read
    BY <2>1 DEF ChatInv, JobKnows
  <2>2. CASE job'[j].th \in job[j].todo /\ job'[j].read = saved[job'[j].th].said
    <3>1. turn[v].pc # "new" /\ turn[v].th = job'[j].th
      BY DEF On
    <3>2. v \in job'[j].read \union Summed \union raced
      BY <2>2, <3>1 DEF ChatInv, Chat!NothingLost, Summed
    <3>3. v \in job'[j].read \union Summed \/ Shared(v, job'[j].th)
      BY <1>4, <2>2 DEF ChatInv, AloneIsThere
    <3> QED
      BY <3>2, <3>3
  <2> QED
    BY <2>1, <2>2
<1>8. AloneIsThere'
  BY <1>1, <1>2 DEF ChatInv, AloneIsThere, Summed
<1>9. Spoken'
  <2> SUFFICES ASSUME NEW th \in Chat!Threads,
                      \/ saved[th] # Chat!Empty
                      \/ \E j \in Jobs : th \in job'[j].todo \/ (job'[j].pc = "delete" /\ job'[j].th = th)
               PROVE  \E t \in Turns : On(t, th)
    BY <1>1 DEF Spoken
  <2> QED
    BY DEF ChatInv, Spoken
<1>10. Chat!QuestionPending'
  BY DEF ChatInv, Chat!QuestionPending
<1> QED
  BY <1>5, <1>6, <1>7, <1>8, <1>9, <1>10 DEF ChatInv

LEMMA ChatSaves ==
  ASSUME ChatType, NEW th \in Chat!Threads, NEW said \in SUBSET Turns,
         NEW ask \in Turns \union {Nobody}, Chat!Save(th, said, ask)
  PROVE  /\ saved' \in [Chat!Threads -> SavedRecord]
         /\ saved'[th].said = said /\ saved'[th].ask = ask
         /\ \A u \in Chat!Threads \ {th} : saved'[u] = saved[u]
<1>1. PICK n \in Nat : saved' = [saved EXCEPT ![th] = [n |-> n, at |-> now, said |-> said, ask |-> ask]]
  <2> DEFINE n == IF saved[th].n <= Keep THEN saved[th].n + 1 ELSE saved[th].n
  <2>1. saved[th].n \in Nat
    BY DEF ChatType, SavedRecord
  <2>2. n \in Nat
    BY <2>1, ChatConstants
  <2>3. saved' = [saved EXCEPT ![th] = [n |-> n, at |-> now, said |-> said, ask |-> ask]]
    BY DEF Chat!Save
  <2> QED
    BY <2>2, <2>3
<1>2. [n |-> n, at |-> now, said |-> said, ask |-> ask] \in SavedRecord
  BY DEF ChatType, SavedRecord
<1> QED
  BY <1>1, <1>2 DEF ChatType

\* A new message: its turn is the only one it adds to its thread.
LEMMA ChatSpeaks ==
  ASSUME ChatInv, NEW t \in Turns, NEW th \in Chat!Threads, NEW kind \in {"a2a", "gradio"},
         NEW runs \in Nat, turn[t].pc = "new" \/ (turn[t].pc = "judge" /\ turn[t].th = th),
         Chat!Message(t, th, kind, runs)
  PROVE  ChatInv'
<1> DEFINE said == saved[th].said \union {t}
           new == [Chat!NewTurn EXCEPT !.pc = "run", !.th = th, !.via = kind, !.said = said,
                                       !.runs = runs]
<1>1. ChatType
  BY DEF ChatInv
<1>2. said \in SUBSET Turns
  BY <1>1 DEF ChatType, SavedRecord
<1>3. /\ saved' \in [Chat!Threads -> SavedRecord]
      /\ saved'[th].said = said
      /\ \A u \in Chat!Threads \ {th} : saved'[u] = saved[u]
  BY <1>1, <1>2, ChatSaves DEF Chat!Message
<1>4. new \in TurnRecord /\ new.pc = "run" /\ new.th = th /\ new.said = said
  BY <1>2 DEF TurnRecord, TurnPcs, Chat!NewTurn
<1>5. turn' = [turn EXCEPT ![t] = new]
  BY DEF Chat!Message
<1>6. UNCHANGED <<now, job, knowledge, dropped>> /\ Chat!Race(t, th)
  BY DEF Chat!Message
<1> HIDE DEF new
<1>7. /\ turn'[t] = new
      /\ \A u \in Turns \ {t} : turn'[u] = turn[u]
      /\ turn' \in [Turns -> TurnRecord]
  BY <1>1, <1>4, <1>5 DEF ChatType
<1>8. raced \subseteq raced' /\ raced' \in SUBSET Turns
  BY <1>1, <1>6 DEF Chat!Race, Chat!Beside, ChatType
<1>9. ChatType'
  BY <1>1, <1>3, <1>6, <1>7, <1>8 DEF ChatType
<1>10. /\ \A u \in Turns \ {t}, s \in Chat!Threads : On(u, s)' <=> On(u, s)
       /\ \A s \in Chat!Threads : On(t, s) => s = th
       /\ On(t, th)'
       /\ \A s \in Chat!Threads : On(t, s)' => s = th
  BY <1>4, <1>7 DEF On
<1>11. \A u \in Turns, s \in Chat!Threads : Shared(u, s) => Shared(u, s)'
  BY <1>10 DEF Shared
\* Whoever runs on this thread, or retires it, races with the new turn.
<1>12. ASSUME NEW u \in Turns \ {t}, turn[u].pc = "run", turn[u].th = th
       PROVE  t \in raced'
  BY <1>6, <1>12 DEF Chat!Race, Chat!Beside, Chat!Running
<1>13. ASSUME NEW j \in Jobs, job[j].pc = "delete", job[j].th = th
       PROVE  t \in raced'
  BY <1>1, <1>6, <1>13 DEF Chat!Race, Chat!Retiring, ChatType
<1>14. \A u \in Turns : turn[u].th \in Chat!Threads
  BY <1>1 DEF ChatType, TurnRecord
<1>15. \A u \in Turns : On(u, th) => u \in said \union Summed \union raced
  BY DEF ChatInv, Chat!NothingLost, On, Summed
<1>16. Chat!NothingLost'
  <2> SUFFICES ASSUME NEW u \in Turns, turn'[u].pc # "new"
               PROVE  u \in saved'[turn'[u].th].said \union knowledge \union dropped \union raced'
    BY <1>6 DEF Chat!NothingLost
  <2>1. CASE u = t
    BY <1>3, <1>4, <1>7, <2>1
  <2>2. CASE u # t /\ turn[u].th = th
    BY <1>3, <1>7, <1>8, <1>15, <2>2 DEF On, Summed
  <2>3. CASE u # t /\ turn[u].th # th
    BY <1>3, <1>7, <1>8, <1>14, <2>3 DEF ChatInv, Chat!NothingLost
  <2> QED
    BY <2>1, <2>2, <2>3
<1>17. RunKnows'
  <2> SUFFICES ASSUME NEW u \in Turns, turn'[u].pc = "run"
               PROVE  /\ u \in turn'[u].said
                      /\ \A v \in Turns : turn'[v].pc # "new" /\ turn'[v].th = turn'[u].th =>
                           v \in turn'[u].said \union Summed \union raced'
    BY <1>6 DEF RunKnows, Summed, On
  <2>1. CASE u = t
    BY <1>4, <1>7, <1>8, <1>15, <2>1 DEF On
  <2>2. CASE u # t
    BY <1>4, <1>7, <1>8, <1>12, <2>2 DEF ChatInv, RunKnows, On
  <2> QED
    BY <2>1, <2>2
<1>18. JobKnows'
  <2> SUFFICES ASSUME NEW j \in Jobs, job[j].pc = "delete", NEW s \in Chat!Threads,
                      s = job[j].th, NEW v \in Turns, On(v, s)'
               PROVE  /\ v \in job[j].read \union Summed \union raced'
                      /\ v \in job[j].read \union Summed \/ Shared(v, s)'
    <3>1. \A j \in Jobs : job[j].th \in Chat!Threads
      BY <1>1 DEF ChatType, JobRecord
    <3> QED
      BY <1>6, <3>1 DEF JobKnows, Summed
  <2>2. CASE v # t \/ On(v, s)
    <3>1. On(v, s)
      BY <1>10, <2>2
    <3> QED
      BY <1>8, <1>11, <3>1 DEF ChatInv, JobKnows
  <2>3. CASE v = t /\ ~On(v, s)
    <3>1. s = th
      BY <1>10, <2>3
    <3>2. PICK w \in Turns : On(w, th)
      BY <3>1 DEF ChatInv, Spoken
    <3>3. w # t
      BY <2>3, <3>1, <3>2
    <3>4. Shared(t, th)'
      BY <1>10, <3>2, <3>3 DEF Shared
    <3> QED
      BY <1>13, <2>3, <3>1, <3>4
  <2> QED
    BY <2>2, <2>3
<1>19. AloneIsThere'
  <2> SUFFICES ASSUME NEW u \in Turns, NEW s \in Chat!Threads, On(u, s)'
               PROVE  u \in saved'[s].said \union Summed \/ Shared(u, s)'
    BY <1>6 DEF AloneIsThere, Summed
  <2>1. CASE u = t
    BY <1>3, <1>10, <2>1
  <2>2. CASE u # t
    <3>1. On(u, s)
      BY <1>10, <2>2
    <3>2. u \in saved[s].said \union Summed \/ Shared(u, s)
      BY <3>1 DEF ChatInv, AloneIsThere
    <3>3. saved[s].said \subseteq saved'[s].said
      BY <1>3
    <3> QED
      BY <1>11, <3>2, <3>3
  <2> QED
    BY <2>1, <2>2
<1>20. Spoken'
  <2> SUFFICES ASSUME NEW s \in Chat!Threads,
                      \/ saved'[s] # Chat!Empty
                      \/ \E j \in Jobs : s \in job[j].todo \/ (job[j].pc = "delete" /\ job[j].th = s)
               PROVE  \E u \in Turns : On(u, s)'
    BY <1>6 DEF Spoken
  <2>1. CASE s = th
    BY <1>10, <2>1
  <2>2. CASE s # th
    <3>1. PICK u \in Turns : On(u, s)
      BY <1>3, <2>2 DEF ChatInv, Spoken
    <3> QED
      BY <1>10, <2>2, <3>1
  <2> QED
    BY <2>1, <2>2
<1>21. Chat!QuestionPending'
  <2> SUFFICES ASSUME NEW u \in Turns, turn'[u].pc = "parked"
               PROVE  \/ saved'[turn'[u].th].ask = turn'[u].ask
                      \/ \E v \in Turns \ {u} : turn'[v].pc # "new" /\ turn'[v].th = turn'[u].th
                      \/ u \in knowledge \union dropped
    BY <1>6 DEF Chat!QuestionPending
  <2>1. u # t /\ turn'[u] = turn[u] /\ turn[u].pc = "parked"
    BY <1>4, <1>7
  <2>2. CASE turn[u].th = th
    BY <1>4, <1>7, <2>1, <2>2
  <2>3. CASE turn[u].th # th
    <3>1. \/ saved[turn[u].th].ask = turn[u].ask
          \/ \E v \in Turns \ {u} : turn[v].pc # "new" /\ turn[v].th = turn[u].th
          \/ u \in knowledge \union dropped
      BY <2>1 DEF ChatInv, Chat!QuestionPending
    <3>2. CASE saved[turn[u].th].ask = turn[u].ask
      BY <1>3, <1>14, <2>1, <2>3, <3>2
    <3>3. CASE \E v \in Turns \ {u} : turn[v].pc # "new" /\ turn[v].th = turn[u].th
      <4>1. PICK v \in Turns \ {u} : turn[v].pc # "new" /\ turn[v].th = turn[u].th
        BY <3>3
      <4>2. v # t
        BY <2>3, <4>1
      <4> QED
        BY <1>7, <2>1, <4>1, <4>2
    <3> QED
      BY <3>1, <3>2, <3>3
  <2> QED
    BY <2>2, <2>3
<1> QED
  BY <1>9, <1>16, <1>17, <1>18, <1>19, <1>20, <1>21 DEF ChatInv

\* A run ends: it saves what it knew, and a question of its own.
LEMMA ChatFinishes ==
  ASSUME ChatInv, NEW t \in Turns, NEW ask \in Turns \union {Nobody}, Chat!Finish(t, ask)
  PROVE  ChatInv'
<1> DEFINE th == turn[t].th
           said == turn[t].said
<1>1. ChatType /\ turn[t] \in TurnRecord
  BY DEF ChatInv, ChatType
<1>2. th \in Chat!Threads /\ said \in SUBSET Turns
  BY <1>1 DEF TurnRecord
<1>3. /\ saved' \in [Chat!Threads -> SavedRecord]
      /\ saved'[th].said = said
      /\ \A u \in Chat!Threads \ {th} : saved'[u] = saved[u]
  BY <1>1, <1>2, ChatSaves DEF Chat!Finish
<1>4. PICK p \in {"snapshot", "judge"} : turn' = [turn EXCEPT ![t].pc = p, ![t].said = {}]
  BY DEF Chat!Finish
<1>5. /\ turn' \in [Turns -> TurnRecord]
      /\ \A u \in Turns : turn'[u].th = turn[u].th
      /\ \A u \in Turns \ {t} : turn'[u] = turn[u]
      /\ turn'[t].pc = p
  <2>1. [turn[t] EXCEPT !.pc = p, !.said = {}] \in TurnRecord
    BY <1>1 DEF TurnRecord, TurnPcs
  <2> QED
    BY <1>1, <1>4, <2>1 DEF ChatType, TurnRecord
<1>6. UNCHANGED <<now, job, knowledge, dropped>> /\ Chat!Race(t, th) /\ turn[t].pc = "run"
  BY DEF Chat!Finish
<1>7. raced \subseteq raced' /\ raced' \in SUBSET Turns
  BY <1>1, <1>6 DEF Chat!Race, Chat!Beside, ChatType
<1>8. ChatType'
  BY <1>1, <1>3, <1>5, <1>6, <1>7 DEF ChatType
<1> HIDE DEF th, said
<1>9. \A u \in Turns, s \in Chat!Threads : On(u, s)' <=> On(u, s)
  BY <1>5, <1>6 DEF On
<1>10. \A u \in Turns, s \in Chat!Threads : Shared(u, s)' <=> Shared(u, s)
  BY <1>9 DEF Shared
<1>11. \A u \in Turns : turn[u].th \in Chat!Threads
  BY <1>1 DEF ChatType, TurnRecord
<1>12. On(t, th) /\ t \in said
  BY <1>6 DEF ChatInv, RunKnows, On, th, said
<1>13. \A u \in Turns : On(u, th) => u \in said \union Summed \union raced
  BY <1>6 DEF ChatInv, RunKnows, th, said
<1>14. Chat!NothingLost'
  <2> SUFFICES ASSUME NEW u \in Turns, turn'[u].pc # "new"
               PROVE  u \in saved'[turn'[u].th].said \union knowledge \union dropped \union raced'
    BY <1>6 DEF Chat!NothingLost
  <2>1. turn[u].pc # "new"
    BY <1>5, <1>6
  <2>2. CASE turn[u].th = th
    BY <1>3, <1>5, <1>7, <1>13, <2>1, <2>2 DEF On, Summed
  <2>3. CASE turn[u].th # th
    BY <1>3, <1>5, <1>7, <1>11, <2>1, <2>3 DEF ChatInv, Chat!NothingLost
  <2> QED
    BY <2>2, <2>3
<1>15. RunKnows'
  <2> SUFFICES ASSUME NEW u \in Turns, turn'[u].pc = "run"
               PROVE  /\ u \in turn'[u].said
                      /\ \A v \in Turns : turn'[v].pc # "new" /\ turn'[v].th = turn'[u].th =>
                           v \in turn'[u].said \union Summed \union raced'
    BY <1>6 DEF RunKnows, Summed, On
  <2>1. u # t /\ turn'[u] = turn[u]
    BY <1>5
  <2> QED
    BY <1>5, <1>6, <1>7, <2>1 DEF ChatInv, RunKnows, On
<1>16. JobKnows'
  <2>1. \A j \in Jobs : job[j].th \in Chat!Threads
    BY <1>1 DEF ChatType, JobRecord
  <2> QED
    BY <1>6, <1>7, <1>9, <1>10, <2>1 DEF ChatInv, JobKnows, Summed
<1>17. AloneIsThere'
  <2> SUFFICES ASSUME NEW u \in Turns, NEW s \in Chat!Threads, On(u, s)
               PROVE  u \in saved'[s].said \union Summed \/ Shared(u, s)
    BY <1>6, <1>9, <1>10 DEF AloneIsThere, Summed
  <2>1. CASE s # th
    BY <1>3, <2>1 DEF ChatInv, AloneIsThere
  <2>2. CASE s = th /\ u # t
    BY <1>12, <2>2 DEF Shared
  <2>3. CASE s = th /\ u = t
    BY <1>3, <1>12, <2>3
  <2> QED
    BY <2>1, <2>2, <2>3
<1>18. Spoken'
  <2> SUFFICES ASSUME NEW s \in Chat!Threads,
                      \/ saved'[s] # Chat!Empty
                      \/ \E j \in Jobs : s \in job[j].todo \/ (job[j].pc = "delete" /\ job[j].th = s)
               PROVE  \E u \in Turns : On(u, s)
    BY <1>6, <1>9 DEF Spoken
  <2>1. CASE s = th
    BY <1>12, <2>1
  <2>2. CASE s # th
    BY <1>3, <2>2 DEF ChatInv, Spoken
  <2> QED
    BY <2>1, <2>2
<1>19. Chat!QuestionPending'
  <2> SUFFICES ASSUME NEW u \in Turns, turn'[u].pc = "parked"
               PROVE  \/ saved'[turn'[u].th].ask = turn'[u].ask
                      \/ \E v \in Turns \ {u} : turn'[v].pc # "new" /\ turn'[v].th = turn'[u].th
                      \/ u \in knowledge \union dropped
    BY <1>6 DEF Chat!QuestionPending
  <2>1. u # t /\ turn'[u] = turn[u] /\ turn[u].pc = "parked"
    BY <1>5
  <2>2. CASE turn[u].th = th
    <3>1. turn'[t].pc # "new" /\ turn'[t].th = th
      BY <1>5 DEF th
    <3> QED
      BY <2>1, <2>2, <3>1
  <2>3. CASE turn[u].th # th
    <3>1. \/ saved[turn[u].th].ask = turn[u].ask
          \/ \E v \in Turns \ {u} : turn[v].pc # "new" /\ turn[v].th = turn[u].th
          \/ u \in knowledge \union dropped
      BY <2>1 DEF ChatInv, Chat!QuestionPending
    <3>2. CASE saved[turn[u].th].ask = turn[u].ask
      BY <1>3, <1>11, <2>1, <2>3, <3>2
    <3>3. CASE \E v \in Turns \ {u} : turn[v].pc # "new" /\ turn[v].th = turn[u].th
      BY <1>5, <1>6, <2>1, <3>3
    <3> QED
      BY <3>1, <3>2, <3>3
  <2> QED
    BY <2>2, <2>3
<1> QED
  BY <1>8, <1>14, <1>15, <1>16, <1>17, <1>18, <1>19 DEF ChatInv

\* An answer resumes the question that is saved, or runs nothing.
LEMMA ChatResumes ==
  ASSUME ChatInv, NEW t \in Turns, Chat!Resume(t)
  PROVE  ChatInv'
<1> DEFINE th == turn[t].th
           cp == saved[th]
           said == IF cp.ask = Nobody THEN {} ELSE cp.said \union {t}
           p == IF cp.ask = Nobody THEN "snapshot" ELSE "run"
<1>1. ChatType /\ turn[t] \in TurnRecord
  BY DEF ChatInv, ChatType
<1>2. th \in Chat!Threads /\ cp \in SavedRecord
  BY <1>1 DEF TurnRecord, ChatType
<1>3. UNCHANGED <<now, saved, job, knowledge, dropped>> /\ Chat!Race(t, th)
      /\ turn[t].pc = "parked"
  BY DEF Chat!Resume
<1>4. raced \subseteq raced' /\ raced' \in SUBSET Turns
  BY <1>1, <1>3 DEF Chat!Race, Chat!Beside, ChatType
<1>5. turn' = [turn EXCEPT ![t] = [turn[t] EXCEPT !.pc = p, !.ask = Nobody, !.said = said,
                                                  !.runs = @ + 1]]
  BY DEF Chat!Resume
<1>6. [turn[t] EXCEPT !.pc = p, !.ask = Nobody, !.said = said, !.runs = @ + 1] \in TurnRecord
  <2>1. p \in TurnPcs /\ said \in SUBSET Turns
    BY <1>2 DEF TurnPcs, SavedRecord
  <2>2. turn[t].runs + 1 \in Nat
    BY <1>1 DEF TurnRecord
  <2>3. \A c \in TurnRecord, q \in TurnPcs, w \in SUBSET Turns, n \in Nat :
          [c EXCEPT !.pc = q, !.ask = Nobody, !.said = w, !.runs = n] \in TurnRecord
    BY DEF TurnRecord
  <2> HIDE DEF p, said
  <2> QED
    BY <1>1, <2>1, <2>2, <2>3
<1>7. p \in {"snapshot", "run"} /\ (p = "run" => said = saved[th].said \union {t})
  OBVIOUS
<1> HIDE DEF p, said, cp
<1>8. /\ turn' \in [Turns -> TurnRecord]
      /\ \A u \in Turns : turn'[u].th = turn[u].th
      /\ \A u \in Turns \ {t} : turn'[u] = turn[u]
      /\ turn'[t].pc = p /\ turn'[t].said = said
  BY <1>1, <1>5, <1>6 DEF ChatType, TurnRecord
<1> HIDE DEF th
<1>9. ChatType'
  BY <1>1, <1>3, <1>4, <1>8 DEF ChatType
<1>10. \A u \in Turns, s \in Chat!Threads : On(u, s)' <=> On(u, s)
  BY <1>3, <1>7, <1>8 DEF On
<1>11. \A u \in Turns, s \in Chat!Threads : Shared(u, s)' <=> Shared(u, s)
  BY <1>10 DEF Shared
<1>12. Chat!NothingLost'
  BY <1>3, <1>4, <1>8 DEF ChatInv, Chat!NothingLost
<1>13. RunKnows'
  <2> SUFFICES ASSUME NEW u \in Turns, turn'[u].pc = "run"
               PROVE  /\ u \in turn'[u].said
                      /\ \A v \in Turns : turn[v].pc # "new" /\ turn[v].th = turn[u].th =>
                           v \in turn'[u].said \union Summed \union raced'
    BY <1>3, <1>7, <1>8 DEF RunKnows, Summed, On
  <2>1. CASE u # t
    BY <1>4, <1>8, <2>1 DEF ChatInv, RunKnows, On
  <2>2. CASE u = t
    <3>1. turn'[u].said = saved[th].said \union {t}
      BY <1>7, <1>8, <2>2
    <3>2. \A v \in Turns : turn[v].pc # "new" =>
            v \in saved[turn[v].th].said \union Summed \union raced
      BY DEF ChatInv, Chat!NothingLost, Summed
    <3> QED
      BY <1>4, <2>2, <3>1, <3>2 DEF th
  <2> QED
    BY <2>1, <2>2
<1>14. JobKnows'
  <2>1. \A j \in Jobs : job[j].th \in Chat!Threads
    BY <1>1 DEF ChatType, JobRecord
  <2> QED
    BY <1>3, <1>4, <1>10, <1>11, <2>1 DEF ChatInv, JobKnows, Summed
<1>15. AloneIsThere'
  BY <1>3, <1>10, <1>11 DEF ChatInv, AloneIsThere, Summed
<1>16. Spoken'
  BY <1>3, <1>10 DEF ChatInv, Spoken
<1>17. Chat!QuestionPending'
  <2> SUFFICES ASSUME NEW u \in Turns, turn'[u].pc = "parked"
               PROVE  \/ saved[turn'[u].th].ask = turn'[u].ask
                      \/ \E v \in Turns \ {u} : turn'[v].pc # "new" /\ turn'[v].th = turn'[u].th
                      \/ u \in knowledge \union dropped
    BY <1>3 DEF Chat!QuestionPending
  <2>1. u # t /\ turn'[u] = turn[u] /\ turn[u].pc = "parked"
    BY <1>7, <1>8
  <2>2. \/ saved[turn[u].th].ask = turn[u].ask
        \/ \E v \in Turns \ {u} : turn[v].pc # "new" /\ turn[v].th = turn[u].th
        \/ u \in knowledge \union dropped
    BY <2>1 DEF ChatInv, Chat!QuestionPending
  <2> QED
    BY <1>7, <1>8, <2>1, <2>2
<1> QED
  BY <1>9, <1>12, <1>13, <1>14, <1>15, <1>16, <1>17 DEF ChatInv

\* Threads G are deleted; what they had in them is dropped, or was summarised in a step of
\* the retirement of the one thread there is in G.
LEMMA ChatDeletes ==
  ASSUME ChatInv, ChatType', UNCHANGED <<turn, raced>>, NEW G \in SUBSET Chat!Threads,
         \A th \in G : saved'[th] = Chat!Empty,
         \A th \in Chat!Threads \ G :
           /\ saved'[th].said = saved[th].said /\ saved'[th].ask = saved[th].ask
           /\ saved[th] = Chat!Empty => saved'[th] = Chat!Empty,
         knowledge \subseteq knowledge', dropped \subseteq dropped',
         \A th \in G :
           \/ saved[th].said \subseteq dropped'
           \/ \E j \in Jobs : job[j].pc = "delete" /\ job[j].th = th /\ job[j].read \subseteq knowledge',
         \A j \in Jobs : /\ job'[j].todo = job[j].todo
                         /\ job'[j].pc = "delete" =>
                              job[j].pc = "delete" /\ job'[j].th = job[j].th /\ job'[j].read = job[j].read
  PROVE  ChatInv'
<1>1. \A t \in Turns, th \in Chat!Threads : On(t, th)' <=> On(t, th)
  BY DEF On
<1>2. \A t \in Turns, th \in Chat!Threads : Shared(t, th)' <=> Shared(t, th)
  BY <1>1 DEF Shared
<1>3. \A t \in Turns : turn[t].th \in Chat!Threads
  BY DEF ChatInv, ChatType, TurnRecord
<1>4. \A j \in Jobs : job[j].th \in Chat!Threads
  BY DEF ChatInv, ChatType, JobRecord
<1>5. Summed \subseteq Summed'
  BY DEF Summed
<1>6. ASSUME NEW th \in G, NEW t \in Turns, On(t, th)
      PROVE  /\ t \in Summed' \union raced
             /\ t \in Summed' \/ Shared(t, th)
  <2>1. t \in saved[th].said \union Summed \union raced
    BY <1>6 DEF ChatInv, Chat!NothingLost, On, Summed
  <2>2. t \in saved[th].said \union Summed \/ Shared(t, th)
    BY <1>6 DEF ChatInv, AloneIsThere
  <2>3. CASE saved[th].said \subseteq dropped'
    BY <1>5, <2>1, <2>2, <2>3 DEF Summed
  <2>4. CASE \E j \in Jobs : job[j].pc = "delete" /\ job[j].th = th /\ job[j].read \subseteq knowledge'
    <3>1. PICK j \in Jobs : job[j].pc = "delete" /\ job[j].th = th /\ job[j].read \subseteq knowledge'
      BY <2>4
    <3>2. /\ t \in job[j].read \union Summed \union raced
          /\ t \in job[j].read \union Summed \/ Shared(t, th)
      BY <1>6, <3>1 DEF ChatInv, JobKnows
    <3> QED
      BY <1>5, <3>1, <3>2 DEF Summed
  <2> QED
    BY <2>3, <2>4
<1>7. Chat!NothingLost'
  <2> SUFFICES ASSUME NEW t \in Turns, turn[t].pc # "new"
               PROVE  t \in saved'[turn[t].th].said \union Summed' \union raced
    BY DEF Chat!NothingLost, Summed
  <2>1. CASE turn[t].th \in G
    BY <1>6, <2>1 DEF On
  <2>2. CASE turn[t].th \notin G
    BY <1>3, <1>5, <2>2 DEF ChatInv, Chat!NothingLost, Summed
  <2> QED
    BY <2>1, <2>2
<1>8. RunKnows'
  BY <1>1, <1>3, <1>5 DEF ChatInv, RunKnows
<1>9. JobKnows'
  <2> SUFFICES ASSUME NEW j \in Jobs, job'[j].pc = "delete", NEW v \in Turns, On(v, job[j].th)
               PROVE  /\ v \in job[j].read \union Summed' \union raced
                      /\ v \in job[j].read \union Summed' \/ Shared(v, job[j].th)
    BY <1>1, <1>2, <1>4 DEF JobKnows
  <2> QED
    BY <1>5 DEF ChatInv, JobKnows
<1>10. AloneIsThere'
  <2> SUFFICES ASSUME NEW t \in Turns, NEW th \in Chat!Threads, On(t, th)
               PROVE  t \in saved'[th].said \union Summed' \/ Shared(t, th)
    BY <1>1, <1>2 DEF AloneIsThere
  <2>1. CASE th \in G
    BY <1>6, <2>1
  <2>2. CASE th \notin G
    BY <1>5, <2>2 DEF ChatInv, AloneIsThere
  <2> QED
    BY <2>1, <2>2
<1>11. Spoken'
  <2> SUFFICES ASSUME NEW th \in Chat!Threads,
                      \/ saved'[th] # Chat!Empty
                      \/ \E j \in Jobs : th \in job'[j].todo \/ (job'[j].pc = "delete" /\ job'[j].th = th)
               PROVE  \E t \in Turns : On(t, th)
    BY <1>1 DEF Spoken
  <2> QED
    BY DEF ChatInv, Spoken
<1>12. Chat!QuestionPending'
  <2> SUFFICES ASSUME NEW t \in Turns, turn[t].pc = "parked"
               PROVE  \/ saved'[turn[t].th].ask = turn[t].ask
                      \/ \E u \in Turns \ {t} : turn[u].pc # "new" /\ turn[u].th = turn[t].th
                      \/ t \in Summed'
    BY DEF Chat!QuestionPending, Summed
  <2>1. CASE turn[t].th \in G
    BY <1>6, <2>1 DEF Shared, On
  <2>2. CASE turn[t].th \notin G
    BY <1>3, <1>5, <2>2 DEF ChatInv, Chat!QuestionPending, Summed
  <2> QED
    BY <2>1, <2>2
<1> QED
  BY <1>7, <1>8, <1>9, <1>10, <1>11, <1>12 DEF ChatInv

LEMMA ChatDelete ==
  ASSUME ChatInv, NEW j \in Jobs, NEW ok \in BOOLEAN, Chat!Delete(j, ok)
  PROVE  ChatInv'
<1> DEFINE th == job[j].th
<1>1. ChatType /\ job[j] \in JobRecord /\ job[j].pc = "delete"
  BY DEF ChatInv, ChatType, Chat!Delete
<1>2. th \in Chat!Threads /\ job[j].read \in SUBSET Turns
  BY <1>1 DEF JobRecord
<1>3. /\ saved' = [saved EXCEPT ![th] = Chat!Empty]
      /\ knowledge' = IF ok THEN knowledge \union job[j].read ELSE knowledge
      /\ dropped' = IF ok THEN dropped ELSE dropped \union saved[th].said
      /\ job' = [job EXCEPT ![j] = [Chat!NoJob EXCEPT !.pc = "next", !.todo = job[j].todo]]
      /\ UNCHANGED <<now, turn, raced>>
  BY DEF Chat!Delete
<1>4. Chat!Empty \in SavedRecord
  BY DEF Chat!Empty, SavedRecord
<1>5. [Chat!NoJob EXCEPT !.pc = "next", !.todo = job[j].todo] \in JobRecord
  BY <1>1 DEF Chat!NoJob, JobRecord, Chat!Threads
<1>6. /\ job' \in [Jobs -> JobRecord] /\ job'[j].pc = "next" /\ job'[j].todo = job[j].todo
      /\ \A k \in Jobs \ {j} : job'[k] = job[k]
  BY <1>1, <1>3, <1>5 DEF ChatType, Chat!NoJob
<1>7. saved' \in [Chat!Threads -> SavedRecord] /\ saved'[th] = Chat!Empty
      /\ \A s \in Chat!Threads \ {th} : saved'[s] = saved[s]
  BY <1>1, <1>2, <1>3, <1>4 DEF ChatType
<1>8. saved[th].said \in SUBSET Turns
  BY <1>1, <1>2 DEF ChatType, SavedRecord
<1>9. ChatType'
  BY <1>1, <1>2, <1>3, <1>6, <1>7, <1>8 DEF ChatType
<1>10. {th} \in SUBSET Chat!Threads
  BY <1>2
<1>11. saved[th].said \subseteq dropped' \/ job[j].read \subseteq knowledge'
  BY <1>3
<1> HIDE DEF th
<1>12. \A s \in {th} : \/ saved[s].said \subseteq dropped'
                       \/ \E k \in Jobs : job[k].pc = "delete" /\ job[k].th = s /\ job[k].read \subseteq knowledge'
  BY <1>1, <1>11 DEF th
<1>13. UNCHANGED <<turn, raced>> /\ knowledge \subseteq knowledge' /\ dropped \subseteq dropped'
  BY <1>3
<1>14. \A s \in {th} : saved'[s] = Chat!Empty
  BY <1>7
<1>15. \A s \in Chat!Threads \ {th} :
         /\ saved'[s].said = saved[s].said /\ saved'[s].ask = saved[s].ask
         /\ saved[s] = Chat!Empty => saved'[s] = Chat!Empty
  BY <1>7
<1>16. \A k \in Jobs : /\ job'[k].todo = job[k].todo
                       /\ job'[k].pc = "delete" =>
                            job[k].pc = "delete" /\ job'[k].th = job[k].th /\ job'[k].read = job[k].read
  BY <1>6
<1> QED
  BY <1>9, <1>10, <1>12, <1>13, <1>14, <1>15, <1>16, ChatDeletes

LEMMA ChatPrune ==
  ASSUME ChatInv, Chat!Prune
  PROVE  ChatInv'
<1> DEFINE G == IF Harvest THEN {} ELSE {th \in Chat!Threads : Chat!Aged(th)}
<1>1. ChatType /\ G \in SUBSET Chat!Threads
  BY DEF ChatInv
<1>2. /\ saved' = [th \in Chat!Threads |-> IF th \in G THEN Chat!Empty ELSE Chat!Capped(saved[th])]
      /\ dropped' = dropped \union UNION {saved[th].said : th \in G}
      /\ UNCHANGED <<now, turn, job, knowledge, raced>>
  BY DEF Chat!Prune
<1> HIDE DEF G
<1>3. ASSUME NEW cp \in SavedRecord
      PROVE  /\ Chat!Capped(cp) \in SavedRecord
             /\ Chat!Capped(cp).said = cp.said /\ Chat!Capped(cp).ask = cp.ask
             /\ cp = Chat!Empty => Chat!Capped(cp) = Chat!Empty
  <2> DEFINE k == IF Keep = 0 THEN 1 ELSE Keep
             n == IF cp.n < k THEN cp.n ELSE k
  <2>1. k \in Nat /\ k > 0 /\ cp.n \in Nat
    BY ChatConstants DEF SavedRecord
  <2>2. n \in Nat /\ (cp.n = 0 => n = 0)
    BY <2>1
  <2>3. Chat!Capped(cp) = [cp EXCEPT !.n = n]
    BY DEF Chat!Capped
  <2> HIDE DEF n, k
  <2> QED
    BY <2>2, <2>3 DEF SavedRecord, Chat!Empty
<1>4. \A th \in Chat!Threads : saved[th] \in SavedRecord
  BY <1>1 DEF ChatType
<1>5. Chat!Empty \in SavedRecord
  BY DEF Chat!Empty, SavedRecord
<1>6. saved' \in [Chat!Threads -> SavedRecord]
  BY <1>2, <1>3, <1>4, <1>5
<1>7. \A th \in G : saved[th].said \subseteq dropped'
  BY <1>2
<1>8. UNION {saved[th].said : th \in G} \in SUBSET Turns
  BY <1>1, <1>4 DEF SavedRecord
<1>9. dropped' \in SUBSET Turns
  BY <1>1, <1>2, <1>8 DEF ChatType
<1>10. ChatType'
  BY <1>1, <1>2, <1>6, <1>9 DEF ChatType
<1>11. \A th \in G : saved'[th] = Chat!Empty
  BY <1>1, <1>2
<1>12. \A th \in Chat!Threads \ G :
         /\ saved'[th].said = saved[th].said /\ saved'[th].ask = saved[th].ask
         /\ saved[th] = Chat!Empty => saved'[th] = Chat!Empty
  BY <1>2, <1>3, <1>4
<1> QED
  BY <1>1, <1>2, <1>7, <1>10, <1>11, <1>12, ChatDeletes

\* A turn starts on a thread of its own session, or on the resolver's.
LEMMA ChatBegin ==
  ASSUME ChatInv, NEW t \in Turns, Chat!Begin(t)
  PROVE  ChatInv'
<1>1. PICK kind \in {"a2a", "gradio"}, s \in Sessions :
        \E x \in Chat!ThreadOf(kind, s) : Chat!Message(t, x, kind, 1)
  BY DEF Chat!Begin
<1>2. PICK th \in Chat!ThreadOf(kind, s) : Chat!Message(t, th, kind, 1)
  BY <1>1
<1>3. th \in Chat!Threads
  BY DEF Chat!ThreadOf, Chat!Threads
<1>4. turn[t].pc = "new"
  BY DEF Chat!Begin
<1> QED
  BY <1>2, <1>3, <1>4, ChatSpeaks

LEMMA ChatAgain ==
  ASSUME ChatInv, NEW t \in Turns, Chat!Again(t)
  PROVE  ChatInv'
<1>1. turn[t] \in TurnRecord
  BY DEF ChatInv, ChatType
<1>2. /\ turn[t].th \in Chat!Threads /\ turn[t].via \in {"a2a", "gradio"}
      /\ turn[t].runs + 1 \in Nat
  BY <1>1 DEF TurnRecord
<1>3. turn[t].pc = "judge" /\ Chat!Message(t, turn[t].th, turn[t].via, turn[t].runs + 1)
  BY DEF Chat!Again
<1> QED
  BY <1>2, <1>3, ChatSpeaks

\* A turn that ends without a word: shortcut, abort, answer.
LEMMA ChatEnds ==
  ASSUME ChatInv, NEW t \in Turns, turn[t].pc # "new", turn' = Chat!Done(t),
         UNCHANGED <<now, saved, job, knowledge, dropped, raced>>
  PROVE  ChatInv'
<1> DEFINE new == [Chat!NewTurn EXCEPT !.pc = "done", !.th = turn[t].th]
<1>1. ChatType /\ turn[t].th \in Chat!Threads
  BY DEF ChatInv, ChatType, TurnRecord
<1>2. new \in TurnRecord /\ new.pc = "done" /\ new.th = turn[t].th
  BY <1>1 DEF Chat!NewTurn, TurnRecord, TurnPcs
<1>3. turn' = [turn EXCEPT ![t] = new]
  BY DEF Chat!Done
<1> HIDE DEF new
<1>4. turn' \in [Turns -> TurnRecord] /\ turn'[t] = new /\ \A u \in Turns \ {t} : turn'[u] = turn[u]
  BY <1>1, <1>2, <1>3 DEF ChatType
<1>5. ChatType'
  BY <1>1, <1>4 DEF ChatType
<1>6. \A u \in Turns : /\ turn'[u].th = turn[u].th
                       /\ turn'[u].pc = "new" <=> turn[u].pc = "new"
                       /\ turn'[u].pc = "run" => turn[u].pc = "run" /\ turn'[u].said = turn[u].said
                       /\ turn'[u].pc = "parked" =>
                            \/ turn[u].pc = "parked" /\ turn'[u].ask = turn[u].ask
                            \/ turn'[u].ask = saved[turn[u].th].ask
  BY <1>2, <1>4
<1> QED
  BY <1>5, <1>6, ChatSilent

LEMMA ChatSnapshot ==
  ASSUME ChatInv, NEW t \in Turns, Chat!Snapshot(t)
  PROVE  ChatInv'
<1>1. ChatType /\ turn[t] \in TurnRecord /\ turn[t].th \in Chat!Threads /\ turn[t].pc = "snapshot"
  BY DEF ChatInv, ChatType, TurnRecord, Chat!Snapshot
<1>2. PICK q \in {saved[turn[t].th].ask, Nobody} :
        turn' = [turn EXCEPT ![t].pc = IF q = Nobody THEN "judge" ELSE "parked", ![t].ask = q]
  BY DEF Chat!Snapshot
<1>3. q \in Turns \union {Nobody}
  BY <1>1 DEF ChatType, SavedRecord
<1>4. PICK p \in {"judge", "parked"} :
        /\ p = "parked" => q = saved[turn[t].th].ask
        /\ turn' = [turn EXCEPT ![t] = [turn[t] EXCEPT !.pc = p, !.ask = q]]
  BY <1>2
<1>5. [turn[t] EXCEPT !.pc = p, !.ask = q] \in TurnRecord
  BY <1>1, <1>3 DEF TurnRecord, TurnPcs
<1>6. /\ turn' \in [Turns -> TurnRecord]
      /\ \A u \in Turns \ {t} : turn'[u] = turn[u]
      /\ turn'[t].pc = p /\ turn'[t].ask = q /\ turn'[t].th = turn[t].th
  BY <1>1, <1>4, <1>5 DEF ChatType, TurnRecord
<1>7. UNCHANGED <<now, saved, job, knowledge, dropped, raced>>
  BY DEF Chat!Snapshot, Chat!history
<1>8. ChatType'
  BY <1>1, <1>6, <1>7 DEF ChatType
<1>9. \A u \in Turns : /\ turn'[u].th = turn[u].th
                       /\ turn'[u].pc = "new" <=> turn[u].pc = "new"
                       /\ turn'[u].pc = "run" => turn[u].pc = "run" /\ turn'[u].said = turn[u].said
                       /\ turn'[u].pc = "parked" =>
                            \/ turn[u].pc = "parked" /\ turn'[u].ask = turn[u].ask
                            \/ turn'[u].ask = saved[turn[u].th].ask
  BY <1>1, <1>4, <1>6
<1> QED
  BY <1>7, <1>8, <1>9, ChatSilent

\* A retirement begins, reads a thread or ends.
LEMMA ChatJobs ==
  ASSUME ChatInv, NEW j \in Jobs, NEW new \in JobRecord, job' = [job EXCEPT ![j] = new],
         UNCHANGED <<now, saved, turn, knowledge, dropped>>,
         raced \subseteq raced', raced' \in SUBSET Turns,
         \A th \in new.todo : th \in job[j].todo \/ saved[th] # Chat!Empty,
         new.pc = "delete" => new.th \in job[j].todo /\ new.read = saved[new.th].said
  PROVE  ChatInv'
<1>1. ChatType
  BY DEF ChatInv
<1>2. /\ job' \in [Jobs -> JobRecord] /\ job'[j] = new
      /\ \A k \in Jobs \ {j} : job'[k] = job[k]
  BY <1>1 DEF ChatType
<1>3. ChatType'
  BY <1>1, <1>2 DEF ChatType
<1>4. \A k \in Jobs, th \in Chat!Threads :
        th \in job'[k].todo => th \in job[k].todo \/ saved[th] # Chat!Empty
  BY <1>2
<1>5. \A k \in Jobs : job'[k].pc = "delete" =>
        \/ job[k].pc = "delete" /\ job'[k].th = job[k].th /\ job'[k].read = job[k].read
        \/ job'[k].th \in job[k].todo /\ job'[k].read = saved[job'[k].th].said
  BY <1>2
<1> QED
  BY <1>3, <1>4, <1>5, ChatRetires

LEMMA ChatSweep ==
  ASSUME ChatInv, Chat!Sweep
  PROVE  ChatInv'
<1> DEFINE old == {th \in Chat!Threads : Chat!Aged(th)}
           new == [Chat!NoJob EXCEPT !.pc = "next", !.todo = old]
<1>1. ChatType
  BY DEF ChatInv
<1>2. new \in JobRecord /\ new.todo = old /\ new.pc = "next"
  <2>1. Project \in Chat!Threads /\ old \in SUBSET Chat!Threads
    BY DEF Chat!Threads
  <2> HIDE DEF old
  <2> QED
    BY <2>1 DEF Chat!NoJob, JobRecord
<1>3. job' = [job EXCEPT !["sweep"] = new] /\ "sweep" \in Jobs
      /\ UNCHANGED <<now, saved, turn, knowledge, dropped, raced>>
  BY DEF Chat!Sweep, Chat!history, Jobs
<1>4. \A th \in old : saved[th] # Chat!Empty
  BY DEF Chat!Aged, Chat!Empty
<1> HIDE DEF new, old
<1> QED
  BY <1>1, <1>2, <1>3, <1>4, ChatJobs DEF ChatType

LEMMA ChatDeleteTab ==
  ASSUME ChatInv, NEW s \in Sessions, Chat!DeleteTab(s)
  PROVE  ChatInv'
<1> DEFINE new == [Chat!NoJob EXCEPT !.pc = "next", !.todo = {<<"a2a", s>>}]
<1>1. ChatType
  BY DEF ChatInv
<1>2. new \in JobRecord /\ new.todo = {<<"a2a", s>>} /\ new.pc = "next"
  <2>1. Project \in Chat!Threads /\ {<<"a2a", s>>} \in SUBSET Chat!Threads
    BY DEF Chat!Threads
  <2>2. Chat!NoJob \in JobRecord
    BY <2>1 DEF Chat!NoJob, JobRecord
  <2> QED
    BY <2>1, <2>2 DEF JobRecord
<1>3. job' = [job EXCEPT !["tab"] = new] /\ "tab" \in Jobs
      /\ UNCHANGED <<now, saved, turn, knowledge, dropped, raced>>
  BY DEF Chat!DeleteTab, Chat!history, Jobs
<1>4. \A th \in new.todo : saved[th] # Chat!Empty
  BY <1>2 DEF Chat!DeleteTab
<1> HIDE DEF new
<1> QED
  BY <1>1, <1>2, <1>3, <1>4, ChatJobs DEF ChatType

LEMMA ChatRead ==
  ASSUME ChatInv, NEW j \in Jobs, NEW th \in Chat!Threads, Chat!Read(j, th)
  PROVE  ChatInv'
<1> DEFINE new == [job[j] EXCEPT !.pc = "delete", !.th = th, !.todo = job[j].todo \ {th},
                                 !.read = saved[th].said]
<1>1. ChatType /\ job[j] \in JobRecord /\ th \in job[j].todo
  BY DEF ChatInv, ChatType, Chat!Read
<1>2. saved[th].said \in SUBSET Turns
  BY <1>1 DEF ChatType, SavedRecord
<1>3. /\ new \in JobRecord /\ new.todo = job[j].todo \ {th}
      /\ new.th = th /\ new.read = saved[th].said
  BY <1>1, <1>2 DEF JobRecord
<1>4. job' = [job EXCEPT ![j] = new]
  BY <1>1 DEF Chat!Read, ChatType
<1>5. UNCHANGED <<now, saved, turn, knowledge, dropped>> /\ raced \subseteq raced'
      /\ raced' \in SUBSET Turns
  BY <1>1 DEF Chat!Read, ChatType
<1> HIDE DEF new
<1>6. \A s \in new.todo : s \in job[j].todo \/ saved[s] # Chat!Empty
  BY <1>3
<1>7. new.th \in job[j].todo /\ new.read = saved[new.th].said
  BY <1>1, <1>3
<1> QED
  BY <1>3, <1>4, <1>5, <1>6, <1>7, ChatJobs

LEMMA ChatJobEnds ==
  ASSUME ChatInv, NEW j \in Jobs, Chat!JobEnds(j)
  PROVE  ChatInv'
<1>1. ChatType
  BY DEF ChatInv
<1>2. Chat!NoJob \in JobRecord /\ Chat!NoJob.todo = {} /\ Chat!NoJob.pc = "idle"
  BY DEF Chat!NoJob, JobRecord, Chat!Threads
<1>3. job' = [job EXCEPT ![j] = Chat!NoJob]
      /\ UNCHANGED <<now, saved, turn, knowledge, dropped, raced>>
  BY DEF Chat!JobEnds, Chat!history
<1> QED
  BY <1>1, <1>2, <1>3, ChatJobs DEF ChatType

LEMMA ChatQuiet ==
  ASSUME ChatInv, ChatType', UNCHANGED <<saved, turn, job, knowledge, dropped, raced>>
  PROVE  ChatInv'
<1>1. \A t \in Turns : /\ turn'[t].th = turn[t].th
                       /\ turn'[t].pc = "new" <=> turn[t].pc = "new"
                       /\ turn'[t].pc = "run" => turn[t].pc = "run" /\ turn'[t].said = turn[t].said
                       /\ turn'[t].pc = "parked" => turn[t].pc = "parked" /\ turn'[t].ask = turn[t].ask
  OBVIOUS
<1> QED
  BY <1>1, ChatSilent

LEMMA ChatStep == ChatInv /\ [Chat!Next]_chatVars => ChatInv'
<1> SUFFICES ASSUME ChatInv, [Chat!Next]_chatVars PROVE ChatInv'
  OBVIOUS
<1>1. ChatType /\ DOMAIN job = Jobs
  BY DEF ChatInv, ChatType
<1>2. CASE Chat!Tick
  <2>1. now' \in Nat /\ UNCHANGED <<saved, turn, job, knowledge, dropped, raced>>
    BY <1>1, <1>2 DEF Chat!Tick, Chat!history, ChatType
  <2>2. ChatType'
    BY <1>1, <2>1 DEF ChatType
  <2> QED
    BY <2>1, <2>2, ChatQuiet
<1>3. ASSUME NEW t \in Turns,
             \/ Chat!Begin(t) \/ Chat!Resume(t) \/ Chat!Shortcut(t)
             \/ Chat!Finish(t, Nobody) \/ Chat!Finish(t, t)
             \/ Chat!Abort(t) \/ Chat!Snapshot(t) \/ Chat!Again(t) \/ Chat!Answer(t)
      PROVE  ChatInv'
  <2>1. CASE Chat!Begin(t)
    BY <2>1, ChatBegin
  <2>2. CASE Chat!Resume(t)
    BY <2>2, ChatResumes
  <2>3. CASE Chat!Shortcut(t) \/ Chat!Abort(t) \/ Chat!Answer(t)
    <3>1. /\ turn[t].pc # "new" /\ turn' = Chat!Done(t)
          /\ UNCHANGED <<now, saved, job, knowledge, dropped, raced>>
      BY <2>3 DEF Chat!Shortcut, Chat!Abort, Chat!Answer, Chat!Running, Chat!history
    <3> QED
      BY <3>1, ChatEnds
  <2>4. CASE Chat!Finish(t, Nobody) \/ Chat!Finish(t, t)
    BY <2>4, ChatFinishes
  <2>5. CASE Chat!Snapshot(t)
    BY <2>5, ChatSnapshot
  <2>6. CASE Chat!Again(t)
    BY <2>6, ChatAgain
  <2> QED
    BY <1>3, <2>1, <2>2, <2>3, <2>4, <2>5, <2>6
<1>4. CASE Chat!Sweep
  BY <1>4, ChatSweep
<1>5. CASE Chat!Prune
  BY <1>5, ChatPrune
<1>6. CASE \E s \in Sessions : Chat!DeleteTab(s)
  BY <1>6, ChatDeleteTab
<1>7. ASSUME NEW j \in Jobs,
             \/ Chat!JobEnds(j)
             \/ \E th \in Chat!Threads : Chat!Read(j, th)
             \/ \E ok \in BOOLEAN : Chat!Delete(j, ok)
      PROVE  ChatInv'
  BY <1>7, ChatJobEnds, ChatRead, ChatDelete
<1>8. CASE UNCHANGED chatVars
  <2>1. UNCHANGED <<now, saved, turn, job, knowledge, dropped, raced>>
    BY <1>8 DEF chatVars
  <2>2. ChatType'
    BY <1>1, <2>1 DEF ChatType
  <2> QED
    BY <2>1, <2>2, ChatQuiet
<1> QED
  BY <1>1, <1>2, <1>3, <1>4, <1>5, <1>6, <1>7, <1>8 DEF Chat!Next

\* For any turns, threads, caps and ages: what a turn said stays in its thread or was
\* summarised with it, unless it ran beside another turn or a retirement of that thread, or
\* the thread was dropped without a summary; and the question a task is parked on waits there
\* until another turn uses the thread or the thread is retired.
THEOREM ThreadsKeepWhatIsSaid == Spec => []ThreadSound
<1>1. ChatInv /\ [Next]_vars => ChatInv'
  BY ChatMoves, ChatStep
<1>2. ChatInv => ThreadSound
  BY DEF ThreadSound, ChatInv, Chat!ThreadSound
<1> QED
  BY <1>1, <1>2, ChatInit, PTL DEF Spec

-----------------------------------------------------------------------------
(* The evaluation. *)

EvalPcs == {"clear", "set", "setup", "send", "wait", "judge", "teardown"}
EvalTurn == [case : Eval!Case, st : {"running", "completed", "failed", "input_required"},
             goal : BOOLEAN]
EvalEntry(n) == [by : 1..n, tool : Tools, ok : BOOLEAN]
EvalGoal(n) == [st : {"none", "active", "achieved", "exhausted"}, by : 0..n]
EvalCur == [pc : EvalPcs, case : Eval!Case, mark : Nat, turn : 0..Len(turns), passed : BOOLEAN,
            own : BOOLEAN, quiet : BOOLEAN]
InSuite(c) == \E i \in DOMAIN suite : suite[i] = c

EvalServer ==
  /\ turns \in Seq(EvalTurn) /\ log \in Seq(EvalEntry(Len(turns))) /\ Len(log) <= MaxLog
  /\ \A t \in DOMAIN turns : InSuite(turns[t].case)
  /\ rows \subseteq [of : Eval!Ids(suite), by : 0..Len(turns)]
  /\ goals \in [Eval!Ids(suite) -> EvalGoal(Len(turns))]
EvalClient ==
  /\ suite \in Suites /\ sweep \in BOOLEAN /\ waited \in BOOLEAN
  /\ todo \in Seq(Eval!Case) /\ \A i \in DOMAIN todo : InSuite(todo[i])
  /\ run \in 1..Repeat /\ agents \in 0..MaxAgents
  /\ results \in Seq([case : Eval!Case, passed : BOOLEAN, skipped : BOOLEAN, own : BOOLEAN,
                      quiet : BOOLEAN])
  /\ Len(results) + Len(todo) + (IF cur = Eval!Idle THEN 0 ELSE 1) <= Len(suite)
Busy == cur # Eval!Idle /\ cur.pc \in {"wait", "judge"}
EvalCase ==
  cur # Eval!Idle =>
    /\ cur \in EvalCur /\ InSuite(cur.case)
    /\ Busy => cur.turn \in DOMAIN turns /\ turns[cur.turn].case = cur.case
    /\ cur.pc # "teardown" => ~cur.passed
    /\ cur.passed => cur.own
    /\ cur.pc = "setup" => cur.case.kind # "goal"

\* While no answer was given up on, what happens is the doing of the case's own turn.
OneRuns ==
  \A t \in DOMAIN turns : turns[t].st = "running" => Busy /\ cur.pc = "wait" /\ t = cur.turn
LogIsOwn == Busy => \A i \in DOMAIN log : i > cur.mark => log[i].by = cur.turn
RowsAreKept ==
  \A r \in rows : \/ \E i \in DOMAIN suite : suite[i].id = r.of /\ ~suite[i].clears
                  \/ cur # Eval!Idle /\ r.of = cur.case.id
RowsAreOwn ==
  cur # Eval!Idle /\ cur.pc # "teardown" /\ cur.case.finds =>
    \A r \in rows : r.of = cur.case.id => Busy /\ r.by = cur.turn
GoalIsOwn ==
  cur # Eval!Idle /\ cur.case.kind = "goal" =>
    /\ cur.pc = "send" => goals[cur.case.id].st = "active"
    /\ Busy => goals[cur.case.id].st = "active" \/ goals[cur.case.id].by = cur.turn
Attributed == waited => OneRuns /\ LogIsOwn /\ RowsAreKept /\ RowsAreOwn /\ GoalIsOwn

Earned == \A i \in DOMAIN results : results[i].passed /\ ~results[i].skipped => results[i].own

EvalInv == EvalServer /\ EvalClient /\ EvalCase /\ Attributed /\ Earned

LEMMA SuiteFacts ==
  ASSUME EvalClient
  PROVE  /\ suite \in Seq(Eval!Case)
         /\ \A c : InSuite(c) => c \in Eval!Case /\ c.id \in Eval!Ids(suite)
         /\ \A i, j \in DOMAIN suite :
              suite[i].finds /\ suite[j].id = suite[i].id => ~suite[i].seeds /\ suite[j].clears
  BY EvalAssumption DEF Eval!EvalAssumption, EvalClient, InSuite, Eval!Ids

LEMMA CurFacts ==
  ASSUME EvalCase, cur.pc \in EvalPcs
  PROVE  cur # Eval!Idle /\ cur \in EvalCur /\ InSuite(cur.case)
<1>1. cur # Eval!Idle
  BY DEF Eval!Idle, EvalPcs
<1> QED
  BY <1>1 DEF EvalCase

LEMMA EvalInvInit ==
  ASSUME Eval!Init
  PROVE  EvalInv
<1> USE EvalAssumption DEF Eval!Init, Eval!EvalAssumption
<1>1. turns = <<>> /\ log = <<>> /\ rows = {} /\ results = <<>> /\ cur = Eval!Idle
      /\ DOMAIN turns = {} /\ DOMAIN log = {} /\ DOMAIN results = {}
      /\ Len(turns) = 0 /\ Len(log) = 0 /\ Len(results) = 0
  OBVIOUS
<1>2. goals \in [Eval!Ids(suite) -> EvalGoal(0)]
  BY DEF EvalGoal, Eval!NoGoal
<1>3. EvalServer
  BY <1>1, <1>2 DEF EvalServer
<1>4. suite \in Seq(Eval!Case) /\ todo = suite
  OBVIOUS
<1>5. EvalClient
  <2>1. \A i \in DOMAIN todo : InSuite(todo[i])
    BY <1>4 DEF InSuite
  <2>2. Len(results) + Len(todo) + (IF cur = Eval!Idle THEN 0 ELSE 1) <= Len(suite)
    BY <1>1, <1>4
  <2>3. run \in 1..Repeat /\ agents \in 0..MaxAgents
    OBVIOUS
  <2> QED
    BY <1>1, <1>4, <2>1, <2>2, <2>3 DEF EvalClient
<1>6. EvalCase /\ Attributed /\ Earned
  BY <1>1 DEF EvalCase, Attributed, Earned, OneRuns, LogIsOwn, RowsAreKept, RowsAreOwn, GoalIsOwn,
              Busy
<1> QED
  BY <1>3, <1>5, <1>6 DEF EvalInv

\* Steps of the agent: the client sees none of them.
LEMMA ToolCallKeeps ==
  ASSUME EvalInv, NEW t \in DOMAIN turns, Eval!ToolCall(t)
  PROVE  EvalInv'
<1> USE EvalAssumption DEF Eval!EvalAssumption
<1>1. EvalServer /\ EvalClient /\ EvalCase /\ Attributed /\ Earned
  BY DEF EvalInv
<1>2. /\ turns[t].st = "running" /\ Len(log) < MaxLog
      /\ UNCHANGED <<turns, goals, suite, sweep, todo, run, agents, cur, results, waited>>
  BY DEF Eval!ToolCall, Eval!client
<1>3. PICK tool \in Tools, ok \in BOOLEAN, stored \in BOOLEAN :
        /\ stored => ok /\ turns[t].case.finds
        /\ log' = Append(log, [by |-> t, tool |-> tool, ok |-> ok])
        /\ rows' = IF stored THEN rows \union {[of |-> turns[t].case.id, by |-> t]} ELSE rows
  BY DEF Eval!ToolCall
<1> DEFINE e == [by |-> t, tool |-> tool, ok |-> ok]
           row == [of |-> turns[t].case.id, by |-> t]
<1>4. turns \in Seq(EvalTurn) /\ Len(turns) \in Nat /\ t \in 1..Len(turns)
  BY <1>1 DEF EvalServer
<1>5. e \in EvalEntry(Len(turns)) /\ e.by = t
  BY <1>4 DEF EvalEntry
<1>6. row.of = turns[t].case.id /\ row.by = t
      /\ row \in [of : Eval!Ids(suite), by : 0..Len(turns)]
  <2>1. turns[t].case.id \in Eval!Ids(suite)
    BY <1>1, SuiteFacts DEF EvalServer
  <2> QED
    BY <1>4, <2>1
<1>7. rows' \subseteq rows \union {row}
  BY <1>3
<1> HIDE DEF e, row
<1>8. /\ log' \in Seq(EvalEntry(Len(turns))) /\ Len(log') = Len(log) + 1
      /\ DOMAIN log' = 1..(Len(log) + 1) /\ log'[Len(log) + 1] = e
      /\ \A i \in 1..Len(log) : log'[i] = log[i]
  BY <1>1, <1>3, <1>5, AppendAt DEF EvalServer, e
<1>9. EvalServer'
  <2>1. Len(log') <= MaxLog
    BY <1>1, <1>2, <1>8 DEF EvalServer
  <2>2. rows' \subseteq [of : Eval!Ids(suite), by : 0..Len(turns)]
    BY <1>1, <1>6, <1>7 DEF EvalServer
  <2> QED
    BY <1>1, <1>2, <1>8, <2>1, <2>2 DEF EvalServer, InSuite, Eval!Ids
<1>10. EvalClient' /\ EvalCase' /\ Earned'
  BY <1>1, <1>2 DEF EvalClient, EvalCase, Earned, InSuite, Busy, EvalCur
<1>11. ASSUME waited
       PROVE  (OneRuns /\ LogIsOwn /\ RowsAreKept /\ RowsAreOwn /\ GoalIsOwn)'
  <2>1. OneRuns /\ LogIsOwn /\ RowsAreKept /\ RowsAreOwn /\ GoalIsOwn
    BY <1>1, <1>11 DEF Attributed
  <2>2. Busy /\ cur.turn = t /\ turns[t].case = cur.case /\ cur # Eval!Idle
    BY <1>1, <1>2, <2>1 DEF OneRuns, EvalCase, Busy
  <2>3. OneRuns' /\ GoalIsOwn'
    BY <1>2, <2>1 DEF OneRuns, GoalIsOwn, Busy
  <2>4. LogIsOwn'
    <3>1. \A i \in DOMAIN log : i \in 1..Len(log)
      BY <1>1 DEF EvalServer
    <3>2. \A i \in DOMAIN log' : i \in DOMAIN log \/ i = Len(log) + 1
      BY <1>1, <1>8 DEF EvalServer
    <3> QED
      BY <1>2, <1>5, <1>8, <2>1, <2>2, <3>1, <3>2 DEF LogIsOwn, Busy
  <2>5. RowsAreKept'
    BY <1>2, <1>6, <1>7, <2>1, <2>2 DEF RowsAreKept
  <2>6. RowsAreOwn'
    BY <1>2, <1>6, <1>7, <2>1, <2>2 DEF RowsAreOwn, Busy
  <2> QED
    BY <2>3, <2>4, <2>5, <2>6
<1>12. Attributed'
  BY <1>2, <1>11 DEF Attributed
<1> QED
  BY <1>9, <1>10, <1>12 DEF EvalInv

\* A turn that loads its goal or ends.
LEMMA TurnMoves ==
  ASSUME EvalInv, NEW t \in DOMAIN turns, turns[t].st = "running",
         turns' \in Seq(EvalTurn), DOMAIN turns' = DOMAIN turns, Len(turns') = Len(turns),
         \A u \in DOMAIN turns : turns'[u].case = turns[u].case,
         \A u \in DOMAIN turns : turns'[u].st = "running" => turns[u].st = "running",
         goals' \in [Eval!Ids(suite) -> EvalGoal(Len(turns))],
         \A c \in Eval!Ids(suite) :
           goals'[c] # goals[c] => c = turns[t].case.id /\ goals'[c].by = t,
         UNCHANGED <<log, rows, suite, sweep, todo, run, agents, cur, results, waited>>
  PROVE  EvalInv'
<1>1. EvalServer /\ EvalClient /\ EvalCase /\ Attributed /\ Earned
  BY DEF EvalInv
<1>2. EvalServer'
  BY <1>1 DEF EvalServer, InSuite, Eval!Ids
<1>3. EvalClient' /\ EvalCase' /\ Earned'
  BY <1>1 DEF EvalClient, EvalCase, Earned, InSuite, Busy, EvalCur
<1>4. ASSUME waited
      PROVE  (OneRuns /\ LogIsOwn /\ RowsAreKept /\ RowsAreOwn /\ GoalIsOwn)'
  <2>1. OneRuns /\ LogIsOwn /\ RowsAreKept /\ RowsAreOwn /\ GoalIsOwn
    BY <1>1, <1>4 DEF Attributed
  <2>2. Busy /\ cur.turn = t /\ turns[t].case = cur.case /\ cur # Eval!Idle
    BY <1>1, <2>1 DEF OneRuns, EvalCase, Busy
  <2>3. OneRuns' /\ LogIsOwn' /\ RowsAreKept' /\ RowsAreOwn'
    BY <2>1 DEF OneRuns, LogIsOwn, RowsAreKept, RowsAreOwn, Busy
  <2>4. cur.case.id \in Eval!Ids(suite)
    BY <1>1, <2>2, SuiteFacts DEF EvalCase
  <2>5. GoalIsOwn'
    BY <2>1, <2>2, <2>4 DEF GoalIsOwn, Busy
  <2> QED
    BY <2>3, <2>5
<1>5. Attributed'
  BY <1>4 DEF Attributed
<1> QED
  BY <1>2, <1>3, <1>5 DEF EvalInv

LEMMA LoadGoalKeeps ==
  ASSUME EvalInv, NEW t \in DOMAIN turns, Eval!LoadGoal(t) \/ Eval!EndTurn(t)
  PROVE  EvalInv'
<1>1. EvalServer /\ EvalClient
  BY DEF EvalInv
<1>2. turns \in Seq(EvalTurn) /\ Len(turns) \in Nat /\ t \in 1..Len(turns) /\ turns[t] \in EvalTurn
  BY <1>1 DEF EvalServer
<1>3. turns[t].case.id \in Eval!Ids(suite)
  BY <1>1, SuiteFacts DEF EvalServer
<1>4. goals \in [Eval!Ids(suite) -> EvalGoal(Len(turns))]
  BY <1>1 DEF EvalServer
<1>5. turns[t].st = "running" /\ UNCHANGED <<log, rows, suite, sweep, todo, run, agents, cur, results, waited>>
  BY DEF Eval!LoadGoal, Eval!EndTurn, Eval!client
<1>6. ASSUME NEW st \in {"completed", "failed", "input_required"}, turns' = [turns EXCEPT ![t].st = st]
      PROVE  /\ turns' \in Seq(EvalTurn) /\ DOMAIN turns' = DOMAIN turns /\ Len(turns') = Len(turns)
             /\ \A u \in DOMAIN turns : turns'[u].case = turns[u].case
             /\ \A u \in DOMAIN turns : turns'[u].st = "running" => turns[u].st = "running"
  <2>1. [turns[t] EXCEPT !.st = st] \in EvalTurn
    BY <1>2 DEF EvalTurn
  <2> QED
    BY <1>2, <1>6, <2>1 DEF EvalTurn
<1>7. CASE Eval!LoadGoal(t)
  <2>1. turns' = [turns EXCEPT ![t].goal = TRUE] /\ goals' = goals
    BY <1>7 DEF Eval!LoadGoal
  <2>2. [turns[t] EXCEPT !.goal = TRUE] \in EvalTurn
    BY <1>2 DEF EvalTurn
  <2>3. /\ turns' \in Seq(EvalTurn) /\ DOMAIN turns' = DOMAIN turns /\ Len(turns') = Len(turns)
        /\ \A u \in DOMAIN turns : turns'[u].case = turns[u].case
        /\ \A u \in DOMAIN turns : turns'[u].st = "running" => turns[u].st = "running"
    BY <1>2, <2>1, <2>2 DEF EvalTurn
  <2> QED
    BY <1>4, <1>5, <2>1, <2>3, TurnMoves
<1>8. CASE Eval!EndTurn(t) /\ turns[t].goal
  <2>1. PICK st \in {"achieved", "exhausted"} :
          goals' = [goals EXCEPT ![turns[t].case.id] = [st |-> st, by |-> t]]
    BY <1>8 DEF Eval!EndTurn
  <2>2. turns' = [turns EXCEPT ![t].st = "completed"]
    BY <1>8 DEF Eval!EndTurn
  <2>3. [st |-> st, by |-> t] \in EvalGoal(Len(turns)) /\ [st |-> st, by |-> t].by = t
    BY <1>2 DEF EvalGoal
  <2>4. goals' \in [Eval!Ids(suite) -> EvalGoal(Len(turns))]
    BY <1>4, <2>1, <2>3
  <2>5. \A c \in Eval!Ids(suite) : goals'[c] # goals[c] => c = turns[t].case.id /\ goals'[c].by = t
    BY <1>3, <1>4, <2>1, <2>3
  <2>6. /\ turns' \in Seq(EvalTurn) /\ DOMAIN turns' = DOMAIN turns /\ Len(turns') = Len(turns)
        /\ \A u \in DOMAIN turns : turns'[u].case = turns[u].case
        /\ \A u \in DOMAIN turns : turns'[u].st = "running" => turns[u].st = "running"
    BY <1>6, <2>2
  <2> QED
    BY <1>5, <2>4, <2>5, <2>6, TurnMoves
<1>9. CASE Eval!EndTurn(t) /\ ~turns[t].goal
  <2>1. PICK st \in {"completed", "failed", "input_required"} : turns' = [turns EXCEPT ![t].st = st]
    BY <1>9 DEF Eval!EndTurn
  <2>2. goals' = goals
    BY <1>9 DEF Eval!EndTurn
  <2>6. /\ turns' \in Seq(EvalTurn) /\ DOMAIN turns' = DOMAIN turns /\ Len(turns') = Len(turns)
        /\ \A u \in DOMAIN turns : turns'[u].case = turns[u].case
        /\ \A u \in DOMAIN turns : turns'[u].st = "running" => turns[u].st = "running"
    BY <1>6, <2>1
  <2> QED
    BY <1>4, <1>5, <2>2, <2>6, TurnMoves
<1> QED
  BY <1>7, <1>8, <1>9

-----------------------------------------------------------------------------
LEMMA QueueFacts ==
  ASSUME EvalInv, todo # <<>>
  PROVE  /\ Head(todo) \in Eval!Case /\ InSuite(Head(todo))
         /\ Tail(todo) \in Seq(Eval!Case) /\ Len(Tail(todo)) = Len(todo) - 1
         /\ \A i \in DOMAIN Tail(todo) : InSuite(Tail(todo)[i])
<1>1. todo \in Seq(Eval!Case) /\ \A i \in DOMAIN todo : InSuite(todo[i])
  BY DEF EvalInv, EvalClient
<1>2. /\ Tail(todo) \in Seq(Eval!Case) /\ Len(Tail(todo)) = Len(todo) - 1 /\ Len(todo) \in Nat \ {0}
      /\ \A i \in 1..(Len(todo) - 1) : Tail(todo)[i] = todo[i + 1]
      /\ Head(todo) = todo[1]
  BY <1>1
<1>3. \A i \in 1..(Len(todo) - 1) : i + 1 \in DOMAIN todo
  BY <1>1, <1>2
<1>4. 1 \in DOMAIN todo /\ DOMAIN Tail(todo) = 1..(Len(todo) - 1)
  BY <1>1, <1>2
<1> QED
  BY <1>1, <1>2, <1>3, <1>4

\* A case that is not run against the agent.
LEMMA SkipKeeps ==
  ASSUME EvalInv, Eval!Skip \/ Eval!Probe
  PROVE  EvalInv'
<1>1. EvalServer /\ EvalClient /\ EvalCase /\ Attributed /\ Earned
  BY DEF EvalInv
<1>2. /\ cur = Eval!Idle /\ todo # <<>> /\ todo' = Tail(todo)
      /\ UNCHANGED <<turns, log, rows, goals, suite, sweep, run, agents, cur, waited>>
  BY DEF Eval!Skip, Eval!Probe, Eval!server
<1>3. PICK passed \in BOOLEAN, skipped \in BOOLEAN :
        results' = Append(results, Eval!Result(passed, skipped, Eval!Cur("idle", Head(todo))))
  BY DEF Eval!Skip, Eval!Probe, Eval!Report
<1> DEFINE r == Eval!Result(passed, skipped, Eval!Cur("idle", Head(todo)))
           Result == [case : Eval!Case, passed : BOOLEAN, skipped : BOOLEAN, own : BOOLEAN,
                      quiet : BOOLEAN]
<1>4. r \in Result /\ r.own
  BY <1>2, QueueFacts DEF Eval!Result, Eval!Cur
<1> HIDE DEF r
<1>5. results \in Seq(Result) /\ results' = Append(results, r)
  BY <1>1, <1>3 DEF EvalClient, r
<1>6. /\ results' \in Seq(Result) /\ Len(results') = Len(results) + 1
      /\ DOMAIN results' = 1..(Len(results) + 1) /\ results'[Len(results) + 1] = r
      /\ \A i \in 1..Len(results) : results'[i] = results[i]
  BY <1>4, <1>5, AppendAt
<1>7. EvalServer' /\ EvalCase' /\ Attributed'
  BY <1>1, <1>2 DEF EvalServer, EvalCase, EvalCur, Attributed, InSuite, Busy, OneRuns, LogIsOwn,
                    RowsAreKept, RowsAreOwn, GoalIsOwn, Eval!Ids
<1>8. EvalClient'
  <2>1. Len(results') + Len(todo') + (IF cur' = Eval!Idle THEN 0 ELSE 1) <= Len(suite')
    <3>1. Len(results) \in Nat /\ Len(todo) \in Nat /\ Len(suite) \in Nat
      BY <1>1, <1>5, SuiteFacts DEF EvalClient
    <3> QED
      BY <1>1, <1>2, <1>6, <3>1, QueueFacts DEF EvalClient
  <2>2. todo' \in Seq(Eval!Case) /\ \A i \in DOMAIN todo' : InSuite(todo'[i])
    BY <1>2, QueueFacts
  <2> QED
    BY <1>1, <1>2, <1>6, <2>1, <2>2 DEF EvalClient, InSuite
<1>9. Earned'
  <2>1. DOMAIN results = 1..Len(results) /\ \A i \in DOMAIN results' : i \in 1..Len(results) \/ i = Len(results) + 1
    BY <1>5, <1>6
  <2> QED
    BY <1>1, <1>4, <1>6, <2>1 DEF Earned
<1> QED
  BY <1>7, <1>8, <1>9 DEF EvalInv

LEMMA StartKeeps ==
  ASSUME EvalInv, Eval!Start
  PROVE  EvalInv'
<1>1. EvalServer /\ EvalClient /\ EvalCase /\ Attributed /\ Earned
  BY DEF EvalInv
<1>2. /\ cur = Eval!Idle /\ todo # <<>> /\ todo' = Tail(todo)
      /\ UNCHANGED <<turns, log, rows, goals, suite, sweep, run, agents, results, waited>>
  BY DEF Eval!Start, Eval!server
<1>3. PICK at \in {"setup", "send", "clear"} :
        /\ cur' = Eval!Cur(at, Head(todo))
        /\ at = "send" => Head(todo).kind = "workflow"
        /\ at = "setup" => Head(todo).kind # "goal"
  BY DEF Eval!Start
<1>4. /\ cur'.pc = at /\ cur'.case = Head(todo) /\ ~cur'.passed /\ cur'.own
      /\ cur' \in EvalCur' /\ cur' # Eval!Idle
  <2>1. cur' \in EvalCur'
    <3>1. 0 \in 0..Len(turns')
      BY <1>1, <1>2 DEF EvalServer
    <3> QED
      BY <1>2, <1>3, <3>1, QueueFacts DEF Eval!Cur, EvalCur, EvalPcs
  <2>2. cur'.pc = at
    BY <1>3 DEF Eval!Cur
  <2> QED
    BY <1>3, <2>1, <2>2 DEF Eval!Cur, Eval!Idle
<1>5. EvalServer'
  BY <1>1, <1>2 DEF EvalServer, InSuite, Eval!Ids
<1>6. EvalClient'
  <2>1. Len(results') + Len(todo') + (IF cur' = Eval!Idle THEN 0 ELSE 1) <= Len(suite')
    <3>1. Len(results) \in Nat /\ Len(todo) \in Nat /\ Len(suite) \in Nat
      BY <1>1, SuiteFacts DEF EvalClient
    <3> QED
      BY <1>1, <1>2, <1>4, <3>1, QueueFacts DEF EvalClient
  <2>2. todo' \in Seq(Eval!Case) /\ \A i \in DOMAIN todo' : InSuite(todo'[i])
    BY <1>2, QueueFacts
  <2> QED
    BY <1>1, <1>2, <2>1, <2>2 DEF EvalClient, InSuite
<1>7. ~Busy'
  BY <1>3, <1>4 DEF Busy
<1>8. EvalCase'
  BY <1>2, <1>3, <1>4, <1>7, QueueFacts DEF EvalCase, InSuite
<1>9. ASSUME waited
      PROVE  (OneRuns /\ LogIsOwn /\ RowsAreKept /\ RowsAreOwn /\ GoalIsOwn)'
  <2>1. OneRuns /\ RowsAreKept
    BY <1>1, <1>9 DEF Attributed
  <2>2. \A t \in DOMAIN turns : turns[t].st # "running"
    BY <1>2, <2>1 DEF OneRuns, Busy
  <2>3. OneRuns' /\ LogIsOwn'
    BY <1>2, <1>7, <2>2 DEF OneRuns, LogIsOwn
  <2>4. \A r \in rows : \E i \in DOMAIN suite : suite[i].id = r.of /\ ~suite[i].clears
    BY <1>2, <2>1 DEF RowsAreKept
  <2>5. RowsAreKept'
    BY <1>2, <2>4 DEF RowsAreKept
  <2>6. RowsAreOwn'
    <3>1. PICK j \in DOMAIN suite : suite[j] = Head(todo)
      BY <1>2, QueueFacts DEF InSuite
    <3>2. Head(todo).finds => \A r \in rows : r.of # Head(todo).id
      BY <1>1, <2>4, <3>1, SuiteFacts
    <3> QED
      BY <1>2, <1>4, <3>2 DEF RowsAreOwn
  <2>7. GoalIsOwn'
    BY <1>3, <1>4, <1>7 DEF GoalIsOwn
  <2> QED
    BY <2>3, <2>5, <2>6, <2>7
<1>10. Attributed' /\ Earned'
  BY <1>1, <1>2, <1>9 DEF Attributed, Earned
<1> QED
  BY <1>5, <1>6, <1>8, <1>10 DEF EvalInv

\* A step of the case before its turn is sent, or on to the teardown.
LEMMA Readies ==
  ASSUME EvalInv, cur.pc \in {"setup", "clear", "set"},
         NEW at \in {"set", "send", "teardown"}, cur' = [cur EXCEPT !.pc = at],
         rows' \subseteq rows \union {[of |-> cur.case.id, by |-> 0]},
         rows' # rows => ~cur.case.finds \/ at = "teardown",
         goals' \in [Eval!Ids(suite) -> EvalGoal(Len(turns))],
         at = "send" /\ cur.case.kind = "goal" => goals'[cur.case.id].st = "active",
         UNCHANGED <<turns, log, suite, sweep, todo, run, agents, results, waited>>
  PROVE  EvalInv'
<1>1. EvalServer /\ EvalClient /\ EvalCase /\ Attributed /\ Earned
  BY DEF EvalInv
<1>2. cur # Eval!Idle /\ cur \in EvalCur /\ InSuite(cur.case)
  BY <1>1, CurFacts DEF EvalPcs
<1>3. /\ cur'.pc = at /\ cur'.case = cur.case /\ cur'.passed = cur.passed /\ cur'.own = cur.own
      /\ cur' \in EvalCur' /\ cur' # Eval!Idle
  <2>1. /\ cur' \in EvalCur /\ cur'.pc = at /\ cur'.case = cur.case
        /\ cur'.passed = cur.passed /\ cur'.own = cur.own
    BY <1>2 DEF EvalCur, EvalPcs
  <2> QED
    BY <2>1 DEF EvalCur, Eval!Idle
<1>4. EvalServer'
  <2>1. [of |-> cur.case.id, by |-> 0] \in [of : Eval!Ids(suite), by : 0..Len(turns)]
    BY <1>1, <1>2, SuiteFacts DEF EvalServer
  <2>2. rows' \subseteq [of : Eval!Ids(suite), by : 0..Len(turns)]
    BY <1>1, <2>1 DEF EvalServer
  <2> QED
    BY <1>1, <2>2 DEF EvalServer, InSuite, Eval!Ids
<1>5. EvalClient'
  BY <1>1, <1>2, <1>3 DEF EvalClient, InSuite
<1>6. ~Busy /\ ~Busy'
  BY <1>3 DEF Busy
<1>7. EvalCase'
  BY <1>1, <1>2, <1>3, <1>6 DEF EvalCase, InSuite
<1>8. ASSUME waited
      PROVE  (OneRuns /\ LogIsOwn /\ RowsAreKept /\ RowsAreOwn /\ GoalIsOwn)'
  <2>1. OneRuns /\ RowsAreKept /\ RowsAreOwn
    BY <1>1, <1>8 DEF Attributed
  <2>2. \A t \in DOMAIN turns : turns[t].st # "running"
    BY <1>6, <2>1 DEF OneRuns
  <2>3. OneRuns' /\ LogIsOwn'
    BY <1>6, <2>2 DEF OneRuns, LogIsOwn
  <2>4. RowsAreKept'
    BY <1>2, <1>3, <2>1 DEF RowsAreKept
  <2>5. RowsAreOwn'
    BY <1>2, <1>3, <1>6, <2>1 DEF RowsAreOwn
  <2>6. GoalIsOwn'
    BY <1>3, <1>6 DEF GoalIsOwn
  <2> QED
    BY <2>3, <2>4, <2>5, <2>6
<1>9. Attributed' /\ Earned'
  BY <1>1, <1>8 DEF Attributed, Earned
<1> QED
  BY <1>4, <1>5, <1>7, <1>9 DEF EvalInv

LEMMA ReadyKeeps ==
  ASSUME EvalInv, Eval!ApplySetup \/ Eval!ClearGoal \/ Eval!SetGoal
  PROVE  EvalInv'
<1>1. EvalServer /\ EvalClient /\ EvalCase
  BY DEF EvalInv
<1>2. UNCHANGED <<turns, log, suite, sweep, todo, run, agents, results, waited>>
  BY DEF Eval!ApplySetup, Eval!ClearGoal, Eval!SetGoal, Eval!client
<1>3. cur.pc \in {"setup", "clear", "set"}
  BY DEF Eval!ApplySetup, Eval!ClearGoal, Eval!SetGoal
<1>4. cur # Eval!Idle /\ cur \in EvalCur /\ InSuite(cur.case)
  BY <1>1, <1>3, CurFacts DEF EvalPcs
<1>5. goals \in [Eval!Ids(suite) -> EvalGoal(Len(turns))] /\ Len(turns) \in Nat
  BY <1>1 DEF EvalServer
<1>6. cur.case.id \in Eval!Ids(suite)
  BY <1>1, <1>4, SuiteFacts
<1> DEFINE seed == [of |-> cur.case.id, by |-> 0]
<1>7. CASE Eval!ApplySetup /\ cur' = [cur EXCEPT !.pc = "send"]
           /\ rows' = IF cur.case.seeds THEN rows \union {seed} ELSE rows
  <2>1. goals' = goals
    BY <1>7 DEF Eval!ApplySetup
  <2>2. cur.case.finds => ~cur.case.seeds
    BY <1>1, <1>4, SuiteFacts DEF InSuite
  <2>3. rows' \subseteq rows \union {seed} /\ (rows' # rows => ~cur.case.finds)
    BY <1>7, <2>2
  <2> QED
    <3> HIDE DEF seed
    <3>1. PICK at \in {"send"} : cur' = [cur EXCEPT !.pc = at]
      BY <1>7
    <3>2. cur.case.kind # "goal"
      BY <1>1, <1>4, <1>7 DEF Eval!ApplySetup, EvalCase
    <3> QED
      BY <1>2, <1>3, <1>5, <2>1, <2>3, <3>1, <3>2, Readies DEF seed
<1>8. CASE Eval!ApplySetup /\ cur' = [cur EXCEPT !.pc = "teardown"]
           /\ \E kept \in SUBSET {seed} : rows' = rows \union kept
  <2>1. goals' = goals
    BY <1>8 DEF Eval!ApplySetup
  <2>2. rows' \subseteq rows \union {seed}
    BY <1>8
  <2> QED
    BY <1>2, <1>3, <1>5, <1>8, <2>1, <2>2, Readies
<1>9. CASE Eval!ClearGoal \/ Eval!SetGoal
  <2>1. rows' = rows
    BY <1>9 DEF Eval!ClearGoal, Eval!SetGoal
  <2>2. CASE goals' = goals /\ cur' = [cur EXCEPT !.pc = "teardown"]
    BY <1>2, <1>3, <1>5, <2>1, <2>2, Readies
  <2>3. CASE goals' = [goals EXCEPT ![cur.case.id] = Eval!NoGoal] /\ cur' = [cur EXCEPT !.pc = "set"]
    <3>1. Eval!NoGoal \in EvalGoal(Len(turns))
      BY <1>5 DEF Eval!NoGoal, EvalGoal
    <3>2. goals' \in [Eval!Ids(suite) -> EvalGoal(Len(turns))]
      BY <1>5, <2>3, <3>1
    <3> QED
      BY <1>2, <1>3, <2>1, <2>3, <3>2, Readies
  <2>4. CASE /\ goals' = [goals EXCEPT ![cur.case.id] = [st |-> "active", by |-> 0]]
             /\ cur' = [cur EXCEPT !.pc = "send"]
    <3>1. [st |-> "active", by |-> 0] \in EvalGoal(Len(turns))
      BY <1>5 DEF EvalGoal
    <3>2. goals' \in [Eval!Ids(suite) -> EvalGoal(Len(turns))]
      BY <1>5, <2>4, <3>1
    <3>3. goals'[cur.case.id].st = "active"
      BY <1>5, <1>6, <2>4
    <3> QED
      BY <1>2, <1>3, <2>1, <2>4, <3>2, <3>3, Readies
  <2> QED
    BY <1>9, <2>2, <2>3, <2>4 DEF Eval!ClearGoal, Eval!SetGoal, Eval!Goto
<1> QED
  BY <1>7, <1>8, <1>9 DEF Eval!ApplySetup, Eval!Goto

LEMMA SendKeeps ==
  ASSUME EvalInv, Eval!Send
  PROVE  EvalInv'
<1>1. EvalServer /\ EvalClient /\ EvalCase /\ Attributed /\ Earned
  BY DEF EvalInv
<1>2. /\ cur.pc = "send"
      /\ UNCHANGED <<log, rows, goals, suite, sweep, todo, run, agents, results, waited>>
  BY DEF Eval!Send, Eval!client
<1>3. cur # Eval!Idle /\ cur \in EvalCur /\ InSuite(cur.case)
  BY <1>1, <1>2, CurFacts DEF EvalPcs
<1> DEFINE e == [case |-> cur.case, st |-> "running", goal |-> FALSE]
           n == Len(turns) + 1
<1>4. e \in EvalTurn /\ e.case = cur.case /\ e.st = "running"
  BY <1>3 DEF EvalTurn, EvalCur
<1>5. turns \in Seq(EvalTurn) /\ turns' = Append(turns, e)
  BY <1>1 DEF EvalServer, Eval!Send
<1> HIDE DEF e
<1>6. /\ turns' \in Seq(EvalTurn) /\ Len(turns') = n /\ DOMAIN turns' = 1..n /\ turns'[n] = e
      /\ \A i \in 1..Len(turns) : turns'[i] = turns[i]
      /\ Len(turns) \in Nat /\ DOMAIN turns = 1..Len(turns)
  BY <1>4, <1>5, AppendAt
<1>7. log \in Seq(EvalEntry(Len(turns))) /\ Len(log) \in Nat
  BY <1>1 DEF EvalServer
<1>8. /\ cur'.pc = "wait" /\ cur'.mark = Len(log) /\ cur'.turn = n /\ cur'.case = cur.case
      /\ cur'.passed = cur.passed /\ cur'.own = cur.own
      /\ cur' \in EvalCur' /\ cur' # Eval!Idle
  <2>1. cur' = [cur EXCEPT !.pc = "wait", !.mark = Len(log), !.turn = n]
    BY DEF Eval!Send
  <2>2. n \in 0..Len(turns')
    BY <1>6
  <2>3. cur'.pc = "wait" /\ cur'.mark = Len(log) /\ cur'.turn = n /\ cur'.case = cur.case
        /\ cur'.passed = cur.passed /\ cur'.own = cur.own
    BY <1>3, <2>1 DEF EvalCur
  <2>4. cur' \in EvalCur'
    BY <1>3, <1>7, <2>1, <2>2 DEF EvalCur, EvalPcs
  <2> QED
    BY <2>3, <2>4 DEF Eval!Idle
<1>9. EvalServer'
  <2>1. EvalEntry(Len(turns)) \subseteq EvalEntry(n) /\ EvalGoal(Len(turns)) \subseteq EvalGoal(n)
    BY <1>6 DEF EvalEntry, EvalGoal
  <2>2. log \in Seq(EvalEntry(n))
    BY <1>7, <2>1
  <2>3. goals \in [Eval!Ids(suite) -> EvalGoal(n)]
    BY <1>1, <2>1 DEF EvalServer
  <2>4. rows \subseteq [of : Eval!Ids(suite), by : 0..n]
    <3>1. rows \subseteq [of : Eval!Ids(suite), by : 0..Len(turns)]
      BY <1>1 DEF EvalServer
    <3> QED
      BY <1>6, <3>1
  <2>5. \A t \in DOMAIN turns' : InSuite(turns'[t].case)
    <3>1. \A t \in 1..n : t \in 1..Len(turns) \/ t = n
      BY <1>6
    <3> QED
      BY <1>1, <1>3, <1>4, <1>6, <3>1 DEF EvalServer
  <2> QED
    BY <1>1, <1>2, <1>6, <2>2, <2>3, <2>4, <2>5 DEF EvalServer, InSuite, Eval!Ids
<1>10. EvalClient'
  BY <1>1, <1>2, <1>3, <1>8 DEF EvalClient, InSuite
<1>11. EvalCase'
  BY <1>1, <1>2, <1>3, <1>4, <1>6, <1>8 DEF EvalCase, InSuite, Busy
<1>12. ASSUME waited
       PROVE  (OneRuns /\ LogIsOwn /\ RowsAreKept /\ RowsAreOwn /\ GoalIsOwn)'
  <2>1. OneRuns /\ RowsAreKept /\ RowsAreOwn /\ GoalIsOwn
    BY <1>1, <1>12 DEF Attributed
  <2>2. \A t \in DOMAIN turns : turns[t].st # "running"
    BY <1>2, <2>1 DEF OneRuns
  <2>3. OneRuns'
    <3>1. \A t \in 1..n : t \in 1..Len(turns) \/ t = n
      BY <1>6
    <3> QED
      BY <1>6, <1>8, <2>2, <3>1 DEF OneRuns, Busy
  <2>4. LogIsOwn'
    BY <1>2, <1>7, <1>8 DEF LogIsOwn
  <2>5. RowsAreKept'
    BY <1>2, <1>3, <1>8, <2>1 DEF RowsAreKept
  <2>6. RowsAreOwn'
    BY <1>2, <1>3, <1>8, <2>1 DEF RowsAreOwn, Busy
  <2>7. GoalIsOwn'
    BY <1>2, <1>3, <1>8, <2>1 DEF GoalIsOwn, Busy
  <2> QED
    BY <2>3, <2>4, <2>5, <2>6, <2>7
<1>13. Attributed' /\ Earned'
  BY <1>1, <1>2, <1>12 DEF Attributed, Earned
<1> QED
  BY <1>9, <1>10, <1>11, <1>13 DEF EvalInv

\* A step of the case after its turn was sent, on to the judge or the teardown.
LEMMA Settles ==
  ASSUME EvalInv, cur.pc \in {"wait", "judge"}, NEW at \in {"judge", "teardown"},
         cur.pc = "judge" => at = "teardown",
         cur' \in EvalCur, cur'.pc = at, cur'.case = cur.case, cur'.turn = cur.turn,
         cur'.mark = cur.mark, cur'.passed => cur'.own, at # "teardown" => ~cur'.passed,
         waited' \in BOOLEAN,
         waited' => waited /\ (cur.pc = "judge" \/ turns[cur.turn].st # "running"),
         UNCHANGED <<turns, log, rows, goals, suite, sweep, todo, run, agents, results>>
  PROVE  EvalInv'
<1>1. EvalServer /\ EvalClient /\ EvalCase /\ Attributed /\ Earned
  BY DEF EvalInv
<1>2. cur # Eval!Idle /\ cur \in EvalCur /\ InSuite(cur.case) /\ Busy
  BY <1>1, CurFacts DEF EvalPcs, Busy
<1>3. cur' # Eval!Idle /\ cur' \in EvalCur'
  BY DEF Eval!Idle, EvalCur
<1>4. EvalServer' /\ Earned'
  BY <1>1 DEF EvalServer, InSuite, Eval!Ids, Earned
<1>5. EvalClient'
  BY <1>1, <1>2, <1>3 DEF EvalClient, InSuite
<1>6. EvalCase'
  BY <1>1, <1>2, <1>3 DEF EvalCase, InSuite, Busy
<1>7. ASSUME waited'
      PROVE  (OneRuns /\ LogIsOwn /\ RowsAreKept /\ RowsAreOwn /\ GoalIsOwn)'
  <2>1. OneRuns /\ LogIsOwn /\ RowsAreKept /\ RowsAreOwn /\ GoalIsOwn
    BY <1>1, <1>7 DEF Attributed
  <2>2. \A t \in DOMAIN turns : turns[t].st # "running"
    BY <1>7, <2>1 DEF OneRuns
  <2>3. OneRuns' /\ LogIsOwn'
    BY <1>2, <2>1, <2>2 DEF OneRuns, LogIsOwn, Busy
  <2>4. RowsAreKept'
    BY <1>2, <1>3, <2>1 DEF RowsAreKept
  <2>5. RowsAreOwn'
    BY <1>2, <1>3, <2>1 DEF RowsAreOwn, Busy
  <2>6. GoalIsOwn'
    BY <1>2, <1>3, <2>1 DEF GoalIsOwn, Busy
  <2> QED
    BY <2>3, <2>4, <2>5, <2>6
<1>8. Attributed'
  BY <1>7 DEF Attributed
<1> QED
  BY <1>4, <1>5, <1>6, <1>8 DEF EvalInv

LEMMA AnswerKeeps ==
  ASSUME EvalInv, Eval!AnswerStreamed \/ Eval!AnswerPolled \/ Eval!GiveUp
  PROVE  EvalInv'
<1>1. EvalCase /\ waited \in BOOLEAN
  BY DEF EvalInv, EvalClient
<1>2. cur.pc = "wait" /\ UNCHANGED <<turns, log, rows, goals, suite, sweep, todo, run, agents, results>>
  BY DEF Eval!AnswerStreamed, Eval!AnswerPolled, Eval!GiveUp, Eval!server, Eval!client
<1>3. cur # Eval!Idle /\ cur \in EvalCur /\ ~cur.passed
  BY <1>1, <1>2, CurFacts DEF EvalPcs, EvalCase
<1>4. PICK at \in {"judge", "teardown"} : cur' = [cur EXCEPT !.pc = at]
  BY DEF Eval!AnswerStreamed, Eval!AnswerPolled, Eval!GiveUp, Eval!Goto, Eval!Settled
<1>5. /\ cur' \in EvalCur /\ cur'.pc = at /\ cur'.case = cur.case /\ cur'.turn = cur.turn
      /\ cur'.mark = cur.mark /\ ~cur'.passed
  BY <1>3, <1>4 DEF EvalCur, EvalPcs
<1>6. waited' \in BOOLEAN /\ (waited' => waited /\ turns[cur.turn].st # "running")
  <2>1. CASE Eval!AnswerStreamed
    <3>1. CASE turns[cur.turn].st # "running" /\ waited' = waited
      BY <1>1, <3>1
    <3>2. CASE waited' = (waited /\ turns[cur.turn].st # "running")
      BY <1>1, <3>2
    <3> QED
      BY <2>1, <3>1, <3>2 DEF Eval!AnswerStreamed
  <2>2. CASE Eval!AnswerPolled
    BY <1>1, <2>2 DEF Eval!AnswerPolled
  <2>3. CASE Eval!GiveUp
    BY <2>3 DEF Eval!GiveUp
  <2> QED
    BY <2>1, <2>2, <2>3
<1> QED
  BY <1>2, <1>5, <1>6, Settles

\* What passes the judge was done by the case's own turn.
LEMMA HoldsIsOwn ==
  ASSUME EvalInv, cur.pc = "judge", waited, Eval!Holds(cur.case, Eval!EntriesSince(cur.mark))
  PROVE  Eval!Own(cur.case, cur.turn)
<1>1. EvalServer /\ EvalClient /\ EvalCase /\ Attributed
  BY DEF EvalInv
<1>2. cur # Eval!Idle /\ cur \in EvalCur /\ InSuite(cur.case) /\ Busy
  BY <1>1, CurFacts DEF EvalPcs, Busy
<1>3. LogIsOwn /\ RowsAreOwn /\ GoalIsOwn
  BY <1>1 DEF Attributed
<1> DEFINE c == cur.case
           mine == {log[i] : i \in {j \in DOMAIN log : log[j].by = cur.turn}}
<1>4. Eval!EntriesSince(cur.mark) \subseteq mine
  <2>1. log \in Seq(EvalEntry(Len(turns))) /\ cur.mark \in Nat
    BY <1>1, <1>2 DEF EvalServer, EvalCur
  <2>2. \A i \in cur.mark + 1..Len(log) : i \in DOMAIN log /\ i > cur.mark
    BY <2>1
  <2>3. \A i \in cur.mark + 1..Len(log) : log[i].by = cur.turn
    BY <1>2, <1>3, <2>2 DEF LogIsOwn
  <2> QED
    BY <2>2, <2>3 DEF Eval!EntriesSince
<1> HIDE DEF mine
<1>5. Eval!ToolsFired(c, mine) /\ Eval!AnyFired(c, mine)
  <2>1. \A tool : Eval!Fired(tool, Eval!EntriesSince(cur.mark)) => Eval!Fired(tool, mine)
    BY <1>4 DEF Eval!Fired
  <2> QED
    BY <2>1 DEF Eval!Holds, Eval!ToolsFired, Eval!AnyFired
<1>6. c.finds => [of |-> c.id, by |-> cur.turn] \in rows
  <2> SUFFICES ASSUME c.finds PROVE [of |-> c.id, by |-> cur.turn] \in rows
    OBVIOUS
  <2>1. PICK r \in rows : r.of = c.id
    BY DEF Eval!Holds
  <2>2. r.by = cur.turn
    BY <1>2, <1>3, <2>1 DEF RowsAreOwn
  <2>3. r = [of |-> r.of, by |-> r.by]
    BY <1>1 DEF EvalServer
  <2> QED
    BY <2>1, <2>2, <2>3
<1>7. c.kind = "goal" => goals[c.id].by = cur.turn
  <2>1. c.kind = "goal" => goals[c.id].st = "achieved"
    BY DEF Eval!Holds
  <2> QED
    BY <1>2, <1>3, <2>1 DEF GoalIsOwn
<1> QED
  BY <1>5, <1>6, <1>7 DEF Eval!Own, mine

LEMMA JudgeKeeps ==
  ASSUME EvalInv, Eval!Judge
  PROVE  EvalInv'
<1>1. EvalCase /\ waited \in BOOLEAN
  BY DEF EvalInv, EvalClient
<1>2. cur.pc = "judge" /\ UNCHANGED <<turns, log, rows, goals, suite, sweep, todo, run, agents,
                                      results, waited>>
  BY DEF Eval!Judge, Eval!server, Eval!client
<1>3. cur # Eval!Idle /\ cur \in EvalCur
  BY <1>1, <1>2, CurFacts DEF EvalPcs
<1>4. PICK rest \in BOOLEAN :
        cur' = [cur EXCEPT !.pc = "teardown",
                           !.passed = rest /\ Eval!Holds(cur.case, Eval!EntriesSince(cur.mark)),
                           !.own = Eval!Own(cur.case, cur.turn) \/ ~waited,
                           !.quiet = \A i \in DOMAIN log : log[i].by # cur.turn]
  BY DEF Eval!Judge
<1> DEFINE passed == rest /\ Eval!Holds(cur.case, Eval!EntriesSince(cur.mark))
           own == Eval!Own(cur.case, cur.turn) \/ ~waited
           quiet == \A i \in DOMAIN log : log[i].by # cur.turn
<1>5. passed => own
  BY <1>1, <1>2, HoldsIsOwn
<1>6. passed \in BOOLEAN /\ own \in BOOLEAN /\ quiet \in BOOLEAN
  BY DEF Eval!Own, Eval!Holds
<1>7. cur' = [cur EXCEPT !.pc = "teardown", !.passed = passed, !.own = own, !.quiet = quiet]
  BY <1>4
<1> HIDE DEF passed, own, quiet
<1>8. /\ cur' \in EvalCur /\ cur'.pc = "teardown" /\ cur'.case = cur.case /\ cur'.turn = cur.turn
      /\ cur'.mark = cur.mark /\ (cur'.passed => cur'.own)
  BY <1>3, <1>5, <1>6, <1>7 DEF EvalCur, EvalPcs
<1> QED
  BY <1>1, <1>2, <1>8, Settles

LEMMA TeardownKeeps ==
  ASSUME EvalInv, Eval!Teardown
  PROVE  EvalInv'
<1>1. EvalServer /\ EvalClient /\ EvalCase /\ Attributed /\ Earned
  BY DEF EvalInv
<1>2. /\ cur.pc = "teardown" /\ cur' = Eval!Idle
      /\ rows' = IF cur.case.clears THEN {r \in rows : r.of # cur.case.id} ELSE rows
      /\ results' = Append(results, Eval!Result(cur.passed, FALSE, cur))
      /\ UNCHANGED <<turns, log, suite, sweep, todo, run, agents, waited>>
  BY DEF Eval!Teardown, Eval!Report, Eval!client
<1>3. cur # Eval!Idle /\ cur \in EvalCur /\ InSuite(cur.case)
  BY <1>1, <1>2, CurFacts DEF EvalPcs
<1> DEFINE r == Eval!Result(cur.passed, FALSE, cur)
           Result == [case : Eval!Case, passed : BOOLEAN, skipped : BOOLEAN, own : BOOLEAN,
                      quiet : BOOLEAN]
<1>4. r \in Result /\ (r.passed => r.own)
  BY <1>1, <1>3 DEF EvalCase, EvalCur, Eval!Result
<1> HIDE DEF r
<1>5. results \in Seq(Result) /\ results' = Append(results, r)
  BY <1>1, <1>2 DEF EvalClient, r
<1>6. /\ results' \in Seq(Result) /\ Len(results') = Len(results) + 1
      /\ DOMAIN results' = 1..(Len(results) + 1) /\ results'[Len(results) + 1] = r
      /\ \A i \in 1..Len(results) : results'[i] = results[i]
  BY <1>4, <1>5, AppendAt
<1>7. goals' \in [Eval!Ids(suite) -> EvalGoal(Len(turns))]
  <2>1. goals \in [Eval!Ids(suite) -> EvalGoal(Len(turns))] /\ Len(turns) \in Nat
    BY <1>1 DEF EvalServer
  <2>2. Eval!NoGoal \in EvalGoal(Len(turns))
    BY <2>1 DEF Eval!NoGoal, EvalGoal
  <2> QED
    BY <2>1, <2>2 DEF Eval!Teardown
<1>8. rows' \subseteq rows /\ EvalServer'
  BY <1>1, <1>2, <1>7 DEF EvalServer, InSuite, Eval!Ids
<1>9. EvalClient'
  <2>1. Len(results') + Len(todo') + (IF cur' = Eval!Idle THEN 0 ELSE 1) <= Len(suite')
    <3>1. Len(results) \in Nat /\ Len(todo) \in Nat /\ Len(suite) \in Nat
      BY <1>1, <1>5, SuiteFacts DEF EvalClient
    <3> QED
      BY <1>1, <1>2, <1>3, <1>6, <3>1 DEF EvalClient
  <2> QED
    BY <1>1, <1>2, <1>6, <2>1 DEF EvalClient, InSuite
<1>10. EvalCase' /\ ~Busy'
  BY <1>2 DEF EvalCase, Busy
<1>11. Earned'
  <2>1. DOMAIN results = 1..Len(results) /\ \A i \in DOMAIN results' : i \in 1..Len(results) \/ i = Len(results) + 1
    BY <1>5, <1>6
  <2> QED
    BY <1>1, <1>4, <1>6, <2>1 DEF Earned
<1>12. ASSUME waited
       PROVE  (OneRuns /\ LogIsOwn /\ RowsAreKept /\ RowsAreOwn /\ GoalIsOwn)'
  <2>1. OneRuns /\ RowsAreKept
    BY <1>1, <1>12 DEF Attributed
  <2>2. \A t \in DOMAIN turns : turns[t].st # "running"
    BY <1>2, <2>1 DEF OneRuns
  <2>3. OneRuns' /\ LogIsOwn' /\ RowsAreOwn' /\ GoalIsOwn'
    BY <1>2, <1>10, <2>2 DEF OneRuns, LogIsOwn, RowsAreOwn, GoalIsOwn
  <2>4. ASSUME NEW row \in rows' PROVE \E i \in DOMAIN suite : suite[i].id = row.of /\ ~suite[i].clears
    <3>1. row \in rows
      BY <1>8, <2>4
    <3>2. CASE row.of = cur.case.id
      <4>1. ~cur.case.clears
        BY <1>2, <2>4, <3>2
      <4> QED
        BY <1>3, <3>2, <4>1 DEF InSuite
    <3>3. CASE row.of # cur.case.id
      BY <2>1, <3>1, <3>3 DEF RowsAreKept
    <3> QED
      BY <3>2, <3>3
  <2>5. RowsAreKept'
    BY <1>2, <2>4 DEF RowsAreKept
  <2> QED
    BY <2>3, <2>5
<1>13. Attributed'
  BY <1>2, <1>12 DEF Attributed
<1> QED
  BY <1>8, <1>9, <1>10, <1>11, <1>13 DEF EvalInv

LEMMA NextRunKeeps ==
  ASSUME EvalInv, Eval!NextRun
  PROVE  EvalInv'
<1>1. EvalServer /\ EvalClient /\ EvalCase /\ Attributed
  BY DEF EvalInv
<1>2. /\ cur = Eval!Idle /\ run < Repeat /\ run' = run + 1 /\ todo' = suite /\ results' = <<>>
      /\ UNCHANGED <<turns, log, rows, goals, suite, sweep, agents, cur, waited>>
  BY DEF Eval!NextRun, Eval!server
<1>3. EvalServer' /\ EvalCase' /\ Attributed' /\ Earned'
  BY <1>1, <1>2 DEF EvalServer, EvalCase, EvalCur, Attributed, Earned, InSuite, Busy, OneRuns,
                    LogIsOwn, RowsAreKept, RowsAreOwn, GoalIsOwn, Eval!Ids
<1>4. EvalClient'
  <2>1. suite \in Seq(Eval!Case) /\ Len(suite) \in Nat
    BY <1>1, SuiteFacts
  <2>2. run' \in 1..Repeat
    BY <1>1, <1>2, EvalAssumption DEF EvalClient, Eval!EvalAssumption
  <2>3. Len(results') + Len(todo') + (IF cur' = Eval!Idle THEN 0 ELSE 1) <= Len(suite')
    BY <1>2, <2>1
  <2>4. (\A i \in DOMAIN todo : InSuite(todo[i]))'
    BY <1>2 DEF InSuite
  <2>5. results' \in Seq([case : Eval!Case, passed : BOOLEAN, skipped : BOOLEAN, own : BOOLEAN,
                          quiet : BOOLEAN])
    BY <1>2
  <2> QED
    BY <1>1, <1>2, <2>1, <2>2, <2>3, <2>4, <2>5 DEF EvalClient
<1> QED
  BY <1>3, <1>4 DEF EvalInv

LEMMA NextAgentKeeps ==
  ASSUME EvalInv, Eval!NextAgent
  PROVE  EvalInv'
<1>1. EvalServer /\ EvalClient
  BY DEF EvalInv
<1>2. /\ cur = Eval!Idle /\ todo = <<>> /\ agents < MaxAgents /\ agents' = agents + 1
      /\ turns' = <<>> /\ log' = <<>> /\ rows' = {}
      /\ goals' = [c \in Eval!Ids(suite) |-> Eval!NoGoal]
      /\ (run' = 1 /\ todo' = suite) \/ (run' = run /\ todo' = todo)
      /\ results' = <<>> /\ waited' = TRUE /\ UNCHANGED <<suite, sweep, cur>>
  BY DEF Eval!NextAgent
<1>3. /\ DOMAIN turns' = {} /\ DOMAIN log' = {} /\ DOMAIN results' = {} /\ Len(turns') = 0
      /\ Len(log') = 0 /\ Len(results') = 0
  BY <1>2
<1>4. EvalServer'
  <2>1. goals' \in [Eval!Ids(suite) -> EvalGoal(0)]
    BY <1>2 DEF EvalGoal, Eval!NoGoal
  <2>2. 0 <= MaxLog
    BY EvalAssumption DEF Eval!EvalAssumption
  <2>3. turns' \in Seq(EvalTurn) /\ log' \in Seq(EvalEntry(0))
    BY <1>2
  <2>4. (goals \in [Eval!Ids(suite) -> EvalGoal(Len(turns))])'
    <3>1. suite' = suite
      BY <1>2
    <3>2. Eval!Ids(suite') = Eval!Ids(suite)
      BY <3>1 DEF Eval!Ids
    <3>3. goals' \in [Eval!Ids(suite') -> EvalGoal(Len(turns'))]
      BY <1>3, <2>1, <3>2
    <3> QED
      BY <3>3 DEF EvalGoal
  <2> QED
    BY <1>2, <1>3, <2>2, <2>3, <2>4 DEF EvalServer
<1>5. EvalClient'
  <2>1. suite \in Seq(Eval!Case) /\ Len(suite) \in Nat
    BY <1>1, SuiteFacts
  <2>2. run' \in 1..Repeat /\ agents' \in 0..MaxAgents
    BY <1>1, <1>2, EvalAssumption DEF EvalClient, Eval!EvalAssumption
  <2>3. Len(results') + Len(todo') + (IF cur' = Eval!Idle THEN 0 ELSE 1) <= Len(suite')
    BY <1>2, <1>3, <2>1
  <2>4. (todo \in Seq(Eval!Case) /\ \A i \in DOMAIN todo : InSuite(todo[i]))'
    BY <1>1, <1>2, <2>1 DEF InSuite, EvalClient
  <2>5. results' \in Seq([case : Eval!Case, passed : BOOLEAN, skipped : BOOLEAN, own : BOOLEAN,
                          quiet : BOOLEAN])
    BY <1>2
  <2> QED
    BY <1>1, <1>2, <2>1, <2>2, <2>3, <2>4, <2>5 DEF EvalClient
<1>6. EvalCase' /\ Attributed' /\ Earned'
  BY <1>2, <1>3 DEF EvalCase, Attributed, Earned, Busy, OneRuns, LogIsOwn, RowsAreKept, RowsAreOwn,
                    GoalIsOwn
<1> QED
  BY <1>4, <1>5, <1>6 DEF EvalInv

LEMMA EvalInvStep ==
  ASSUME EvalInv, Eval!Next
  PROVE  EvalInv'
  BY ToolCallKeeps, LoadGoalKeeps, SkipKeeps, StartKeeps, ReadyKeeps, SendKeeps, AnswerKeeps,
     JudgeKeeps, TeardownKeeps, NextRunKeeps, NextAgentKeeps DEF Eval!Next

LEMMA EvalInvStutters ==
  ASSUME EvalInv, UNCHANGED evalVars
  PROVE  EvalInv'
<1>1. UNCHANGED <<suite, sweep, turns, log, rows, goals, todo, run, agents, cur, results, waited>>
  BY DEF evalVars
<1> QED
  BY <1>1, SMTT(30) DEF EvalInv, EvalServer, EvalClient, EvalCase, EvalCur, Attributed, Earned, InSuite,
              Busy, OneRuns, LogIsOwn, RowsAreKept, RowsAreOwn, GoalIsOwn, Eval!Ids

LEMMA EvalInvShows ==
  ASSUME EvalInv
  PROVE  Eval!TypeOK /\ Eval!EvalSound
<1>1. EvalServer /\ EvalClient /\ EvalCase /\ Attributed /\ Earned
  BY DEF EvalInv
<1>2. Eval!EvalSound
  <2>1. Eval!PassIsEarned
    BY <1>1 DEF Earned, Eval!PassIsEarned
  <2>2. Eval!CleanSlate
    BY <1>1 DEF Attributed, RowsAreKept, Eval!CleanSlate
  <2> QED
    BY <2>1, <2>2 DEF Eval!EvalSound
<1>3. Eval!TypeOK
  <2>1. suite \in Suites /\ {sweep, waited} \subseteq BOOLEAN /\ run \in 1..Repeat
        /\ agents \in 0..MaxAgents /\ Len(log) <= MaxLog
        /\ rows \subseteq [of : Eval!Ids(suite), by : 0..Len(turns)]
    BY <1>1 DEF EvalServer, EvalClient
  <2>2. \A t \in DOMAIN turns : turns[t].st \in {"running", "completed", "failed", "input_required"}
    <3>1. \A t \in DOMAIN turns : turns[t] \in EvalTurn
      BY <1>1 DEF EvalServer
    <3> QED
      BY <3>1 DEF EvalTurn
  <2>3. \A i \in DOMAIN log : log[i].by \in DOMAIN turns /\ log[i].tool \in Tools
    <3>1. turns \in Seq(EvalTurn) /\ DOMAIN turns = 1..Len(turns)
          /\ \A i \in DOMAIN log : log[i] \in EvalEntry(Len(turns))
      BY <1>1 DEF EvalServer
    <3> QED
      BY <3>1 DEF EvalEntry
  <2>4. \A c \in Eval!Ids(suite) : goals[c].st \in {"none", "active", "achieved", "exhausted"}
    BY <1>1 DEF EvalServer, EvalGoal
  <2>5. cur.pc \in {"idle", "clear", "set", "setup", "send", "wait", "judge", "teardown"}
    <3>1. CASE cur = Eval!Idle
      BY <3>1 DEF Eval!Idle
    <3>2. CASE cur # Eval!Idle
      BY <1>1, <3>2 DEF EvalCase, EvalCur, EvalPcs
    <3> QED
      BY <3>1, <3>2
  <2>6. Len(results) + Len(todo) <= Len(suite)
    <3>1. Len(results) \in Nat /\ Len(todo) \in Nat /\ Len(suite) \in Nat
      BY <1>1, SuiteFacts DEF EvalClient
    <3> QED
      BY <1>1, <3>1 DEF EvalClient
  <2> QED
    BY <2>1, <2>2, <2>3, <2>4, <2>5, <2>6 DEF Eval!TypeOK
<1> QED
  BY <1>2, <1>3

-----------------------------------------------------------------------------
(* The notebook, with either set of bounds, and the issue board. *)

NotesOf == INSTANCE NotebookProofs WITH file <- paper, op <- save, posted <- shares, Empty <- Void
UndoOf == INSTANCE NotebookProofs WITH
  file <- paper, op <- save, posted <- shares, Empty <- Void, Tabs <- UndoTabs,
  MaxHistory <- UndoHistory, MaxVersion <- UndoVersion

\* What is proved of the notebook is of the notebook of this union.
LEMMA NotesSame ==
  /\ Notes!NotebookAssumption <=> NotesOf!NotebookAssumption
  /\ Notes!Init <=> NotesOf!Init
  /\ Notes!Next <=> NotesOf!Next
  /\ Notes!vars = NotesOf!vars
  /\ Notes!TypeOK <=> NotesOf!TypeOK
  /\ Notes!NotesKept <=> NotesOf!NotesKept
  BY DEF
     Notes!Savers, NotesOf!Savers, Notes!Texts, NotesOf!Texts, Notes!Histories,
     NotesOf!Histories, Notes!Tab, NotesOf!Tab, Notes!Workspace, NotesOf!Workspace, Notes!Blank,
     NotesOf!Blank, Notes!Default, NotesOf!Default, Notes!Idle, NotesOf!Idle, Notes!Nothing,
     NotesOf!Nothing, Notes!Shares, NotesOf!Shares, Notes!IsWorkspace, NotesOf!IsWorkspace,
     Notes!Loaded, NotesOf!Loaded, Notes!Least, NotesOf!Least, Notes!Suffix, NotesOf!Suffix,
     Notes!ButLast, NotesOf!ButLast, Notes!With, NotesOf!With, Notes!Writable, NotesOf!Writable,
     Notes!Pushed, NotesOf!Pushed, Notes!Begin, NotesOf!Begin, Notes!Over, NotesOf!Over,
     Notes!Undone, NotesOf!Undone, Notes!Retyped, NotesOf!Retyped, Notes!Toggled,
     NotesOf!Toggled, Notes!Reverted, NotesOf!Reverted, Notes!Grown, NotesOf!Grown, Notes!Shrunk,
     NotesOf!Shrunk, Notes!NotesWrite, NotesOf!NotesWrite, Notes!NotesRevert,
     NotesOf!NotesRevert, Notes!AgentSave, NotesOf!AgentSave, Notes!WriteTmp, NotesOf!WriteTmp,
     Notes!Replace, NotesOf!Replace, Notes!SaveFails, NotesOf!SaveFails, Notes!Crash,
     NotesOf!Crash, Notes!Fetch, NotesOf!Fetch, Notes!Edit, NotesOf!Edit, Notes!ConsoleSave,
     NotesOf!ConsoleSave, Notes!NotebookAssumption, NotesOf!NotebookAssumption, Notes!Init,
     NotesOf!Init, Notes!Next, NotesOf!Next, Notes!vars, NotesOf!vars, Notes!TypeOK,
     NotesOf!TypeOK, Notes!NotesKept, NotesOf!NotesKept


LEMMA UndoSame ==
  /\ Undo!NotebookAssumption <=> UndoOf!NotebookAssumption
  /\ Undo!Init <=> UndoOf!Init
  /\ Undo!Next <=> UndoOf!Next
  /\ Undo!vars = UndoOf!vars
  /\ Undo!TypeOK <=> UndoOf!TypeOK
  /\ Undo!NotesKept <=> UndoOf!NotesKept
  BY DEF
     Undo!Savers, UndoOf!Savers, Undo!Texts, UndoOf!Texts, Undo!Histories, UndoOf!Histories,
     Undo!Tab, UndoOf!Tab, Undo!Workspace, UndoOf!Workspace, Undo!Blank, UndoOf!Blank,
     Undo!Default, UndoOf!Default, Undo!Idle, UndoOf!Idle, Undo!Nothing, UndoOf!Nothing,
     Undo!Shares, UndoOf!Shares, Undo!IsWorkspace, UndoOf!IsWorkspace, Undo!Loaded,
     UndoOf!Loaded, Undo!Least, UndoOf!Least, Undo!Suffix, UndoOf!Suffix, Undo!ButLast,
     UndoOf!ButLast, Undo!With, UndoOf!With, Undo!Writable, UndoOf!Writable, Undo!Pushed,
     UndoOf!Pushed, Undo!Begin, UndoOf!Begin, Undo!Over, UndoOf!Over, Undo!Undone, UndoOf!Undone,
     Undo!Retyped, UndoOf!Retyped, Undo!Toggled, UndoOf!Toggled, Undo!Reverted, UndoOf!Reverted,
     Undo!Grown, UndoOf!Grown, Undo!Shrunk, UndoOf!Shrunk, Undo!NotesWrite, UndoOf!NotesWrite,
     Undo!NotesRevert, UndoOf!NotesRevert, Undo!AgentSave, UndoOf!AgentSave, Undo!WriteTmp,
     UndoOf!WriteTmp, Undo!Replace, UndoOf!Replace, Undo!SaveFails, UndoOf!SaveFails, Undo!Crash,
     UndoOf!Crash, Undo!Fetch, UndoOf!Fetch, Undo!Edit, UndoOf!Edit, Undo!ConsoleSave,
     UndoOf!ConsoleSave, Undo!NotebookAssumption, UndoOf!NotebookAssumption, Undo!Init,
     UndoOf!Init, Undo!Next, UndoOf!Next, Undo!vars, UndoOf!vars, Undo!TypeOK, UndoOf!TypeOK,
     Undo!NotesKept, UndoOf!NotesKept

\* Higher ids are of issues made later.
BoardInv ==
  /\ Board!TypeOK /\ ~refused
  /\ \A i, j \in DOMAIN issues : i < j => issues[i].n < issues[j].n
  /\ \A i \in DOMAIN issues : issues[i].n <= made

LEMMA NextIdIs ==
  ASSUME Board!TypeOK
  PROVE  /\ Board!NextId \in 1..(MaxIssue + 1)
         /\ \A j \in DOMAIN issues : j < Board!NextId
<1> USE BoardAssumption DEF Board!BoardAssumption
<1> DEFINE Above == {i \in 1..(MaxIssue + 1) : \A j \in DOMAIN issues : j < i}
<1>1. MaxIssue + 1 \in Above /\ Above \subseteq Nat
  BY DEF Board!TypeOK
<1>2. PICK i \in Above : \A m \in Above : i <= m
  BY <1>1, LeastMember
<1>3. i = 1 \/ i - 1 \in DOMAIN issues
  <2> SUFFICES ASSUME i # 1, i - 1 \notin DOMAIN issues PROVE FALSE
    OBVIOUS
  <2>1. i - 1 \in 1..(MaxIssue + 1) /\ DOMAIN issues \subseteq Nat
    BY <1>1 DEF Board!TypeOK
  <2>2. i - 1 \in Above
    BY <2>1
  <2> QED
    BY <1>1, <1>2, <2>2
<1>4. \E k \in 1..(MaxIssue + 1) :
        (\A j \in DOMAIN issues : j < k) /\ (k = 1 \/ k - 1 \in DOMAIN issues)
  BY <1>3
<1> QED
  BY <1>4 DEF Board!NextId

LEMMA BoardStep ==
  ASSUME BoardInv, Board!Next
  PROVE  BoardInv'
<1> USE BoardAssumption DEF Board!BoardAssumption
<1>0. /\ DOMAIN issues \subseteq 1..MaxIssue /\ made \in 0..MaxMade
      /\ \A i \in DOMAIN issues :
           issues[i] \in [n : 1..MaxMade, status : Board!Statuses, stamped : BOOLEAN]
  BY DEF BoardInv, Board!TypeOK
<1>1. CASE Board!Create
  <2>1. Board!NextId \in 1..MaxIssue /\ \A j \in DOMAIN issues : j < Board!NextId
    BY <1>1, NextIdIs DEF BoardInv, Board!Create
  <2> DEFINE new == Board!NextId
  <2>2. /\ issues' = [i \in DOMAIN issues \union {new} |->
                        IF i = new THEN Board!New(made + 1) ELSE issues[i]]
        /\ refused' = (refused \/ new \in DOMAIN issues) /\ made' = made + 1 /\ made < MaxMade
        /\ known' = known
    BY <1>1 DEF Board!Create
  <2> HIDE DEF new
  <2>3. new \in 1..MaxIssue /\ (\A j \in DOMAIN issues : j < new) /\ new \notin DOMAIN issues
    BY <1>0, <2>1 DEF new
  <2>4. /\ Board!New(made + 1) \in [n : 1..MaxMade, status : Board!Statuses, stamped : BOOLEAN]
        /\ Board!New(made + 1).n = made + 1
    BY <1>0, <2>2 DEF Board!New, Board!Statuses
  <2>5. /\ DOMAIN issues' = DOMAIN issues \union {new} /\ issues'[new] = Board!New(made + 1)
        /\ \A i \in DOMAIN issues : issues'[i] = issues[i]
    BY <2>2, <2>3
  <2>6. Board!TypeOK'
    BY <1>0, <2>2, <2>3, <2>4, <2>5 DEF BoardInv, Board!TypeOK
  <2>7. \A i \in DOMAIN issues : issues[i].n \in Nat /\ issues[i].n <= made
    BY <1>0 DEF BoardInv
  <2>8. \A i, j \in DOMAIN issues' : i < j => issues'[i].n < issues'[j].n
    BY <1>0, <2>3, <2>4, <2>5, <2>7 DEF BoardInv
  <2>9. \A i \in DOMAIN issues' : issues'[i].n <= made'
    BY <1>0, <2>2, <2>4, <2>5, <2>7
  <2>10. ~refused'
    BY <2>2, <2>3 DEF BoardInv
  <2> QED
    BY <2>6, <2>8, <2>9, <2>10 DEF BoardInv
<1>2. CASE Board!See
  <2>1. \A i \in DOMAIN issues : i \in 1..MaxIssue /\ issues[i].n \in 1..MaxMade
    BY <1>0
  <2>2. known' \subseteq (1..MaxIssue) \X (1..MaxMade)
    BY <1>2, <2>1 DEF Board!See
  <2> QED
    BY <1>2, <2>2 DEF Board!See, BoardInv, Board!TypeOK
<1>3. CASE \E i \in 1..MaxIssue : Board!UpdateIssue(i) \/ Board!Close(i)
  <2>1. PICK i \in DOMAIN issues : Board!UpdateIssue(i) \/ Board!Close(i)
    BY <1>3 DEF Board!UpdateIssue, Board!Close
  <2>2. /\ DOMAIN issues' = DOMAIN issues
        /\ \A j \in DOMAIN issues : issues'[j].n = issues[j].n
        /\ \A j \in DOMAIN issues :
             issues'[j] \in [n : 1..MaxMade, status : Board!Statuses, stamped : BOOLEAN]
        /\ UNCHANGED <<made, known, refused>>
    <3>1. CASE Board!UpdateIssue(i)
      <4>1. PICK status \in Board!Statuses : issues' = [issues EXCEPT ![i].status = status]
        BY <3>1 DEF Board!UpdateIssue
      <4> QED
        BY <1>0, <3>1, <4>1 DEF Board!UpdateIssue
    <3>2. CASE Board!Close(i)
      <4>1. "closed" \in Board!Statuses
        BY DEF Board!Statuses
      <4>2. issues' = [issues EXCEPT ![i].status = "closed", ![i].stamped = TRUE]
        BY <3>2 DEF Board!Close
      <4> QED
        BY <1>0, <3>2, <4>1, <4>2 DEF Board!Close
    <3> QED
      BY <2>1, <3>1, <3>2
  <2> QED
    BY <2>2 DEF BoardInv, Board!TypeOK
<1>4. CASE \E i \in 1..MaxIssue : Board!Delete(i)
  <2>1. PICK i \in 1..MaxIssue : Board!Delete(i)
    BY <1>4
  <2>2. /\ DOMAIN issues' \subseteq DOMAIN issues
        /\ \A j \in DOMAIN issues' : issues'[j] = issues[j]
        /\ UNCHANGED <<made, known, refused>>
    BY <2>1 DEF Board!Delete
  <2> QED
    BY <2>2 DEF BoardInv, Board!TypeOK
<1> QED
  BY <1>1, <1>2, <1>3, <1>4 DEF Board!Next

LEMMA BoardInvShows ==
  ASSUME BoardInv
  PROVE  Board!TypeOK /\ Board!IdsHold
<1>1. \A i \in DOMAIN issues : i \in Nat /\ issues[i].n \in Nat
  BY DEF BoardInv, Board!TypeOK
<1>2. \A k \in known : k[1] \in Nat /\ k[2] \in Nat
  BY DEF BoardInv, Board!TypeOK
<1> QED
  BY <1>1, <1>2 DEF BoardInv, Board!IdsHold

-----------------------------------------------------------------------------
BenchInv ==
  /\ pick \in {"host", "chat", "stream", "eval", "notes", "undo", "board"}
  /\ pick = "notes" => NotesOf!NotesInv
  /\ pick = "undo" => UndoOf!NotesInv
  /\ pick = "board" => BoardInv

LEMMA BenchInvInit == Init => BenchInv
<1> SUFFICES ASSUME Init PROVE BenchInv
  OBVIOUS
<1>1. ASSUME pick = "notes" PROVE NotesOf!NotesInv
  <2>1. Notes!Init
    BY <1>1 DEF Init
  <2> QED
    BY <2>1, NotebookAssumption, NotesSame, NotesOf!NotesInvInit
<1>2. ASSUME pick = "undo" PROVE UndoOf!NotesInv
  <2>1. Undo!Init
    BY <1>2 DEF Init
  <2> QED
    BY <2>1, NotebookAssumption, UndoSame, UndoOf!NotesInvInit
<1>3. BoardInv
  <2>1. issues = <<>> /\ made = 0 /\ known = {} /\ refused = FALSE
    BY DEF Init, Board!Init
  <2>2. DOMAIN issues = {}
    BY <2>1
  <2>3. made \in 0..MaxMade /\ refused \in BOOLEAN
    <3>1. MaxMade \in Nat
      BY BoardAssumption DEF Board!BoardAssumption
    <3>2. made \in 0..MaxMade
      BY <2>1, <3>1
    <3> QED
      BY <2>1, <3>2
  <2>4. known \subseteq (1..MaxIssue) \X (1..MaxMade)
    BY <2>1
  <2>5. Board!TypeOK
    BY <2>2, <2>3, <2>4 DEF Board!TypeOK
  <2> QED
    BY <2>1, <2>2, <2>5 DEF BoardInv
<1> QED
  BY <1>1, <1>2, <1>3 DEF BenchInv, Init

LEMMA BenchInvStep ==
  ASSUME BenchInv, [Next]_vars
  PROVE  BenchInv'
<1>1. CASE pick = "notes" /\ Notes!Next /\ pick' = pick
  <2>1. NotesOf!NotesInv'
    BY <1>1, NotebookAssumption, NotesSame, NotesOf!NotesInvStep DEF BenchInv
  <2> QED
    BY <1>1, <2>1 DEF BenchInv
<1>2. CASE pick = "undo" /\ Undo!Next /\ pick' = pick
  <2>1. UndoOf!NotesInv'
    BY <1>2, NotebookAssumption, UndoSame, UndoOf!NotesInvStep DEF BenchInv
  <2> QED
    BY <1>2, <2>1 DEF BenchInv
<1>3. CASE pick = "board" /\ Board!Next /\ pick' = pick
  <2>1. BoardInv'
    BY <1>3, BoardStep DEF BenchInv
  <2> QED
    BY <1>3, <2>1 DEF BenchInv
<1>4. CASE pick \notin {"notes", "undo", "board"} /\ pick' = pick
  BY <1>4 DEF BenchInv
<1>5. CASE UNCHANGED vars
  <2>1. pick' = pick /\ UNCHANGED notesVars /\ UNCHANGED boardVars
    BY <1>5 DEF vars
  <2>2. NotesOf!NotesInv => NotesOf!NotesInv'
    BY <2>1, NotesOf!NotesInvStutters DEF notesVars, NotesOf!vars
  <2>3. UndoOf!NotesInv => UndoOf!NotesInv'
    BY <2>1, UndoOf!NotesInvStutters DEF notesVars, UndoOf!vars
  <2>4. BoardInv => BoardInv'
    BY <2>1 DEF boardVars, BoardInv, Board!TypeOK
  <2> QED
    BY <2>1, <2>2, <2>3, <2>4 DEF BenchInv
<1> QED
  BY <1>1, <1>2, <1>3, <1>4, <1>5 DEF Next

LEMMA BenchInvShows ==
  ASSUME BenchInv
  PROVE  WorkbenchSound
<1>1. pick = "notes" => Notes!NotesKept
  BY NotebookAssumption, NotesSame, NotesOf!NotesInvShows DEF BenchInv
<1>2. pick = "undo" => Undo!NotesKept
  BY NotebookAssumption, UndoSame, UndoOf!NotesInvShows DEF BenchInv
<1>3. pick = "board" => Board!IdsHold
  BY BoardInvShows DEF BenchInv
<1> QED
  BY <1>1, <1>2, <1>3 DEF WorkbenchSound

\* For any number of consoles, tabs, versions and issues: unless saves overlapped the
\* notebook is whole, has the operator's tabs and permissions, and undo leads back through
\* the texts the agent replaced; an issue's id means that issue or none.
THEOREM WorkbenchHolds == Spec => []WorkbenchSound
<1>1. Init => BenchInv
  BY BenchInvInit
<1>2. BenchInv /\ [Next]_vars => BenchInv'
  BY BenchInvStep
<1>3. BenchInv => WorkbenchSound
  BY BenchInvShows
<1> QED
  BY <1>1, <1>2, <1>3, PTL DEF Spec

-----------------------------------------------------------------------------
(* The process's types, for any number of workers *)

\* No backend is named that was not built, and no secret is of a call never made.
HostBounds ==
  /\ calls <= MaxCalls /\ secrets <= MaxCalls + 1 /\ torn \in BOOLEAN
  /\ sched <= built /\ polling <= built
  /\ \A i \in DOMAIN posted : posted[i][2] <= built
CallBound(c) == c.rev <= calls /\ c.next <= built /\ c.start <= built /\ c.stop <= built
HostSafe ==
  /\ HostType /\ HostBounds
  /\ \A t \in Workers : HasRead(call[t]) /\ CallBound(call[t])

\* The record d of a call keeps to the counters, which do not fall.
Follows(d) ==
  /\ HasRead(d)
  /\ d.rev <= calls' /\ d.next <= built' /\ d.start <= built' /\ d.stop <= built'
  /\ calls' \in Nat /\ built' \in Nat /\ calls <= calls' /\ built <= built'

LEMMA HostSafeInit == Init => HostSafe
<1> SUFFICES ASSUME Init PROVE HostSafe
  OBVIOUS
<1>1. HostType
  BY HostInit DEF HostInv
<1>2. HostBounds
  <2>1. MaxCalls \in Nat
    BY ReloadAssumption DEF Host!ReloadAssumption
  <2>2. Host!Init
    BY DEF Init
  <2>3. torn \in BOOLEAN
    BY <2>2 DEF Host!Init
  <2>4. calls = 0 /\ secrets = 0 /\ sched = 0 /\ polling = 0 /\ built = 0 /\ posted = <<>>
    BY <2>2 DEF Host!Init, Host!NoBackend
  <2> QED
    BY <2>1, <2>3, <2>4 DEF HostBounds
<1>3. \A t \in Workers : call[t] = Host!Idle
  BY DEF Init, Host!Init
<1>4. HasRead(Host!Idle) /\ CallBound(Host!Idle)
  BY DEF Init, Host!Init, HasRead, CallBound, Host!Idle, Host!NoBackend
<1> QED
  BY <1>1, <1>2, <1>3, <1>4 DEF HostSafe

\* One call moves: the others keep what they have while the counters only grow.
LEMMA HostSafeCalls ==
  ASSUME HostSafe, NEW t \in Workers, Host!Step(t)
  PROVE  HostSafe'
<1> DEFINE c == call[t]
<1>1. /\ HostType /\ HostBounds /\ HasRead(c) /\ CallBound(c) /\ c \in CallRecord
      /\ call \in [Workers -> CallRecord]
      /\ calls \in Nat /\ built \in Nat /\ sched \in Nat /\ polling \in Nat /\ secrets \in Nat
      /\ MaxCalls \in Nat
  BY ReloadAssumption DEF HostSafe, HostType, Host!ReloadAssumption
<1>2. HostType'
  BY <1>1, HostTypeCalls
<1>3. /\ c.rev \in Nat /\ c.next \in Nat /\ c.start \in Nat /\ c.stop \in Nat
      /\ c.rev <= calls /\ c.next <= built /\ c.start <= built /\ c.stop <= built
  BY <1>1 DEF CallRecord, CallBound
<1>4. ASSUME NEW d \in CallRecord, call' = [call EXCEPT ![t] = d], Follows(d), HostBounds'
      PROVE  HostSafe'
  <2>1. call'[t] = d /\ \A u \in Workers \ {t} : call'[u] = call[u]
    BY <1>1, <1>4
  <2>2. ASSUME NEW u \in Workers \ {t} PROVE HasRead(call[u])' /\ CallBound(call[u])'
    <3>1. call[u] \in CallRecord /\ HasRead(call[u]) /\ CallBound(call[u])
      BY <1>1 DEF HostSafe
    <3>2. call[u].rev \in Nat /\ call[u].next \in Nat /\ call[u].start \in Nat
          /\ call[u].stop \in Nat
      BY <3>1 DEF CallRecord
    <3> QED
      BY <1>1, <1>4, <2>1, <3>1, <3>2 DEF HasRead, CallBound, Follows
  <2>3. HasRead(call[t])' /\ CallBound(call[t])'
    BY <1>4, <2>1 DEF HasRead, CallBound, Follows
  <2> QED
    BY <1>2, <1>4, <2>2, <2>3 DEF HostSafe
<1>5. ASSUME UNCHANGED <<calls, built, secrets, torn, sched, polling, posted>>,
             \/ call' = [call EXCEPT ![t] = Host!Idle]
             \/ \E p \in Pcs : call' = [call EXCEPT ![t].pc = p]
                                 /\ (p \in {"plan", "build", "commit", "swap"} => c.cfg \in Host!Conf)
      PROVE  HostSafe'
  <2>1. HostBounds'
    BY <1>1, <1>5 DEF HostBounds
  <2>2. CASE call' = [call EXCEPT ![t] = Host!Idle]
    <3>1. HasRead(Host!Idle) /\ Host!Idle.rev = 0 /\ Host!Idle.next = 0 /\ Host!Idle.start = 0
          /\ Host!Idle.stop = 0
      BY DEF HasRead, Host!Idle, Host!NoBackend
    <3>2. Follows(Host!Idle)
      BY <1>1, <1>5, <3>1 DEF Follows
    <3> QED
      BY <1>4, <2>1, <2>2, <3>2, IdleRecord
  <2>3. ASSUME NEW p \in Pcs, call' = [call EXCEPT ![t].pc = p],
               p \in {"plan", "build", "commit", "swap"} => c.cfg \in Host!Conf
        PROVE  HostSafe'
    <3> DEFINE d == [c EXCEPT !.pc = p]
    <3>1. d.pc = p /\ d.cfg = c.cfg /\ d.rev = c.rev /\ d.next = c.next /\ d.start = c.start
          /\ d.stop = c.stop
      BY <1>1 DEF CallRecord
    <3>2. call' = [call EXCEPT ![t] = d]
      BY <2>3
    <3>3. HasRead(d)
      BY <2>3, <3>1 DEF HasRead
    <3>4. d \in CallRecord
      BY <1>1, CallMoves
    <3> HIDE DEF d
    <3>5. Follows(d)
      BY <1>1, <1>3, <1>5, <3>1, <3>3 DEF Follows
    <3> QED
      BY <1>4, <2>1, <3>2, <3>4, <3>5
  <2> QED
    BY <1>5, <2>2, <2>3
<1>6. ASSUME NEW kind, NEW switch, NEW secret, Host!Request(t, kind, switch, secret)
      PROVE  HostSafe'
  <2> DEFINE d == [Host!Idle EXCEPT !.pc = IF kind = "reload" THEN "config" ELSE "secrets",
                       !.kind = kind, !.rev = calls + 1, !.switch = switch, !.secret = secret]
  <2>1. call' = [call EXCEPT ![t] = d] /\ calls' = calls + 1 /\ calls < MaxCalls
        /\ UNCHANGED <<built, secrets, torn, sched, polling, posted>>
    BY <1>6 DEF Host!Request, Host!files, Host!memory, Host!loop, Host!history
  <2>2. d.rev = calls + 1 /\ d.next = 0 /\ d.start = 0 /\ d.stop = 0 /\ HasRead(d)
    BY DEF Host!Idle, Host!NoBackend, HasRead
  <2>3. HostBounds'
    BY <1>1, <2>1 DEF HostBounds
  <2>4. d \in CallRecord
    BY <2>1, <1>2, <1>1 DEF HostType
  <2> HIDE DEF d
  <2>5. Follows(d)
    BY <1>1, <2>1, <2>2 DEF Follows
  <2> QED
    BY <1>4, <2>1, <2>3, <2>4, <2>5
<1>7. CASE Host!SaveSecrets(t)
  <2>1. UNCHANGED <<calls, built, torn, sched, polling, posted>>
        /\ secrets' \in {secrets, c.rev + 1}
    BY <1>7 DEF Host!SaveSecrets, Host!memory, Host!loop, Host!counters
  <2>2. HostBounds'
    BY <1>1, <1>3, <2>1 DEF HostBounds
  <2>3. CASE call' = [call EXCEPT ![t] = Host!Idle]
    <3>1. HasRead(Host!Idle) /\ Host!Idle.rev = 0 /\ Host!Idle.next = 0 /\ Host!Idle.start = 0
          /\ Host!Idle.stop = 0
      BY DEF HasRead, Host!Idle, Host!NoBackend
    <3>2. Follows(Host!Idle)
      BY <1>1, <2>1, <3>1 DEF Follows
    <3> QED
      BY <1>4, <2>2, <2>3, <3>2, IdleRecord
  <2>4. CASE call' = [call EXCEPT ![t].pc = "doc"]
    <3> DEFINE d == [c EXCEPT !.pc = "doc"]
    <3>1. d.pc = "doc" /\ d.rev = c.rev /\ d.next = c.next /\ d.start = c.start
          /\ d.stop = c.stop
      BY <1>1 DEF CallRecord
    <3>2. call' = [call EXCEPT ![t] = d]
      BY <2>4
    <3>3. HasRead(d)
      BY <3>1 DEF HasRead
    <3>4. d \in CallRecord
      BY <1>1, CallMoves DEF Pcs
    <3> HIDE DEF d
    <3>5. Follows(d)
      BY <1>1, <1>3, <2>1, <3>1, <3>3 DEF Follows
    <3> QED
      BY <1>4, <2>2, <3>2, <3>4, <3>5
  <2> QED
    BY <1>7, <2>3, <2>4 DEF Host!SaveSecrets, Host!Goto, Host!Reply
<1>8. CASE Host!LoadDoc(t)
  <2>1. PICK doc : call' = [call EXCEPT ![t].pc = "open", ![t].doc = doc]
    BY <1>8 DEF Host!LoadDoc
  <2> DEFINE d == [c EXCEPT !.pc = "open", !.doc = doc]
  <2>2. d.pc = "open" /\ d.rev = c.rev /\ d.next = c.next /\ d.start = c.start
        /\ d.stop = c.stop
    BY <1>1 DEF CallRecord
  <2>3. call' = [call EXCEPT ![t] = d] /\ HasRead(d)
    BY <2>1, <2>2 DEF HasRead
  <2>4. UNCHANGED <<calls, built, secrets, torn, sched, polling, posted>>
    BY <1>8 DEF Host!LoadDoc, Host!files, Host!memory, Host!loop, Host!counters, Host!history
  <2>5. HostBounds'
    BY <1>1, <2>4 DEF HostBounds
  <2>6. d \in CallRecord
    BY <1>1, <1>2, <2>3 DEF HostType
  <2> HIDE DEF d
  <2>7. Follows(d)
    BY <1>1, <1>3, <2>2, <2>3, <2>4 DEF Follows
  <2> QED
    BY <1>4, <2>3, <2>5, <2>6, <2>7
<1>9. CASE \/ Host!OpenYaml(t) \/ Host!WriteYaml(t) \/ Host!WriteSoul(t) \/ Host!MarkComplete(t)
           \/ Host!Undo(t)
  <2>1. UNCHANGED <<calls, built, secrets, torn, sched, polling, posted>>
    BY <1>9 DEF Host!OpenYaml, Host!WriteYaml, Host!WriteSoul, Host!MarkComplete, Host!Undo,
       Host!files, Host!memory, Host!loop, Host!counters, Host!history
  <2>2. \/ call' = [call EXCEPT ![t] = Host!Idle]
        \/ \E p \in {"write", "soul", "mark", "config"} : call' = [call EXCEPT ![t].pc = p]
    BY <1>9 DEF Host!OpenYaml, Host!WriteYaml, Host!WriteSoul, Host!MarkComplete, Host!Undo,
       Host!Goto, Host!Reply
  <2> QED
    BY <1>5, <2>1, <2>2 DEF Pcs
<1>10. CASE Host!ReadConfig(t)
  <2>1. UNCHANGED <<calls, built, secrets, torn, sched, polling, posted>>
    BY <1>10 DEF Host!ReadConfig, Host!files, Host!memory, Host!loop, Host!counters, Host!history
  <2>2. CASE call' = [call EXCEPT ![t].pc = "undo"]
    BY <1>5, <2>1, <2>2 DEF Pcs
  <2>3. ASSUME NEW doc \in Host!Readable, Host!Planned(t, Host!Load(doc)) PROVE HostSafe'
    <3> DEFINE cfg == Host!Load(doc)
               d == [c EXCEPT !.pc = "plan", !.cfg = cfg]
    <3>1. cfg \in Host!Conf
      BY <1>1, Loads
    <3>2. call' = [call EXCEPT ![t] = d]
      BY <2>3 DEF Host!Planned
    <3> HIDE DEF cfg
    <3>3. d.cfg = cfg /\ d.rev = c.rev /\ d.next = c.next /\ d.start = c.start
          /\ d.stop = c.stop
      BY <1>1 DEF CallRecord
    <3>4. HasRead(d)
      BY <3>1, <3>3 DEF HasRead
    <3>5. HostBounds'
      BY <1>1, <2>1 DEF HostBounds
    <3>6. d \in CallRecord
      BY <1>1, <3>1, CallMoves
    <3> HIDE DEF d
    <3>7. Follows(d)
      BY <1>1, <1>3, <2>1, <3>3, <3>4 DEF Follows
    <3> QED
      BY <1>4, <3>2, <3>5, <3>6, <3>7
  <2> QED
    BY <1>10, <2>2, <2>3 DEF Host!ReadConfig, Host!Goto
<1>11. CASE Host!PlanScheduler(t)
  <2>1. PICK ok \in BOOLEAN :
          LET cfg == c.cfg
              new == IF sched = 0 THEN Host!BuildScheduler(cfg, ok) ELSE 0
          IN /\ call' = [call EXCEPT
                  ![t].pc = "build",
                  ![t].next = IF sched = 0 THEN new ELSE IF cfg.sched THEN sched ELSE 0,
                  ![t].start = new,
                  ![t].stop = IF cfg.sched THEN 0 ELSE sched]
             /\ built' = IF new # 0 THEN new ELSE built
    BY <1>11 DEF Host!PlanScheduler, Host!NoBackend
  <2> DEFINE new == IF sched = 0 THEN Host!BuildScheduler(c.cfg, ok) ELSE 0
             next == IF sched = 0 THEN new ELSE IF c.cfg.sched THEN sched ELSE 0
             stop == IF c.cfg.sched THEN 0 ELSE sched
             d == [c EXCEPT !.pc = "build", !.next = next, !.start = new, !.stop = stop]
  <2>2. new \in {0, built + 1} /\ next \in {0, new, sched} /\ stop \in {0, sched}
    BY DEF Host!BuildScheduler, Host!NoBackend
  <2>3. call' = [call EXCEPT ![t] = d] /\ built' = (IF new # 0 THEN new ELSE built)
    BY <2>1
  <2> HIDE DEF new, next, stop
  <2>4. d.pc = "build" /\ d.cfg = c.cfg /\ d.rev = c.rev /\ d.next = next /\ d.start = new
        /\ d.stop = stop
    BY <1>1 DEF CallRecord
  <2>5. HasRead(d)
    BY <1>1, <1>11, <2>4 DEF HasRead, Host!PlanScheduler
  <2>6. UNCHANGED <<calls, secrets, torn, sched, polling, posted>>
    BY <1>11 DEF Host!PlanScheduler, Host!files, Host!memory, Host!loop, Host!history
  <2>7. new \in Nat /\ new <= built' /\ built' \in Nat /\ built <= built' /\ sched <= built
    BY <1>1, <2>2, <2>3 DEF HostBounds
  <2>8. HostBounds'
    <3>1. \A i \in DOMAIN posted : posted[i][2] \in Nat
      <4>1. \A i \in DOMAIN posted : posted[i] \in {"start", "stop"} \X Backend
        BY <1>1 DEF HostType
      <4> QED
        BY <4>1 DEF Backend
    <3> QED
      BY <1>1, <2>6, <2>7, <3>1 DEF HostBounds
  <2> HIDE DEF d
  <2>9. next <= built' /\ stop <= built'
    BY <1>1, <2>2, <2>7
  <2>10. d \in CallRecord
    BY <1>1, <1>2, <2>3 DEF HostType
  <2>11. Follows(d)
    BY <1>1, <1>3, <2>4, <2>5, <2>6, <2>7, <2>9 DEF Follows
  <2> QED
    BY <1>4, <2>3, <2>8, <2>10, <2>11
<1>12. CASE Host!Build(t)
  <2>1. UNCHANGED <<calls, built, secrets, torn, sched, polling, posted>>
    BY <1>12 DEF Host!Build, Host!files, Host!memory, Host!loop, Host!counters, Host!history
  <2>2. CASE call' = [call EXCEPT ![t].pc = "undo"]
    BY <1>5, <2>1, <2>2 DEF Pcs
  <2>3. ASSUME NEW ps, NEW g, Host!Built(t, ps, g) PROVE HostSafe'
    <3> DEFINE d == [c EXCEPT !.pc = "commit", !.parts = ps, !.graph = g]
    <3>1. call' = [call EXCEPT ![t] = d]
      BY <2>3 DEF Host!Built
    <3>2. d.cfg = c.cfg /\ d.rev = c.rev /\ d.next = c.next /\ d.start = c.start
          /\ d.stop = c.stop
      BY <1>1 DEF CallRecord
    <3>3. HasRead(d)
      BY <1>1, <1>12, <3>2 DEF HasRead, Host!Build
    <3>4. HostBounds'
      BY <1>1, <2>1 DEF HostBounds
    <3>5. d \in CallRecord
      BY <1>1, <1>2, <3>1 DEF HostType
    <3> HIDE DEF d
    <3>6. Follows(d)
      BY <1>1, <1>3, <2>1, <3>2, <3>3 DEF Follows
    <3> QED
      BY <1>4, <3>1, <3>4, <3>5, <3>6
  <2> QED
    BY <1>12, <2>2, <2>3 DEF Host!Build, Host!Goto
<1>13. CASE Host!Commit(t)
  <2>1. UNCHANGED <<calls, built, secrets, torn, sched, polling, posted>>
        /\ call' = [call EXCEPT ![t].pc = "swap"] /\ c.pc = "commit"
    BY <1>13 DEF Host!Commit, Host!files, Host!loop, Host!counters, Host!history, Host!Goto
  <2>2. c.cfg \in Host!Conf
    BY <1>1, <2>1 DEF HasRead
  <2> QED
    BY <1>5, <2>1, <2>2 DEF Pcs
<1>14. CASE Host!Swap(t)
  <2> DEFINE M == {"start", "stop"} \X Backend
             S == IF c.stop # 0 THEN << <<"stop", c.stop>> >> ELSE <<>>
             T == IF c.start # 0 THEN << <<"start", c.start>> >> ELSE <<>>
  <2>1. /\ UNCHANGED <<calls, built, secrets, torn, polling>> /\ sched' = c.next
        /\ posted' = posted \o S \o T /\ call' = [call EXCEPT ![t] = Host!Idle]
    BY <1>14 DEF Host!Swap, Host!files, Host!counters, Host!history, Host!NoBackend, Host!Reply
  <2>2. \A i \in DOMAIN posted' : \/ \E j \in DOMAIN posted : posted'[i] = posted[j]
                                  \/ posted'[i] = <<"stop", c.stop>>
                                  \/ posted'[i] = <<"start", c.start>>
    <3>1. posted \in Seq(M)
      BY <1>1 DEF HostType
    <3>2. \E X, Y : S \in {<<>>, <<X>>} /\ T \in {<<>>, <<Y>>} /\ X = <<"stop", c.stop>>
                      /\ Y = <<"start", c.start>>
      OBVIOUS
    <3> HIDE DEF M, S, T
    <3> QED
      BY <2>1, <3>1, <3>2, SMTT(30)
  <2>3. HostBounds'
    <3>1. \A i \in DOMAIN posted' : posted'[i][2] <= built
      BY <1>1, <1>3, <2>2 DEF HostBounds
    <3> HIDE DEF S, T
    <3> QED
      BY <1>1, <1>3, <2>1, <3>1 DEF HostBounds
  <2>4. HasRead(Host!Idle) /\ Host!Idle.rev = 0 /\ Host!Idle.next = 0 /\ Host!Idle.start = 0
        /\ Host!Idle.stop = 0
    BY DEF HasRead, Host!Idle, Host!NoBackend
  <2>5. Follows(Host!Idle)
    BY <1>1, <2>1, <2>4 DEF Follows
  <2> QED
    BY <1>4, <2>1, <2>3, <2>5, IdleRecord
<1> QED
  BY <1>6, <1>7, <1>8, <1>9, <1>10, <1>11, <1>12, <1>13, <1>14 DEF Host!Step

LEMMA HostSafeStep ==
  ASSUME HostSafe, [Host!Next]_hostVars
  PROVE  HostSafe'
<1>1. /\ HostType /\ HostBounds /\ call \in [Workers -> CallRecord]
      /\ calls \in Nat /\ built \in Nat /\ sched \in Nat /\ polling \in Nat /\ secrets \in Nat
      /\ \A t \in Workers : HasRead(call[t]) /\ CallBound(call[t]) /\ call[t] \in CallRecord
  BY DEF HostSafe, HostType
<1>2. \A i \in DOMAIN posted : posted[i] \in {"start", "stop"} \X Backend
  BY <1>1 DEF HostType
<1>3. \A i \in DOMAIN posted : posted[i][2] \in Nat \ {0}
  BY <1>2 DEF Backend
<1>4. ASSUME HostType', HostBounds', calls' = calls, built' \in Nat, built <= built',
             call' = call
      PROVE  HostSafe'
  <2>1. ASSUME NEW t \in Workers PROVE HasRead(call[t])' /\ CallBound(call[t])'
    <3>1. call[t].rev \in Nat /\ call[t].next \in Nat /\ call[t].start \in Nat
          /\ call[t].stop \in Nat
      BY <1>1 DEF CallRecord
    <3> QED
      BY <1>1, <1>4, <3>1 DEF HasRead, CallBound
  <2> QED
    BY <1>4, <2>1 DEF HostSafe
<1>5. CASE Host!Boot
  <2>1. PICK doc \in Host!Readable, failed \in Failures, ok \in BOOLEAN :
          LET cfg == Host!Load(doc)
              ready == marker \/ headless
              ps == IF ready THEN Host!Assemble(failed) ELSE {}
              backend == IF ready THEN Host!BuildScheduler(cfg, ok) ELSE Host!NoBackend
          IN /\ marker' = ready
             /\ conf' = cfg /\ bearer' = cfg
             /\ graph' = IF ready THEN Host!Compile(cfg, ps, backend, TRUE) ELSE Null
             /\ parts' = ps
             /\ sched' = backend
             /\ polling' = backend
             /\ built' = IF backend # Host!NoBackend THEN backend ELSE built
    BY <1>5 DEF Host!Boot, Host!StartupHook
  <2> DEFINE cfg == Host!Load(doc)
             ready == marker \/ headless
             ps == IF ready THEN Host!Assemble(failed) ELSE {}
             backend == IF ready THEN Host!BuildScheduler(cfg, ok) ELSE 0
  <2>2. cfg \in Host!Conf /\ ps \in SUBSET Host!Parts /\ ready \in BOOLEAN
    BY <1>1, Loads DEF Host!Assemble, HostType
  <2>3. backend \in {0, built + 1}
    BY DEF Host!BuildScheduler, Host!NoBackend
  <2>4. /\ marker' = ready /\ conf' = cfg /\ bearer' = cfg /\ parts' = ps
        /\ graph' = (IF ready THEN Host!Compile(cfg, ps, backend, TRUE) ELSE Null)
        /\ sched' = backend /\ polling' = backend
        /\ built' = (IF backend # 0 THEN backend ELSE built)
    BY <2>1 DEF Host!NoBackend
  <2> HIDE DEF cfg, ready, ps, backend
  <2>5. Host!Compile(cfg, ps, backend, TRUE) \in Host!Graph
    <3>1. backend \in Nat /\ TRUE \in BOOLEAN
      BY <1>1, <2>3
    <3> QED
      BY <2>2, <3>1, Compiles
  <2>6. UNCHANGED <<yaml, secrets, headless, ending, posted, call, calls, torn>> /\ up' = TRUE
    BY <1>5 DEF Host!Boot, Host!history
  <2>7. built' \in Nat /\ built <= built' /\ backend \in Nat /\ backend <= built'
    BY <1>1, <2>3, <2>4
  <2>8. HostType'
    BY <1>1, <2>2, <2>4, <2>5, <2>6, <2>7 DEF HostType
  <2>9. HostBounds'
    BY <1>1, <1>3, <2>4, <2>6, <2>7 DEF HostBounds
  <2> QED
    BY <1>4, <2>6, <2>7, <2>8, <2>9
<1>6. CASE Host!Stop
  <2>1. /\ conf' = Null /\ bearer' = Null /\ graph' = Null /\ parts' = {}
        /\ sched' = 0 /\ polling' = 0 /\ posted' = <<>>
        /\ call' = [t \in Workers |-> Host!Idle]
        /\ UNCHANGED <<yaml, secrets, marker, headless, calls, built>>
    BY <1>6 DEF Host!Stop, Host!NoBackend, Host!files, Host!counters
  <2>2. up' \in BOOLEAN /\ ending' \in BOOLEAN
    BY <1>6 DEF Host!Stop
  <2>3. torn' \in BOOLEAN
    BY <1>6 DEF Host!Stop
  <2>4. call' \in [Workers -> CallRecord]
    BY <2>1, IdleRecord
  <2>5. posted' \in Seq({"start", "stop"} \X Backend)
    BY <2>1
  <2>6. HostType'
    BY <1>1, <2>1, <2>2, <2>4, <2>5 DEF HostType
  <2>7. HostBounds'
    BY <1>1, <2>1, <2>3 DEF HostBounds
  <2>8. HasRead(Host!Idle) /\ Host!Idle.rev = 0 /\ Host!Idle.next = 0 /\ Host!Idle.start = 0
        /\ Host!Idle.stop = 0
    BY DEF HasRead, Host!Idle, Host!NoBackend
  <2>9. \A t \in Workers : call'[t] = Host!Idle
    BY <2>1
  <2>10. \A t \in Workers : HasRead(call[t])' /\ CallBound(call[t])'
    BY <1>1, <2>1, <2>8, <2>9 DEF HasRead, CallBound
  <2> QED
    BY <2>6, <2>7, <2>10 DEF HostSafe
<1>7. CASE Host!ResetSetup
  <2>1. marker' = FALSE
        /\ UNCHANGED <<yaml, secrets, headless, up, conf, bearer, graph, parts, sched, polling,
                       ending, posted, call, calls, built, torn>>
    BY <1>7 DEF Host!ResetSetup, Host!memory, Host!loop, Host!counters, Host!history
  <2>2. HostType'
    BY <1>1, <2>1 DEF HostType
  <2>3. HostBounds'
    BY <1>1, <2>1 DEF HostBounds
  <2> QED
    BY <1>1, <1>4, <2>1, <2>2, <2>3
<1>8. ASSUME NEW t \in Workers, Host!Step(t) PROVE HostSafe'
  BY <1>8, HostSafeCalls
<1>9. CASE Host!RunStart \/ Host!RunStop
  <2>1. /\ UNCHANGED <<yaml, secrets, marker, headless, up, conf, bearer, graph, parts, sched,
                       call, calls, built, torn>>
        /\ posted # <<>> /\ posted' = Tail(posted)
        /\ polling' \in {polling, Head(posted)[2]}
    BY <1>9 DEF Host!RunStart, Host!RunStop, Host!files, Host!memory, Host!counters, Host!history
  <2>2. ending' \in BOOLEAN
    BY <1>1, <1>9 DEF Host!RunStart, Host!RunStop, HostType
  <2> DEFINE M == {"start", "stop"} \X Backend
  <2>3. posted \in Seq(M)
    BY <1>1 DEF HostType
  <2>4. Head(posted) = posted[1] /\ 1 \in DOMAIN posted /\ Tail(posted) \in Seq(M)
        /\ \A i \in DOMAIN Tail(posted) : i + 1 \in DOMAIN posted /\ Tail(posted)[i] = posted[i + 1]
    <3> HIDE DEF M
    <3> QED
      BY <2>1, <2>3
  <2>5. polling' \in Nat /\ polling' <= built
    BY <1>1, <1>3, <2>1, <2>4 DEF HostBounds
  <2>6. HostType'
    BY <1>1, <2>1, <2>2, <2>4, <2>5 DEF HostType
  <2>7. HostBounds'
    BY <1>1, <2>1, <2>4, <2>5 DEF HostBounds
  <2> QED
    BY <1>1, <1>4, <2>1, <2>6, <2>7
<1>10. CASE Host!StopEnds \/ UNCHANGED hostVars
  <2>1. /\ UNCHANGED <<yaml, secrets, marker, headless, up, conf, bearer, graph, parts, sched,
                       call, calls, built, torn, posted>>
        /\ polling' \in {0, polling} /\ ending' \in {FALSE, ending}
    BY <1>10 DEF Host!StopEnds, Host!NoBackend, Host!files, Host!memory, Host!counters,
       Host!history, hostVars
  <2>2. ending' \in BOOLEAN
    BY <1>1, <2>1 DEF HostType
  <2>3. HostType'
    BY <1>1, <2>1, <2>2 DEF HostType
  <2>4. HostBounds'
    BY <1>1, <2>1 DEF HostBounds
  <2> QED
    BY <1>1, <1>4, <2>1, <2>3, <2>4
<1> QED
  BY <1>5, <1>6, <1>7, <1>8, <1>9, <1>10 DEF Host!Next

LEMMA HostSafeShows ==
  ASSUME HostSafe
  PROVE  Host!TypeOK
<1>1. HostType /\ HostBounds /\ MaxCalls \in Nat
  BY ReloadAssumption DEF HostSafe, Host!ReloadAssumption
<1>2. \A t \in Workers : call[t].pc \in Pcs
  BY <1>1 DEF HostType, CallRecord
<1>3. \A i \in DOMAIN posted : posted[i] \in {"start", "stop"} \X (1..built)
  <2>1. \A i \in DOMAIN posted : posted[i] \in {"start", "stop"} \X Backend
    BY <1>1 DEF HostType
  <2> QED
    BY <1>1, <2>1 DEF Backend, HostBounds, HostType
<1>4. yaml \in Host!Doc \union {Torn} /\ {conf, bearer} \subseteq Host!Conf \union {Null}
      /\ graph \in Host!Graph \union {Null} /\ parts \subseteq Host!Parts
  BY <1>1 DEF HostType
<1>5. {marker, headless, up, ending, torn} \subseteq BOOLEAN
  BY <1>1 DEF HostType, HostBounds
<1>6. secrets \in 0..(MaxCalls + 1) /\ {sched, polling} \subseteq 0..built
  BY <1>1 DEF HostType, HostBounds
<1> QED
  BY <1>2, <1>3, <1>4, <1>5, <1>6 DEF Host!TypeOK, Pcs

-----------------------------------------------------------------------------
(* The threads' bounds *)

\* What a turn is, seen from its bounds: runs within theirs, a question while it is parked.
TurnBound(r) == r.runs <= MaxRuns /\ (r.ask = Nobody <=> r.pc # "parked")
SavedBound(cp) == cp.n <= Keep + 1 /\ cp.at <= MaxTime
ChatBounds ==
  /\ now <= MaxTime
  /\ \A th \in Chat!Threads : SavedBound(saved[th])
  /\ \A t \in Turns : TurnBound(turn[t])

LEMMA ChatBoundsInit == Init => ChatBounds
<1> SUFFICES ASSUME Chat!Init PROVE ChatBounds
  BY DEF Init
<1>1. Keep \in Nat /\ MaxTime \in Nat /\ MaxRuns \in Nat
  BY ThreadAssumption DEF Chat!ThreadAssumption
<1>2. SavedBound(Chat!Empty) /\ TurnBound(Chat!NewTurn)
  BY <1>1 DEF SavedBound, TurnBound, Chat!Empty, Chat!NewTurn
<1> QED
  BY <1>1, <1>2 DEF Chat!Init, ChatBounds

LEMMA ChatBoundsStep ==
  ASSUME ChatType, ChatBounds, [Chat!Next]_chatVars
  PROVE  ChatBounds'
<1>1. /\ Keep \in Nat /\ MaxTime \in Nat /\ MaxRuns \in Nat
      /\ now \in Nat /\ now <= MaxTime
      /\ saved \in [Chat!Threads -> SavedRecord] /\ turn \in [Turns -> TurnRecord]
      /\ \A th \in Chat!Threads : saved[th] \in SavedRecord /\ SavedBound(saved[th])
      /\ \A t \in Turns : turn[t] \in TurnRecord /\ TurnBound(turn[t])
  BY ThreadAssumption DEF ChatType, ChatBounds, Chat!ThreadAssumption
\* One thread is saved, one turn moves.
<1>2. ASSUME NEW t \in Turns, NEW r, turn' = [turn EXCEPT ![t] = r], TurnBound(r)
      PROVE  \A u \in Turns : TurnBound(turn'[u])
  <2> SUFFICES ASSUME NEW u \in Turns PROVE TurnBound(turn'[u])
    OBVIOUS
  <2>1. CASE u = t
    BY <1>1, <1>2, <2>1
  <2>2. CASE u # t
    BY <1>1, <1>2, <2>2
  <2> QED
    BY <2>1, <2>2
<1>3. ASSUME NEW th \in Chat!Threads, NEW said, NEW ask, Chat!Save(th, said, ask)
      PROVE  \A u \in Chat!Threads : SavedBound(saved'[u])
  <2> DEFINE cp == [n |-> IF saved[th].n <= Keep THEN saved[th].n + 1 ELSE saved[th].n,
                    at |-> now, said |-> said, ask |-> ask]
  <2>1. saved' = [saved EXCEPT ![th] = cp]
    BY <1>1, <1>3 DEF Chat!Save
  <2>2. SavedBound(cp)
    BY <1>1 DEF SavedBound, SavedRecord
  <2> HIDE DEF cp
  <2> SUFFICES ASSUME NEW u \in Chat!Threads PROVE SavedBound(saved'[u])
    OBVIOUS
  <2>3. CASE u = th
    BY <1>1, <2>1, <2>2, <2>3
  <2>4. CASE u # th
    BY <1>1, <2>1, <2>4
  <2> QED
    BY <2>3, <2>4
<1>4. ASSUME NEW t \in Turns, NEW th \in Chat!Threads, NEW way, NEW n, Chat!Message(t, th, way, n)
      PROVE  ChatBounds'
  <2> DEFINE r == [Chat!NewTurn EXCEPT !.pc = "run", !.th = th, !.via = way,
                                       !.said = saved[th].said \union {t}, !.runs = n]
  <2>1. turn' = [turn EXCEPT ![t] = r] /\ now' = now
        /\ Chat!Save(th, saved[th].said \union {t}, Nobody)
    BY <1>4 DEF Chat!Message
  <2>2. TurnBound(r)
    BY <1>4 DEF Chat!Message, TurnBound, Chat!NewTurn
  <2> HIDE DEF r
  <2>3. \A u \in Turns : TurnBound(turn'[u])
    BY <1>2, <2>1, <2>2
  <2>4. \A u \in Chat!Threads : SavedBound(saved'[u])
    BY <1>3, <2>1
  <2> QED
    BY <1>1, <2>1, <2>3, <2>4 DEF ChatBounds
<1>5. ASSUME NEW t \in Turns, Chat!Begin(t) PROVE ChatBounds'
  <2>1. PICK way \in {"a2a", "gradio"}, s \in Sessions :
          \E th \in Chat!ThreadOf(way, s) : Chat!Message(t, th, way, 1)
    BY <1>5 DEF Chat!Begin
  <2>2. PICK th \in Chat!ThreadOf(way, s) : Chat!Message(t, th, way, 1)
    BY <2>1
  <2>3. th \in Chat!Threads
    BY DEF Chat!ThreadOf, Chat!Threads
  <2> QED
    BY <1>4, <2>2, <2>3
<1>6. ASSUME NEW t \in Turns, Chat!Again(t) PROVE ChatBounds'
  <2>1. turn[t].th \in Chat!Threads
    BY <1>1 DEF TurnRecord
  <2> QED
    BY <1>4, <1>6, <2>1 DEF Chat!Again
<1>7. ASSUME NEW t \in Turns, Chat!Resume(t) PROVE ChatBounds'
  <2> DEFINE th == turn[t].th
             cp == saved[th]
             r == [turn[t] EXCEPT !.pc = IF cp.ask = Nobody THEN "snapshot" ELSE "run",
                                  !.ask = Nobody,
                                  !.said = IF cp.ask = Nobody THEN {} ELSE cp.said \union {t},
                                  !.runs = turn[t].runs + 1]
  <2>1. turn' = [turn EXCEPT ![t] = r] /\ UNCHANGED <<now, saved>> /\ turn[t].runs < MaxRuns
    BY <1>1, <1>7 DEF Chat!Resume
  <2>2. r.runs = turn[t].runs + 1 /\ r.ask = Nobody /\ r.pc \in {"snapshot", "run"}
    BY <1>1 DEF TurnRecord
  <2>3. TurnBound(r)
    BY <1>1, <2>1, <2>2 DEF TurnBound, TurnRecord
  <2> HIDE DEF r
  <2>4. \A u \in Turns : TurnBound(turn'[u])
    BY <1>2, <2>1, <2>3
  <2> QED
    BY <1>1, <2>1, <2>4 DEF ChatBounds
<1>8. ASSUME NEW t \in Turns, turn' = Chat!Done(t), UNCHANGED <<now, saved>> PROVE ChatBounds'
  <2> DEFINE r == [Chat!NewTurn EXCEPT !.pc = "done", !.th = turn[t].th]
  <2>1. turn' = [turn EXCEPT ![t] = r]
    BY <1>8 DEF Chat!Done
  <2>2. TurnBound(r)
    BY <1>1 DEF TurnBound, Chat!NewTurn
  <2> HIDE DEF r
  <2>3. \A u \in Turns : TurnBound(turn'[u])
    BY <1>2, <2>1, <2>2
  <2> QED
    BY <1>1, <1>8, <2>3 DEF ChatBounds
<1>9. ASSUME NEW t \in Turns, NEW ask, Chat!Finish(t, ask) PROVE ChatBounds'
  <2> DEFINE r == [turn[t] EXCEPT !.pc = IF turn[t].via = "a2a" THEN "snapshot" ELSE "judge",
                                  !.said = {}]
  <2>1. turn' = [turn EXCEPT ![t] = r] /\ now' = now /\ turn[t].pc = "run"
        /\ Chat!Save(turn[t].th, turn[t].said, ask) /\ turn[t].th \in Chat!Threads
    BY <1>1, <1>9 DEF Chat!Finish, TurnRecord
  <2>2. r.runs = turn[t].runs /\ r.ask = turn[t].ask /\ r.pc \in {"snapshot", "judge"}
    BY <1>1 DEF TurnRecord
  <2>3. TurnBound(r)
    BY <1>1, <2>1, <2>2 DEF TurnBound
  <2> HIDE DEF r
  <2>4. \A u \in Turns : TurnBound(turn'[u])
    BY <1>2, <2>1, <2>3
  <2>5. \A u \in Chat!Threads : SavedBound(saved'[u])
    BY <1>3, <2>1
  <2> QED
    BY <1>1, <2>1, <2>4, <2>5 DEF ChatBounds
<1>10. ASSUME NEW t \in Turns, Chat!Snapshot(t) PROVE ChatBounds'
  <2>1. PICK q : turn' = [turn EXCEPT ![t].pc = IF q = Nobody THEN "judge" ELSE "parked",
                                       ![t].ask = q]
    BY <1>10 DEF Chat!Snapshot
  <2> DEFINE r == [turn[t] EXCEPT !.pc = IF q = Nobody THEN "judge" ELSE "parked", !.ask = q]
  <2>2. r.runs = turn[t].runs /\ r.ask = q /\ r.pc = (IF q = Nobody THEN "judge" ELSE "parked")
    BY <1>1 DEF TurnRecord
  <2>3. TurnBound(r)
    BY <1>1, <2>2 DEF TurnBound
  <2>4. turn' = [turn EXCEPT ![t] = r] /\ UNCHANGED <<now, saved>>
    BY <1>10, <2>1 DEF Chat!Snapshot
  <2> HIDE DEF r
  <2>5. \A u \in Turns : TurnBound(turn'[u])
    BY <1>2, <2>4, <2>3
  <2> QED
    BY <1>1, <2>4, <2>5 DEF ChatBounds
<1>11. ASSUME NEW j \in DOMAIN job, NEW ok \in BOOLEAN, Chat!Delete(j, ok) PROVE ChatBounds'
  <2>1. SavedBound(Chat!Empty)
    BY <1>1 DEF SavedBound, Chat!Empty
  <2>2. saved' = [saved EXCEPT ![job[j].th] = Chat!Empty] /\ UNCHANGED <<now, turn>>
    BY <1>11 DEF Chat!Delete
  <2>3. \A u \in Chat!Threads : SavedBound(saved'[u])
    BY <1>1, <2>1, <2>2
  <2> QED
    BY <1>1, <2>2, <2>3 DEF ChatBounds
<1>12. CASE Chat!Prune
  <2>1. UNCHANGED <<now, turn>>
        /\ \A u \in Chat!Threads : saved'[u] \in {Chat!Empty, Chat!Capped(saved[u])}
    BY <1>12 DEF Chat!Prune
  <2>2. SavedBound(Chat!Empty)
    BY <1>1 DEF SavedBound, Chat!Empty
  <2>3. ASSUME NEW u \in Chat!Threads PROVE SavedBound(Chat!Capped(saved[u]))
    <3> DEFINE keep == IF Keep = 0 THEN 1 ELSE Keep
    <3>1. Chat!Capped(saved[u]).n = (IF saved[u].n < keep THEN saved[u].n ELSE keep)
          /\ Chat!Capped(saved[u]).at = saved[u].at
      BY <1>1 DEF Chat!Capped, SavedRecord
    <3>2. saved[u].n <= Keep + 1 /\ saved[u].at <= MaxTime
      BY <1>1 DEF SavedBound
    <3> QED
      BY <1>1, <3>1, <3>2 DEF SavedBound
  <2> QED
    BY <1>1, <2>1, <2>2, <2>3 DEF ChatBounds
<1>13. CASE UNCHANGED <<saved, turn>> /\ now' \in {now, now + 1} /\ now' <= MaxTime
  BY <1>1, <1>13 DEF ChatBounds
<1>14. CASE Chat!Tick
  BY <1>1, <1>13, <1>14 DEF Chat!Tick
<1>15. CASE \/ Chat!Sweep \/ \E s \in Sessions : Chat!DeleteTab(s)
            \/ \E j \in DOMAIN job : Chat!JobEnds(j) \/ \E th \in Chat!Threads : Chat!Read(j, th)
            \/ UNCHANGED chatVars
  <2>1. UNCHANGED <<now, saved, turn>>
    BY <1>15 DEF Chat!Sweep, Chat!DeleteTab, Chat!JobEnds, Chat!Read, chatVars
  <2> QED
    BY <1>1, <1>13, <2>1
<1>16. ASSUME NEW t \in Turns, Chat!Shortcut(t) \/ Chat!Abort(t) \/ Chat!Answer(t)
       PROVE  ChatBounds'
  BY <1>8, <1>16 DEF Chat!Shortcut, Chat!Abort, Chat!Answer
<1>17. CASE Chat!Next
  <2>1. CASE \E t \in Turns :
               \/ Chat!Begin(t) \/ Chat!Resume(t) \/ Chat!Shortcut(t)
               \/ Chat!Finish(t, Nobody) \/ Chat!Finish(t, t)
               \/ Chat!Abort(t) \/ Chat!Snapshot(t) \/ Chat!Again(t) \/ Chat!Answer(t)
    BY <1>5, <1>6, <1>7, <1>9, <1>10, <1>16, <2>1
  <2> QED
    BY <1>11, <1>12, <1>14, <1>15, <1>17, <2>1 DEF Chat!Next
<1> QED
  BY <1>15, <1>17

LEMMA ChatShows ==
  ASSUME ChatType, ChatBounds
  PROVE  Chat!TypeOK
<1>1. Keep \in Nat /\ MaxTime \in Nat /\ MaxRuns \in Nat
  BY ThreadAssumption DEF Chat!ThreadAssumption
<1>2. now \in 0..MaxTime /\ knowledge \union dropped \union raced \subseteq Turns
  BY <1>1 DEF ChatType, ChatBounds
<1>3. saved \in [Chat!Threads -> [n : 0..(Keep + 1), at : 0..MaxTime, said : SUBSET Turns,
                                  ask : Turns \union {Nobody}]]
  <2>1. \A th \in Chat!Threads :
          saved[th] \in [n : 0..(Keep + 1), at : 0..MaxTime, said : SUBSET Turns,
                         ask : Turns \union {Nobody}]
    BY <1>1 DEF ChatType, ChatBounds, SavedBound, SavedRecord
  <2> QED
    BY <2>1 DEF ChatType
<1>4. \A t \in Turns :
        /\ turn[t].pc \in {"new", "run", "snapshot", "judge", "parked", "done"}
        /\ turn[t].th \in Chat!Threads /\ turn[t].runs \in 0..MaxRuns
        /\ turn[t].ask = Nobody <=> turn[t].pc # "parked"
  <2> SUFFICES ASSUME NEW t \in Turns
               PROVE  /\ turn[t].pc \in {"new", "run", "snapshot", "judge", "parked", "done"}
                      /\ turn[t].th \in Chat!Threads /\ turn[t].runs \in 0..MaxRuns
                      /\ turn[t].ask = Nobody <=> turn[t].pc # "parked"
    OBVIOUS
  <2>1. turn[t] \in TurnRecord /\ TurnBound(turn[t])
    BY DEF ChatType, ChatBounds
  <2> QED
    BY <1>1, <2>1 DEF TurnRecord, TurnPcs, TurnBound
<1>5. \A j \in {"sweep", "tab"} :
        job[j].pc \in {"idle", "next", "read", "delete"} /\ job[j].todo \subseteq Chat!Threads
  BY DEF ChatType, Jobs, JobRecord
<1> QED
  BY <1>2, <1>3, <1>4, <1>5 DEF Chat!TypeOK

-----------------------------------------------------------------------------
(* The text of a turn *)

Syms == Stream!AllItems \union {"part"}
Begins(s, t) == Len(s) <= Len(t) /\ \A i \in 1..Len(s) : s[i] = t[i]

LEMMA BeginsIs ==
  ASSUME NEW S, NEW s \in Seq(S), NEW t \in Seq(S)
  PROVE  /\ Begins(s, s) /\ (Begins(s, t) <=> Stream!IsPrefix(s, t))
         /\ \A u \in Seq(S) : Begins(s, t) /\ Begins(t, u) => Begins(s, u)
         /\ Grows(s, t) => Begins(s, t)
         /\ Begins(<<>>, s)
<1>1. Len(s) \in Nat /\ Len(t) \in Nat
  OBVIOUS
<1>2. Begins(s, t) <=> Stream!IsPrefix(s, t)
  <2>1. CASE Len(s) <= Len(t)
    <3>1. SubSeq(s, 1, Len(s)) = s /\ SubSeq(t, 1, Len(s)) = [i \in 1..Len(s) |-> t[i]]
      BY <1>1, <2>1
    <3>2. s = [i \in 1..Len(s) |-> s[i]]
      OBVIOUS
    <3> QED
      BY <2>1, <3>1, <3>2 DEF Begins, Stream!IsPrefix
  <2>2. CASE ~ (Len(s) <= Len(t))
    BY <2>2 DEF Begins, Stream!IsPrefix
  <2> QED
    BY <2>1, <2>2
<1>3. ASSUME NEW u \in Seq(S), Begins(s, t), Begins(t, u) PROVE Begins(s, u)
  <2>1. Len(u) \in Nat /\ Len(s) <= Len(t) /\ Len(t) <= Len(u)
    BY <1>3 DEF Begins
  <2>2. \A i \in 1..Len(s) : i \in 1..Len(t)
    BY <1>1, <2>1
  <2> QED
    BY <1>1, <1>3, <2>1, <2>2 DEF Begins
<1>4. Grows(s, t) => Begins(s, t)
  BY <1>1 DEF Grows, Begins
<1>5. Begins(s, s) /\ Begins(<<>>, s)
  BY <1>1 DEF Begins
<1> QED
  BY <1>2, <1>3, <1>4, <1>5

\* Both begin u: the one that is not longer begins the other.
LEMMA BothBegin ==
  ASSUME NEW S, NEW s \in Seq(S), NEW t \in Seq(S), NEW u \in Seq(S), Begins(s, u), Begins(t, u)
  PROVE  /\ Len(s) <= Len(t) => Begins(s, t)
         /\ Len(t) <= Len(s) => Begins(t, s)
<1>1. Len(s) \in Nat /\ Len(t) \in Nat /\ Len(u) \in Nat
  OBVIOUS
<1>2. ASSUME Len(s) <= Len(t) PROVE Begins(s, t)
  <2>1. \A i \in 1..Len(s) : i \in 1..Len(t)
    BY <1>1, <1>2
  <2> QED
    BY <1>2, <2>1 DEF Begins
<1>3. ASSUME Len(t) <= Len(s) PROVE Begins(t, s)
  <2>1. \A i \in 1..Len(t) : i \in 1..Len(s)
    BY <1>1, <1>3
  <2> QED
    BY <1>3, <2>1 DEF Begins
<1> QED
  BY <1>2, <1>3

\* The first place of x in s, or 0.
LEMMA AtIs ==
  ASSUME NEW S, NEW s \in Seq(S), NEW x
  PROVE  /\ Stream!At(s, x) \in 0..Len(s)
         /\ Stream!At(s, x) = 0 <=> \A i \in 1..Len(s) : s[i] # x
         /\ Stream!At(s, x) # 0 =>
              /\ s[Stream!At(s, x)] = x
              /\ \A i \in 1..Len(s) : i < Stream!At(s, x) => s[i] # x
<1> DEFINE Hits == {i \in 1..Len(s) : s[i] = x}
           k == Stream!At(s, x)
<1>1. k = IF Hits # {} THEN CHOOSE i \in Hits : \A j \in Hits : i <= j ELSE 0
  BY DEF Stream!At, Stream!SelectInSeq, Stream!Min
<1>2. CASE Hits = {}
  BY <1>1, <1>2
<1>3. CASE Hits # {}
  <2>1. \A i \in Hits : i \in 1..Len(s) /\ i \in Nat /\ s[i] = x
    OBVIOUS
  <2> DEFINE H == Hits
  <2>2. \E i \in H : \A j \in H : i <= j
    <3>1. H \in SUBSET Nat /\ H # {}
      BY <1>3, <2>1
    <3> HIDE DEF H
    <3> QED
      BY <3>1, LeastMember
  <2>3. k \in Hits /\ \A j \in Hits : k <= j
    <3> HIDE DEF Hits, k
    <3> QED
      BY <1>1, <1>3, <2>2 DEF H
  <2>4. k \in 1..Len(s) /\ s[k] = x
    BY <2>3
  <2>5. \A i \in 1..Len(s) : i < k => s[i] # x
    BY <2>3, <2>4
  <2>6. \E i \in 1..Len(s) : s[i] = x
    BY <2>4
  <2> HIDE DEF k
  <2>7. k # 0 /\ k \in 0..Len(s)
    BY <2>4
  <2> QED
    BY <2>4, <2>5, <2>6, <2>7 DEF k
<1> QED
  BY <1>2, <1>3

LEMMA AtOnly ==
  ASSUME NEW S, NEW s \in Seq(S), NEW x, NEW k \in 1..Len(s), s[k] = x,
         \A i \in 1..Len(s) : i < k => s[i] # x
  PROVE  Stream!At(s, x) = k
<1> DEFINE a == Stream!At(s, x)
<1>1. a \in 0..Len(s) /\ (a = 0 <=> \A i \in 1..Len(s) : s[i] # x)
      /\ (a # 0 => s[a] = x /\ \A i \in 1..Len(s) : i < a => s[i] # x)
  BY AtIs
<1> HIDE DEF a
<1>2. a # 0
  BY <1>1
<1>3. a \in 1..Len(s) /\ a \in Nat /\ k \in Nat
  BY <1>1, <1>2
<1>4. ~ (a < k) /\ ~ (k < a)
  BY <1>1, <1>2, <1>3
<1> QED
  BY <1>3, <1>4 DEF a

\* What stands at the end of a sequence that has grown is found there or before.
LEMMA AtGrows ==
  ASSUME NEW S, NEW s \in Seq(S), NEW t \in Seq(S), Grows(s, t), NEW x
  PROVE  /\ Stream!At(s, x) # 0 => Stream!At(t, x) = Stream!At(s, x)
         /\ Stream!At(s, x) = 0 => Stream!At(t, x) = IF t[Len(t)] = x THEN Len(t) ELSE 0
<1>1. /\ Len(s) \in Nat /\ Len(t) = Len(s) + 1 /\ Len(t) \in 1..Len(t)
      /\ \A i \in 1..Len(s) : t[i] = s[i] /\ i \in 1..Len(t)
      /\ \A i \in 1..Len(t) : i \in 1..Len(s) \/ i = Len(t)
  BY DEF Grows
<1>2. ASSUME Stream!At(s, x) # 0 PROVE Stream!At(t, x) = Stream!At(s, x)
  <2> DEFINE a == Stream!At(s, x)
  <2>1. a \in 0..Len(s) /\ s[a] = x /\ \A i \in 1..Len(s) : i < a => s[i] # x
    BY <1>2, AtIs
  <2>2. a # 0
    BY <1>2
  <2> HIDE DEF a
  <2>3. a \in 1..Len(s) /\ a \in 1..Len(t)
    BY <1>1, <2>1, <2>2
  <2>4. t[a] = x
    BY <1>1, <2>1, <2>3
  <2>5. \A i \in 1..Len(t) : i < a => i \in 1..Len(s)
    BY <1>1, <2>3
  <2>6. \A i \in 1..Len(t) : i < a => t[i] # x
    BY <1>1, <2>1, <2>5
  <2> QED
    BY <2>3, <2>4, <2>6, AtOnly DEF a
<1>3. ASSUME Stream!At(s, x) = 0 PROVE Stream!At(t, x) = IF t[Len(t)] = x THEN Len(t) ELSE 0
  <2>1. \A i \in 1..Len(s) : t[i] # x
    BY <1>1, <1>3, AtIs
  <2>2. CASE t[Len(t)] = x
    <3>1. \A i \in 1..Len(t) : i < Len(t) => i \in 1..Len(s)
      BY <1>1
    <3>2. \A i \in 1..Len(t) : i < Len(t) => t[i] # x
      BY <2>1, <3>1
    <3> QED
      BY <1>1, <2>2, <3>2, AtOnly
  <2>3. CASE t[Len(t)] # x
    <3>1. \A i \in 1..Len(t) : t[i] # x
      BY <1>1, <2>1, <2>3
    <3> QED
      BY <2>3, <3>1, AtIs
  <2> QED
    BY <2>2, <2>3
<1> QED
  BY <1>2, <1>3

\* What follows place a grows with the text; so does what is up to a place.
LEMMA AfterGrows ==
  ASSUME NEW S, NEW s \in Seq(S), NEW t \in Seq(S), Grows(s, t), NEW k \in 0..Len(s)
  PROVE  /\ Stream!After(s, k) \in Seq(S) /\ Stream!After(t, k) \in Seq(S)
         /\ Grows(Stream!After(s, k), Stream!After(t, k))
         /\ Stream!After(t, k)[Len(Stream!After(t, k))] = t[Len(t)]
<1> DEFINE n == Len(s)
           m == Len(t)
           u == SubSeq(s, k + 1, n)
           v == SubSeq(t, k + 1, m)
<1>1. n \in Nat /\ m = n + 1 /\ \A i \in 1..n : t[i] = s[i]
  BY DEF Grows
<1>2. /\ u \in Seq(S) /\ v \in Seq(S) /\ Len(u) = n - k /\ Len(v) = m - k
      /\ \A i \in 1..(n - k) : u[i] = s[k + i]
      /\ \A i \in 1..(m - k) : v[i] = t[k + i]
  <2>1. k \in Nat /\ k <= n /\ k + 1 \in 1..(n + 1) /\ k + 1 \in 1..(m + 1)
    BY <1>1
  <2>2. \A i \in (k + 1)..n : s[i] \in S
    BY <2>1
  <2>3. \A i \in (k + 1)..m : t[i] \in S
    BY <2>1
  <2>4. u = [i \in 1..(n - k) |-> s[k + i]]
    BY <1>1, <2>1
  <2>5. v = [i \in 1..(m - k) |-> t[k + i]]
    BY <1>1, <2>1
  <2>6. \A i \in 1..(n - k) : k + i \in (k + 1)..n
    BY <1>1, <2>1
  <2>7. \A i \in 1..(m - k) : k + i \in (k + 1)..m
    BY <1>1, <2>1
  <2>8. n - k \in Nat /\ m - k \in Nat
    BY <1>1, <2>1
  <2> HIDE DEF n, m, u, v
  <2>9. u \in Seq(S) /\ Len(u) = n - k
    BY <2>2, <2>4, <2>6, <2>8
  <2>10. v \in Seq(S) /\ Len(v) = m - k
    <3>1. \A i \in 1..(m - k) : t[k + i] \in S
      BY <2>3, <2>7
    <3> QED
      BY <2>5, <2>8, <3>1
  <2> QED
    BY <2>4, <2>5, <2>9, <2>10
<1>3. \A i \in 1..(n - k) : i \in 1..(m - k) /\ k + i \in 1..n
  BY <1>1
<1>4. m - k \in 1..(m - k) /\ k + (m - k) = m /\ Len(v) = Len(u) + 1
  BY <1>1, <1>2
<1>5. Grows(u, v)
  BY <1>1, <1>2, <1>3, <1>4 DEF Grows
<1>6. v[Len(v)] = t[m]
  BY <1>2, <1>4
<1> QED
  BY <1>2, <1>5, <1>6 DEF Stream!After

LEMMA UpTos ==
  ASSUME NEW S, NEW s \in Seq(S), NEW t \in Seq(S), Grows(s, t), NEW k \in 1..(Len(s) + 1)
  PROVE  /\ SubSeq(s, 1, k - 1) \in Seq(S)
         /\ SubSeq(t, 1, k - 1) = SubSeq(s, 1, k - 1)
         /\ SubSeq(t, 1, Len(s)) = s
<1>1. Len(s) \in Nat /\ Len(t) = Len(s) + 1 /\ \A i \in 1..Len(s) : t[i] = s[i]
  BY DEF Grows
<1>2. k - 1 \in 0..Len(s) /\ k - 1 \in Nat
  BY <1>1
<1>3. ASSUME NEW j \in 0..Len(s)
      PROVE  SubSeq(s, 1, j) = [i \in 1..j |-> s[i]] /\ SubSeq(t, 1, j) = [i \in 1..j |-> s[i]]
             /\ SubSeq(s, 1, j) \in Seq(S)
  <2>1. j \in Nat /\ j <= Len(s) /\ \A i \in 1..j : i \in 1..Len(s)
    BY <1>1
  <2>2. SubSeq(s, 1, j) = [i \in 1..j |-> s[i]]
    BY <1>1, <2>1
  <2>3. SubSeq(t, 1, j) = [i \in 1..j |-> t[i]]
    BY <1>1, <2>1
  <2>4. \A i \in 1..j : t[i] = s[i] /\ s[i] \in S
    BY <1>1, <2>1
  <2>5. [i \in 1..j |-> t[i]] = [i \in 1..j |-> s[i]]
    BY <2>4
  <2>6. [i \in 1..j |-> s[i]] \in Seq(S)
    BY <2>1, <2>4
  <2> QED
    BY <2>2, <2>3, <2>5, <2>6
<1>4. s = [i \in 1..Len(s) |-> s[i]] /\ Len(s) \in 0..Len(s)
  OBVIOUS
<1> QED
  BY <1>2, <1>3, <1>4

\* The part of a text up to the tag that closes it: it stays, or it is the text.
LEMMA CloseGrows ==
  ASSUME NEW S, NEW s \in Seq(S), NEW t \in Seq(S), Grows(s, t)
  PROVE  /\ Stream!UpToClose(s) \in Seq(S)
         /\ \/ Stream!UpToClose(t) = Stream!UpToClose(s)
            \/ Stream!UpToClose(s) = s /\ Stream!UpToClose(t) = t
<1> DEFINE a == Stream!At(s, "endoutput")
           z == Stream!At(t, "endoutput")
<1>1. Len(s) \in Nat /\ Len(t) = Len(s) + 1
  BY DEF Grows
<1>2. a \in 0..Len(s) /\ (a # 0 => z = a)
      /\ (a = 0 => z = IF t[Len(t)] = "endoutput" THEN Len(t) ELSE 0)
  BY AtIs, AtGrows
<1>3. /\ Stream!UpToClose(s) = IF a = 0 THEN s ELSE SubSeq(s, 1, a - 1)
      /\ Stream!UpToClose(t) = IF z = 0 THEN t ELSE SubSeq(t, 1, z - 1)
  BY DEF Stream!UpToClose
<1> HIDE DEF a, z
<1>4. CASE a # 0
  <2>1. a \in 1..(Len(s) + 1)
    BY <1>1, <1>2, <1>4
  <2>2. SubSeq(s, 1, a - 1) \in Seq(S) /\ SubSeq(t, 1, a - 1) = SubSeq(s, 1, a - 1)
    BY <2>1, UpTos
  <2> QED
    BY <1>2, <1>3, <1>4, <2>2
<1>5. CASE a = 0
  <2>1. Stream!UpToClose(s) = s
    BY <1>3, <1>5
  <2>2. CASE z = 0
    BY <1>3, <2>1, <2>2
  <2>3. CASE z # 0
    <3>1. z = Len(t) /\ Len(t) - 1 = Len(s) /\ 1 \in 1..(Len(s) + 1)
      BY <1>1, <1>2, <1>5, <2>3
    <3>2. SubSeq(t, 1, Len(s)) = s
      BY <3>1, UpTos
    <3> QED
      BY <1>3, <2>1, <2>3, <3>1, <3>2
  <2> QED
    BY <2>2, <2>3
<1> QED
  BY <1>4, <1>5

\* Whether an item stands in reasoning is for what precedes it to say.
LEMMA OpenGrows ==
  ASSUME NEW S, NEW s \in Seq(S), NEW t \in Seq(S), Grows(s, t)
  PROVE  /\ Stream!Open(s) \in SUBSET (1..Len(s))
         /\ \/ Stream!Open(t) = Stream!Open(s)
            \/ Stream!Open(t) = Stream!Open(s) \union {Len(t)}
<1>1. /\ Len(s) \in Nat /\ Len(t) = Len(s) + 1 /\ \A i \in 1..Len(s) : t[i] = s[i]
  BY DEF Grows
<1>2. /\ \A i \in 1..Len(t) : i \in 1..Len(s) \/ i = Len(t)
      /\ \A i \in 1..Len(s) : i \in 1..Len(t)
      /\ Len(t) \in 1..Len(t)
  BY <1>1
<1>3. ASSUME NEW i \in 1..Len(s) PROVE Stream!Thinking(t, i) <=> Stream!Thinking(s, i)
  <2>1. \A j \in 1..i : j \in 1..Len(s) /\ \A k \in (j + 1)..(i - 1) : k \in 1..Len(s)
    BY <1>1
  <2>2. \A j \in 1..i : t[j] = s[j] /\ \A k \in (j + 1)..(i - 1) : t[k] = s[k]
    BY <1>1, <2>1
  <2> QED
    BY <2>2 DEF Stream!Thinking
<1>4. \A i \in 1..Len(s) : i \in Stream!Open(t) <=> i \in Stream!Open(s)
  BY <1>2, <1>3 DEF Stream!Open
<1>5. Stream!Open(s) \subseteq 1..Len(s) /\ Stream!Open(t) \subseteq 1..Len(t)
  BY DEF Stream!Open
<1> QED
  BY <1>2, <1>4, <1>5

LEMMA KeptIsPicked == \A s, D : Stream!Kept(s, D) = Picked(s, D)
  BY DEF Stream!Kept, Stream!Nth, Picked, Place, UpTo, Stream!Cardinality, Cardinality

\* What of a text may be shown, before anything is held back.
Free(s) == Stream!Kept(s, Stream!Open(s))
Shows(s) ==
  IF Stream!At(s, "output") = 0 THEN <<>> ELSE Free(Stream!UpToClose(Stream!Body(s)))

\* It is longer by the item that is added, or not.
OrGrows(u, v, x) == v = u \/ v = Append(u, x)

LEMMA FreeTyped ==
  ASSUME NEW S, NEW s \in Seq(S)
  PROVE  Free(s) \in Seq(S) /\ \A k \in 1..Len(Free(s)) : \E i \in 1..Len(s) : Free(s)[k] = s[i]
<1> DEFINE D == Stream!Open(s)
<1>1. D \in SUBSET (1..Len(s))
  BY DEF Stream!Open
<1>2. Free(s) = Picked(s, D)
  BY KeptIsPicked DEF Free
<1> HIDE DEF D
<1>3. /\ Picked(s, D) \in Seq(S) /\ Len(Picked(s, D)) = Cardinality(D)
      /\ \A k \in 1..Cardinality(D) : Picked(s, D)[k] = s[Place(D, k)] /\ Place(D, k) \in D
  BY <1>1, PickedIs
<1> QED
  BY <1>1, <1>2, <1>3

LEMMA FreeGrows ==
  ASSUME NEW S, NEW s \in Seq(S), NEW t \in Seq(S), Grows(s, t)
  PROVE  Free(s) \in Seq(S) /\ OrGrows(Free(s), Free(t), t[Len(t)])
<1>1. /\ Stream!Open(s) \in SUBSET (1..Len(s))
      /\ \/ Stream!Open(t) = Stream!Open(s)
         \/ Stream!Open(t) = Stream!Open(s) \union {Len(t)}
  BY OpenGrows
<1>2. Picked(s, Stream!Open(s)) \in Seq(S)
  BY <1>1, PickedIs
<1>4. /\ Picked(t, Stream!Open(s)) = Picked(s, Stream!Open(s))
      /\ Picked(t, Stream!Open(s) \union {Len(t)}) = Append(Picked(s, Stream!Open(s)), t[Len(t)])
  <2> DEFINE D == Stream!Open(s)
  <2>1. D \in SUBSET (1..Len(s))
    BY <1>1
  <2> HIDE DEF D
  <2>2. Picked(t, D) = Picked(s, D) /\ Picked(t, D \union {Len(t)}) = Append(Picked(s, D), t[Len(t)])
    BY <2>1, PickedStays, PickedGrows
  <2> QED
    BY <2>2 DEF D
<1> QED
  BY <1>1, <1>2, <1>4, KeptIsPicked DEF Free, OrGrows

LEMMA NothingShows == Free(<<>>) = <<>> /\ Stream!UpToClose(<<>>) = <<>>
<1>1. Stream!Open(<<>>) = {}
  BY DEF Stream!Open
<1>2. Picked(<<>>, {}) = <<>>
  BY FS_EmptySet DEF Picked
<1>3. Stream!At(<<>>, "endoutput") = 0
  <2>1. \A S : <<>> \in Seq(S)
    OBVIOUS
  <2>2. \A i \in 1..Len(<<>>) : <<>>[i] # "endoutput"
    OBVIOUS
  <2> QED
    BY <2>1, <2>2, AtIs
<1> QED
  BY <1>1, <1>2, <1>3, KeptIsPicked DEF Free, Stream!UpToClose

\* A text that is cut short, and a text and one item, by place.
LEMMA CutIs ==
  ASSUME NEW S, NEW s \in Seq(S), NEW k \in 0..Len(s)
  PROVE  SubSeq(s, 1, k) \in Seq(S) /\ Begins(SubSeq(s, 1, k), s) /\ Len(SubSeq(s, 1, k)) = k
<1>1. k \in Nat /\ Len(s) \in Nat /\ k <= Len(s) /\ \A i \in 1..k : i \in 1..Len(s)
  OBVIOUS
<1>2. SubSeq(s, 1, k) = [i \in 1..k |-> s[i]]
  BY <1>1
<1>3. \A i \in 1..k : s[i] \in S
  BY <1>1
<1>4. [i \in 1..k |-> s[i]] \in Seq(S) /\ Len([i \in 1..k |-> s[i]]) = k
  BY <1>1, <1>3
<1> QED
  BY <1>1, <1>2, <1>4 DEF Begins

LEMMA ConcatIs ==
  ASSUME NEW S, NEW s \in Seq(S), NEW t \in Seq(S)
  PROVE  /\ s \o t \in Seq(S) /\ Len(s \o t) = Len(s) + Len(t)
         /\ \A i \in 1..Len(s) : (s \o t)[i] = s[i]
         /\ \A i \in 1..Len(t) : (s \o t)[Len(s) + i] = t[i]
<1>1. Len(s) \in Nat /\ Len(t) \in Nat
  OBVIOUS
<1>2. s \o t \in Seq(S) /\ Len(s \o t) = Len(s) + Len(t)
      /\ \A i \in 1..(Len(s) + Len(t)) : (s \o t)[i] = IF i <= Len(s) THEN s[i] ELSE t[i - Len(s)]
  BY ConcatProperties
<1>3. /\ \A i \in 1..Len(s) : i \in 1..(Len(s) + Len(t)) /\ i <= Len(s)
      /\ \A i \in 1..Len(t) : Len(s) + i \in 1..(Len(s) + Len(t)) /\ ~ (Len(s) + i <= Len(s))
                                  /\ (Len(s) + i) - Len(s) = i
  BY <1>1
<1> QED
  BY <1>2, <1>3

LEMMA AppendGrows ==
  ASSUME NEW S, NEW s \in Seq(S), NEW x \in S
  PROVE  /\ Append(s, x) \in Seq(S) /\ Grows(s, Append(s, x))
         /\ Append(s, x)[Len(Append(s, x))] = x
         /\ SubSeq(Append(s, x), 1, Len(s)) = s
<1>1. /\ Append(s, x) \in Seq(S) /\ Len(Append(s, x)) = Len(s) + 1
      /\ Append(s, x)[Len(s) + 1] = x /\ \A i \in 1..Len(s) : Append(s, x)[i] = s[i]
  BY AppendAt
<1>2. Grows(s, Append(s, x))
  BY <1>1 DEF Grows
<1>3. 1 \in 1..(Len(s) + 1)
  OBVIOUS
<1>4. SubSeq(Append(s, x), 1, Len(s)) = s
  BY <1>1, <1>2, <1>3, UpTos
<1> QED
  BY <1>1, <1>2, <1>4

\* The last place of what is not a word.
LastMark(s) == Stream!SelectLastInSeq(s, LAMBDA y : y # "word")

LEMMA LastMarkIs ==
  ASSUME NEW S, NEW s \in Seq(S)
  PROVE  /\ LastMark(s) \in 0..Len(s)
         /\ \A i \in 1..Len(s) : s[i] # "word" => LastMark(s) # 0 /\ i <= LastMark(s)
<1> DEFINE k == LastMark(s)
           I == {i \in 1..Len(s) : s[i] # "word"}
           n == Len(s)
           J == {j \in 0..n : n - j \in I}
<1>1. n \in Nat /\ \A i \in I : i \in 1..n
  OBVIOUS
<1>2. k = IF I # {} THEN CHOOSE i \in I : \A j \in I : i >= j ELSE 0
  BY DEF LastMark, Stream!SelectLastInSeq, Stream!Max
<1> HIDE DEF k
<1>3. CASE I = {}
  <2>1. k = 0 /\ \A i \in 1..Len(s) : ~ (s[i] # "word")
    BY <1>2, <1>3
  <2> QED
    BY <1>1, <2>1 DEF k
<1>4. CASE I # {}
  <2> HIDE DEF I
  <2>1. PICK e \in I : TRUE
    BY <1>4
  <2>2. J \in SUBSET Nat /\ n - e \in J
    <3>1. e \in 1..n
      BY <1>1, <2>1
    <3>2. n - e \in 0..n /\ n - (n - e) = e
      BY <1>1, <3>1
    <3> QED
      BY <1>1, <3>2, <2>1
  <2>3. \E j \in J : \A m \in J : j <= m
    <3> HIDE DEF J
    <3> QED
      BY <2>2, LeastMember
  <2>4. PICK j \in J : \A m \in J : j <= m
    BY <2>3
  <2>5. n - j \in I /\ j \in 0..n
    BY <2>4
  <2>6. \A i \in I : n - j >= i
    <3>1. ASSUME NEW i \in I PROVE n - j >= i
      <4>1. i \in 1..n
        BY <1>1
      <4>2. n - i \in 0..n /\ n - (n - i) = i
        BY <1>1, <4>1
      <4>3. n - i \in J
        BY <4>2
      <4>4. j <= n - i
        BY <2>4, <4>3
      <4> HIDE DEF n, J
      <4> QED
        BY <1>1, <4>1, <2>5, <4>4
    <3> QED
      BY <3>1
  <2>7. k \in I /\ \A i \in I : k >= i
    <3> DEFINE l == n - j
    <3>1. l \in I /\ \A i \in I : l >= i
      BY <2>5, <2>6
    <3> HIDE DEF l
    <3> QED
      BY <1>2, <1>4, <3>1
  <2>8. k \in 1..n /\ s[k] # "word"
    BY <1>1, <2>7 DEF I
  <2>9. \A i \in 1..n : s[i] # "word" => i <= k
    <3>1. \A i \in 1..n : s[i] # "word" => i \in I
      BY DEF I
    <3> QED
      BY <1>1, <2>7, <2>8, <3>1
  <2> QED
    BY <1>1, <2>8, <2>9 DEF k
<1> QED
  BY <1>3, <1>4

\* What is held back is a tail, and a tag that is only begun is.
LEMMA HeldIs ==
  ASSUME NEW S, NEW s \in Seq(S)
  PROVE  Stream!HeldBack(s) \in Seq(S) /\ Begins(Stream!HeldBack(s), s)
<1> DEFINE k == LastMark(s)
<1>1. k \in 0..Len(s)
  BY LastMarkIs
<1>2. Stream!HeldBack(s) = IF k # 0 /\ s[k] \in {"lt", "part"} THEN SubSeq(s, 1, k - 1) ELSE s
  BY DEF Stream!HeldBack, LastMark
<1> HIDE DEF k
<1>3. CASE k # 0 /\ s[k] \in {"lt", "part"}
  <2>1. k - 1 \in 0..Len(s)
    BY <1>1, <1>3
  <2> QED
    BY <1>2, <1>3, <2>1, CutIs
<1>4. CASE ~ (k # 0 /\ s[k] \in {"lt", "part"})
  BY <1>2, <1>4, BeginsIs
<1> QED
  BY <1>3, <1>4

LEMMA PartIsHeld ==
  ASSUME NEW S, NEW s \in Seq(S), "part" \in S
  PROVE  Stream!HeldBack(Append(s, "part")) = s
<1> DEFINE t == Append(s, "part")
           k == LastMark(t)
<1>1. /\ t \in Seq(S) /\ Grows(s, t) /\ t[Len(t)] = "part" /\ SubSeq(t, 1, Len(s)) = s
  BY AppendGrows
<1>2. Len(s) \in Nat /\ Len(t) = Len(s) + 1
  BY <1>1 DEF Grows
<1> HIDE DEF t
<1>3. k \in 0..Len(t) /\ \A i \in 1..Len(t) : t[i] # "word" => k # 0 /\ i <= k
  BY <1>1, LastMarkIs
<1>4. Stream!HeldBack(t) = IF k # 0 /\ t[k] \in {"lt", "part"} THEN SubSeq(t, 1, k - 1) ELSE t
  BY DEF Stream!HeldBack, LastMark
<1> HIDE DEF k
<1>5. k = Len(t)
  <2>1. Len(t) \in 1..Len(t)
    BY <1>2
  <2>2. Len(t) <= k
    BY <1>1, <1>3, <2>1
  <2> QED
    BY <1>2, <1>3, <2>2
<1>6. k # 0 /\ k - 1 = Len(s)
  BY <1>2, <1>5
<1> QED
  BY <1>1, <1>4, <1>5, <1>6 DEF t

LEMMA VisibleIs == \A s : Stream!Visible(s) = Stream!HeldBack(Shows(s))
<1>1. Stream!HeldBack(<<>>) = <<>>
  <2> DEFINE I == {i \in 1..Len(<<>>) : <<>>[i] # "word"}
  <2>1. I = {}
    OBVIOUS
  <2>2. Stream!SelectLastInSeq(<<>>, LAMBDA y : y # "word") = 0
    BY <2>1 DEF Stream!SelectLastInSeq
  <2> QED
    BY <2>2 DEF Stream!HeldBack
<1> QED
  BY <1>1 DEF Stream!Visible, Shows, Free

LEMMA BodyTyped ==
  ASSUME NEW S, NEW s \in Seq(S)
  PROVE  Stream!Body(s) \in Seq(S) /\ Stream!UpToClose(Stream!Body(s)) \in Seq(S)
<1> DEFINE a == Stream!At(s, "output")
           u == SubSeq(s, a + 1, Len(s))
<1>1. a \in 0..Len(s)
  BY AtIs
<1> HIDE DEF a
<1>2. u \in Seq(S)
  <2>1. a + 1 \in Nat /\ Len(s) \in Nat /\ \A i \in (a + 1)..Len(s) : i \in 1..Len(s)
    BY <1>1
  <2>2. \A i \in (a + 1)..Len(s) : s[i] \in S
    BY <2>1
  <2>3. u = [i \in 1..(Len(s) - a) |-> s[a + i]]
    BY <1>1, <2>1
  <2>4. \A i \in 1..(Len(s) - a) : a + i \in (a + 1)..Len(s)
    BY <1>1, <2>1
  <2>5. \A i \in 1..(Len(s) - a) : s[a + i] \in S
    BY <2>2, <2>4
  <2>6. Len(s) - a \in Nat
    BY <1>1
  <2> HIDE DEF u
  <2> QED
    BY <2>3, <2>5, <2>6
<1>3. Stream!Body(s) = u
  BY DEF Stream!Body, Stream!After, a
<1> HIDE DEF u
<1>4. Stream!UpToClose(u) \in Seq(S)
  <2> DEFINE e == Stream!At(u, "endoutput")
  <2>1. e \in 0..Len(u)
    BY <1>2, AtIs
  <2>2. Stream!UpToClose(u) = IF e = 0 THEN u ELSE SubSeq(u, 1, e - 1)
    BY DEF Stream!UpToClose
  <2> HIDE DEF e
  <2>3. e # 0 => e - 1 \in 0..Len(u)
    BY <2>1
  <2>4. e # 0 => SubSeq(u, 1, e - 1) \in Seq(S)
    BY <1>2, <2>3, CutIs
  <2> QED
    BY <1>2, <2>2, <2>4
<1> QED
  BY <1>2, <1>3, <1>4

\* One item more: as much may be shown as before, or that item more.
LEMMA ShowsGrows ==
  ASSUME NEW S, NEW s \in Seq(S), NEW t \in Seq(S), Grows(s, t)
  PROVE  Shows(s) \in Seq(S) /\ OrGrows(Shows(s), Shows(t), t[Len(t)])
<1> DEFINE a == Stream!At(s, "output")
           z == Stream!At(t, "output")
<1>1. Len(s) \in Nat /\ Len(t) = Len(s) + 1
  BY DEF Grows
<1>2. a \in 0..Len(s) /\ (a # 0 => z = a)
      /\ (a = 0 => z = IF t[Len(t)] = "output" THEN Len(t) ELSE 0)
  BY AtIs, AtGrows
<1>3. /\ Shows(s) = IF a = 0 THEN <<>> ELSE Free(Stream!UpToClose(Stream!After(s, a)))
      /\ Shows(t) = IF z = 0 THEN <<>> ELSE Free(Stream!UpToClose(Stream!After(t, z)))
  BY DEF Shows, Stream!Body
<1> HIDE DEF a, z
<1>4. CASE a # 0
  <2> DEFINE u == Stream!After(s, a)
             v == Stream!After(t, a)
             p == Stream!UpToClose(u)
             q == Stream!UpToClose(v)
  <2>1. u \in Seq(S) /\ v \in Seq(S) /\ Grows(u, v) /\ v[Len(v)] = t[Len(t)]
    BY <1>2, AfterGrows
  <2>2. Shows(s) = Free(p) /\ Shows(t) = Free(q)
    BY <1>2, <1>3, <1>4
  <2> HIDE DEF u, v
  <2>3. p \in Seq(S) /\ (q = p \/ (p = u /\ q = v))
    BY <2>1, CloseGrows
  <2> HIDE DEF p, q
  <2>4. CASE q = p
    <3>1. Free(p) \in Seq(S)
      BY <2>3, FreeTyped
    <3> QED
      BY <2>2, <2>4, <3>1 DEF OrGrows
  <2>5. CASE p = u /\ q = v
    <3>1. Free(u) \in Seq(S) /\ OrGrows(Free(u), Free(v), v[Len(v)])
      BY <2>1, FreeGrows
    <3> QED
      BY <2>1, <2>2, <2>5, <3>1
  <2> QED
    BY <2>3, <2>4, <2>5
<1>5. CASE a = 0
  <2>1. Shows(s) = <<>> /\ <<>> \in Seq(S)
    BY <1>3, <1>5
  <2>2. CASE z = 0
    BY <1>3, <2>1, <2>2 DEF OrGrows
  <2>3. CASE z # 0
    <3>1. z = Len(t)
      BY <1>2, <1>5, <2>3
    <3>2. Stream!After(t, z) = <<>>
      <4>1. Len(t) \in Nat /\ Len(t) + 1 > Len(t)
        BY <1>1
      <4>2. SubSeq(t, Len(t) + 1, Len(t)) = <<>>
        BY <4>1
      <4> QED
        BY <3>1, <4>2 DEF Stream!After
    <3>3. Shows(t) = <<>>
      BY <1>3, <2>3, <3>2, NothingShows
    <3> QED
      BY <2>1, <3>3 DEF OrGrows
  <2> QED
    BY <2>2, <2>3
<1> QED
  BY <1>4, <1>5

\* The text without a tag that is only begun, and what of it is sure to be shown.
Bare(s) == IF s # <<>> /\ s[Len(s)] = "part" THEN SubSeq(s, 1, Len(s) - 1) ELSE s
Sure(s) == Shows(Bare(s))

LEMMA PartIsSym == "part" \in Syms /\ Items \union {"part"} \subseteq Syms
  BY StreamAssumption DEF Stream!StreamAssumption, Syms

LEMMA BareIs ==
  ASSUME NEW S, NEW s \in Seq(S)
  PROVE  Bare(s) \in Seq(S) /\ (Bare(s) = s \/ (Grows(Bare(s), s) /\ s[Len(s)] = "part"))
<1>1. CASE s # <<>> /\ s[Len(s)] = "part"
  <2>1. Len(s) \in Nat /\ Len(s) > 0
    BY <1>1
  <2>2. Len(s) - 1 \in 0..Len(s)
    BY <2>1
  <2>3. Bare(s) = SubSeq(s, 1, Len(s) - 1)
    BY <1>1 DEF Bare
  <2>4. Bare(s) \in Seq(S) /\ Begins(Bare(s), s) /\ Len(Bare(s)) = Len(s) - 1
    BY <2>2, <2>3, CutIs
  <2>5. Len(s) = Len(Bare(s)) + 1
    BY <2>1, <2>4
  <2>6. Grows(Bare(s), s)
    BY <2>4, <2>5 DEF Begins, Grows
  <2> QED
    BY <1>1, <2>4, <2>6
<1>2. CASE ~ (s # <<>> /\ s[Len(s)] = "part")
  BY <1>2 DEF Bare
<1> QED
  BY <1>1, <1>2

LEMMA BareAppend ==
  ASSUME NEW b \in Seq(Syms), NEW x \in Syms
  PROVE  Bare(Append(b, x)) = IF x = "part" THEN b ELSE Append(b, x)
<1> DEFINE w == Append(b, x)
<1>1. w \in Seq(Syms) /\ Grows(b, w) /\ w[Len(w)] = x /\ SubSeq(w, 1, Len(b)) = b
  BY AppendGrows
<1>2. Len(b) \in Nat /\ Len(w) = Len(b) + 1
  BY <1>1 DEF Grows
<1>3. w # <<>> /\ Len(w) - 1 = Len(b)
  BY <1>2
<1> HIDE DEF w
<1>4. Bare(w) = IF x = "part" THEN b ELSE w
  BY <1>1, <1>3 DEF Bare
<1> QED
  BY <1>4 DEF w

LEMMA ShowsTyped == ASSUME NEW s \in Seq(Syms) PROVE Shows(s) \in Seq(Syms)
<1>1. Append(s, "part") \in Seq(Syms) /\ Grows(s, Append(s, "part"))
  BY PartIsSym, AppendGrows
<1> QED
  BY <1>1, ShowsGrows

LEMMA GrownBegins ==
  ASSUME NEW u \in Seq(Syms), NEW w \in Seq(Syms), NEW x \in Syms, OrGrows(u, w, x)
  PROVE  Begins(u, w)
<1>1. CASE w = u
  BY <1>1, BeginsIs
<1>2. CASE w = Append(u, x)
  <2>1. Grows(u, w)
    BY <1>2, AppendGrows
  <2> QED
    BY <2>1, BeginsIs
<1> QED
  BY <1>1, <1>2 DEF OrGrows

\* What is shown of a text, with one item more or fewer.
LEMMA SureIs ==
  ASSUME NEW s \in Seq(Syms)
  PROVE  /\ Sure(s) \in Seq(Syms) /\ Shows(s) \in Seq(Syms) /\ Stream!Visible(s) \in Seq(Syms)
         /\ Begins(Sure(s), Shows(s)) /\ Begins(Stream!Visible(s), Sure(s))
<1> DEFINE b == Bare(s)
<1>1. b \in Seq(Syms) /\ (b = s \/ (Grows(b, s) /\ s[Len(s)] = "part"))
  BY BareIs
<1>2. Sure(s) = Shows(b) /\ Stream!Visible(s) = Stream!HeldBack(Shows(s))
  BY VisibleIs DEF Sure
<1> HIDE DEF b
<1>3. Shows(b) \in Seq(Syms) /\ Shows(s) \in Seq(Syms)
  BY <1>1, ShowsTyped
<1>4. Stream!HeldBack(Shows(s)) \in Seq(Syms) /\ Begins(Stream!HeldBack(Shows(s)), Shows(s))
  BY <1>3, HeldIs
<1>5. CASE b = s
  <2>1. Begins(Shows(b), Shows(s))
    BY <1>3, <1>5, BeginsIs
  <2> QED
    BY <1>2, <1>3, <1>4, <1>5, <2>1
<1>6. CASE Grows(b, s) /\ s[Len(s)] = "part"
  <2>1. OrGrows(Shows(b), Shows(s), "part")
    <3>1. OrGrows(Shows(b), Shows(s), s[Len(s)])
      BY <1>1, <1>6, ShowsGrows
    <3> QED
      BY <1>6, <3>1
  <2>2. Begins(Shows(b), Shows(s))
    BY <1>3, <2>1, PartIsSym, GrownBegins
  <2>3. Begins(Stream!HeldBack(Shows(s)), Shows(b))
    <3>1. CASE Shows(s) = Shows(b)
      BY <1>4, <3>1
    <3>2. CASE Shows(s) = Append(Shows(b), "part")
      <4>1. Stream!HeldBack(Shows(s)) = Shows(b)
        BY <1>3, <3>2, PartIsSym, PartIsHeld
      <4> QED
        BY <1>3, <4>1, BeginsIs
    <3> QED
      BY <2>1, <3>1, <3>2 DEF OrGrows
  <2> QED
    BY <1>2, <1>3, <1>4, <2>2, <2>3
<1> QED
  BY <1>1, <1>5, <1>6

LEMMA SureGrows ==
  ASSUME NEW s \in Seq(Syms), NEW x \in Syms
  PROVE  Begins(Sure(s), Sure(Append(Bare(s), x)))
<1> DEFINE b == Bare(s)
           w == Append(b, x)
<1>1. b \in Seq(Syms)
  BY BareIs
<1>2. Sure(s) = Shows(b) /\ Sure(w) = Shows(Bare(w))
  BY DEF Sure
<1> HIDE DEF b
<1>3. Bare(w) = IF x = "part" THEN b ELSE w
  BY <1>1, BareAppend
<1>4. w \in Seq(Syms) /\ Grows(b, w) /\ w[Len(w)] = x
  BY <1>1, AppendGrows
<1> HIDE DEF w
<1>5. Shows(b) \in Seq(Syms) /\ Shows(w) \in Seq(Syms)
  BY <1>1, <1>4, ShowsTyped
<1>6. Begins(Shows(b), Shows(b))
  BY <1>5, BeginsIs
<1>7. Begins(Shows(b), Shows(w))
  <2>1. OrGrows(Shows(b), Shows(w), w[Len(w)])
    BY <1>1, <1>4, ShowsGrows
  <2>2. OrGrows(Shows(b), Shows(w), x)
    BY <1>4, <2>1
  <2> QED
    BY <1>5, <2>2, GrownBegins
<1>8. Begins(Sure(s), Sure(w))
  BY <1>2, <1>3, <1>6, <1>7
<1> QED
  BY <1>8 DEF w, b

LEMMA NothingSure ==
  ASSUME NEW s \in Seq(Syms), Stream!At(s, "output") = 0
  PROVE  Shows(s) = <<>> /\ Sure(s) = <<>> /\ Stream!Visible(s) = <<>>
<1>1. Shows(s) = <<>>
  BY DEF Shows
<1>2. Sure(s) \in Seq(Syms) /\ Begins(Sure(s), Shows(s)) /\ Stream!Visible(s) \in Seq(Syms)
      /\ Begins(Stream!Visible(s), Sure(s))
  BY SureIs
<1>3. Sure(s) = <<>>
  <2>1. Len(Sure(s)) <= 0 /\ Len(Sure(s)) \in Nat
    BY <1>1, <1>2 DEF Begins
  <2> QED
    BY <1>2, <2>1
<1>4. Stream!Visible(s) = <<>>
  <2>1. Len(Stream!Visible(s)) <= 0 /\ Len(Stream!Visible(s)) \in Nat
    BY <1>2, <1>3 DEF Begins
  <2> QED
    BY <1>2, <2>1
<1> QED
  BY <1>1, <1>3, <1>4

-----------------------------------------------------------------------------
\* Of a tidy text the answer is what may be shown of it.
LEMMA TidyClosed ==
  ASSUME NEW s \in Seq(Syms), Stream!Tidy(s), Stream!Closed(s)
  PROVE  Stream!StripBalanced(Stream!UpToClose(Stream!Body(s))) = Shows(s)
<1> DEFINE u == Stream!UpToClose(Stream!Body(s))
           D == {i \in 1..Len(u) : ~Stream!ThoughtOver(u, i) /\ u[i] \notin {"endthink", "block"}}
<1>1. Stream!At(s, "output") # 0
  BY DEF Stream!Closed
<1>2. \A i \in DOMAIN u : /\ u[i] \notin {"block", "scratch"}
                          /\ (Stream!Thinking(u, i) => Stream!ThoughtOver(u, i))
                          /\ (u[i] = "endthink" => Stream!Thinking(u, i))
  BY <1>1 DEF Stream!Tidy
<1>3. Shows(s) = Stream!Kept(u, Stream!Open(u))
  BY <1>1 DEF Shows, Free
<1>4. Stream!StripBalanced(u) = Stream!Kept(u, D)
  BY DEF Stream!StripBalanced
<1>6. DOMAIN u = 1..Len(u)
  <2>1. u \in Seq(Syms)
    BY BodyTyped
  <2> HIDE DEF u
  <2> QED
    BY <2>1
<1> HIDE DEF u
<1>5. D = Stream!Open(u)
  <2>1. \A i \in 1..Len(u) : Stream!ThoughtOver(u, i) => Stream!Thinking(u, i)
    BY DEF Stream!ThoughtOver
  <2> QED
    BY <1>2, <1>6, <2>1 DEF Stream!Open
<1> QED
  BY <1>3, <1>4, <1>5 DEF u

LEMMA TidyOpen ==
  ASSUME NEW s \in Seq(Syms), Stream!Tidy(s), Stream!At(s, "output") # 0, ~Stream!Closed(s)
  PROVE  Stream!Strip(Stream!Body(s)) = Shows(s)
<1> DEFINE u == Stream!Body(s)
           D == {i \in Stream!Open(u) : u[i] \notin {"endthink", "block"}}
<1>1. Stream!UpToClose(u) = u
  BY DEF Stream!Closed, Stream!UpToClose
<1>2. \A i \in DOMAIN u : /\ u[i] \notin {"block", "scratch"}
                          /\ (u[i] = "endthink" => Stream!Thinking(u, i))
  BY <1>1 DEF Stream!Tidy
<1>3. Shows(s) = Free(u)
  BY <1>1 DEF Shows
<1>4. u \in Seq(Syms)
  BY <1>1, BodyTyped
<1> HIDE DEF u
<1>5. D = Stream!Open(u)
  BY <1>2, <1>4 DEF Stream!Open
<1>6. Stream!Kept(u, D) = Free(u)
  BY <1>5 DEF Free
<1>7. Free(u) \in Seq(Syms) /\ \A k \in 1..Len(Free(u)) : Free(u)[k] # "scratch"
  <2>1. Free(u) \in Seq(Syms) /\ \A k \in 1..Len(Free(u)) : \E i \in 1..Len(u) : Free(u)[k] = u[i]
    BY <1>4, FreeTyped
  <2> QED
    BY <1>2, <1>4, <2>1
<1>8. Stream!At(Free(u), "scratch") = 0
  BY <1>7, AtIs
<1> HIDE DEF D
<1>9. Stream!Strip(u) = Free(u)
  BY <1>6, <1>8 DEF Stream!Strip, D
<1> QED
  BY <1>3, <1>9 DEF u

LEMMA StripTyped == ASSUME NEW S, NEW s \in Seq(S) PROVE Stream!Strip(s) \in Seq(S)
<1> DEFINE D == {i \in Stream!Open(s) : s[i] \notin {"endthink", "block"}}
           bare == Stream!Kept(s, D)
           a == Stream!At(bare, "scratch")
<1>1. D \in SUBSET (1..Len(s))
  BY DEF Stream!Open
<1>2. Stream!Strip(s) = IF a = 0 THEN bare ELSE SubSeq(bare, 1, a - 1)
  BY DEF Stream!Strip
<1>3. bare = Picked(s, D)
  BY KeptIsPicked
<1> HIDE DEF D, bare
<1>4. bare \in Seq(S)
  BY <1>1, <1>3, PickedIs
<1>5. a \in 0..Len(bare)
  BY <1>4, AtIs
<1> HIDE DEF a
<1>6. a # 0 => SubSeq(bare, 1, a - 1) \in Seq(S)
  <2>1. ASSUME a # 0 PROVE SubSeq(bare, 1, a - 1) \in Seq(S)
    <3>1. a - 1 \in 0..Len(bare)
      BY <1>4, <1>5, <2>1
    <3> QED
      BY <1>4, <3>1, CutIs
  <2> QED
    BY <2>1
<1> QED
  BY <1>2, <1>4, <1>6

LEMMA BeginsNothing ==
  ASSUME NEW s \in Seq(Syms), Begins(s, <<>>) PROVE s = <<>>
<1>1. Len(s) <= 0 /\ Len(s) \in Nat
  BY DEF Begins
<1> QED
  BY <1>1

\* The answer is all of what may be shown, or nothing was to be shown.
LEMMA AnswerIs ==
  ASSUME NEW s \in Seq(Syms), Stream!Tidy(s)
  PROVE  /\ Stream!Extract(s) \in Seq(Syms)
         /\ Stream!Extract(s) = Shows(s) \/ Shows(s) = <<>>
         /\ Stream!Closed(s) /\ Stream!StripBalanced(Stream!UpToClose(Stream!Body(s))) # <<>>
              => Stream!Extract(s) = Shows(s)
<1> DEFINE inner == Stream!StripBalanced(Stream!UpToClose(Stream!Body(s)))
           rest == Stream!Strip(Stream!Body(s))
           whole == Stream!Strip(s)
           closed == IF Stream!Closed(s) THEN inner ELSE <<>>
           orphan == IF Stream!At(s, "output") # 0 THEN rest ELSE <<>>
<1>1. Stream!Extract(s) = IF closed # <<>> THEN closed ELSE IF orphan # <<>> THEN orphan ELSE whole
  BY DEF Stream!Extract
<1>2. whole \in Seq(Syms) /\ rest \in Seq(Syms) /\ Shows(s) \in Seq(Syms)
  BY StripTyped, BodyTyped, ShowsTyped
<1>3. CASE Stream!At(s, "output") = 0
  <2>1. Shows(s) = <<>> /\ ~Stream!Closed(s)
    BY <1>3, NothingSure DEF Stream!Closed
  <2> QED
    BY <1>1, <1>2, <1>3, <2>1
<1>4. CASE Stream!Closed(s)
  <2>1. inner = Shows(s)
    BY <1>4, TidyClosed
  <2> HIDE DEF inner, rest, whole
  <2>2. closed = Shows(s)
    BY <1>4, <2>1
  <2>3. CASE Shows(s) = <<>>
    <3>1. Stream!Extract(s) \in Seq(Syms)
      BY <1>1, <1>2, <2>2, <2>3
    <3> QED
      BY <2>1, <2>3, <3>1 DEF inner
  <2>4. CASE Shows(s) # <<>>
    BY <1>1, <1>2, <2>2, <2>4
  <2> QED
    BY <2>3, <2>4
<1>5. CASE Stream!At(s, "output") # 0 /\ ~Stream!Closed(s)
  <2>1. rest = Shows(s)
    BY <1>5, TidyOpen
  <2> QED
    BY <1>1, <1>2, <1>5, <2>1
<1> QED
  BY <1>3, <1>4, <1>5

LEMMA FinalShown ==
  ASSUME NEW s \in Seq(Syms), NEW w \in Seq(Syms), Stream!Tidy(s),
         Begins(Stream!Visible(s), w), Begins(w, Sure(s))
  PROVE  /\ Stream!IsPrefix(w, Stream!Extract(s))
         /\ Stream!Closed(s) /\ Stream!StripBalanced(Stream!UpToClose(Stream!Body(s))) # <<>>
              => Stream!IsPrefix(Stream!HeldBack(Stream!Extract(s)), w)
<1>1. /\ Stream!Extract(s) \in Seq(Syms)
      /\ Stream!Extract(s) = Shows(s) \/ Shows(s) = <<>>
      /\ Stream!Closed(s) /\ Stream!StripBalanced(Stream!UpToClose(Stream!Body(s))) # <<>>
           => Stream!Extract(s) = Shows(s)
  BY AnswerIs
<1>2. /\ Sure(s) \in Seq(Syms) /\ Shows(s) \in Seq(Syms) /\ Stream!Visible(s) \in Seq(Syms)
      /\ Begins(Sure(s), Shows(s))
  BY SureIs
<1>3. Begins(w, Shows(s))
  BY <1>2, BeginsIs
<1>4. Begins(w, Stream!Extract(s))
  <2>1. CASE Shows(s) = <<>>
    <3>1. w = <<>>
      BY <1>3, <2>1, BeginsNothing
    <3> QED
      BY <1>1, <3>1, BeginsIs
  <2> QED
    BY <1>1, <1>3, <2>1
<1>5. Stream!IsPrefix(w, Stream!Extract(s))
  BY <1>1, <1>4, BeginsIs
<1>6. Stream!IsPrefix(Stream!HeldBack(Shows(s)), w)
  BY <1>2, VisibleIs, BeginsIs
<1> QED
  BY <1>1, <1>5, <1>6

LEMMA ReasonsOnly ==
  ASSUME NEW s \in Seq(Syms), NEW w \in Seq(Syms), Stream!Dropped(s), Begins(w, Sure(s))
  PROVE  w = <<>>
<1>1. Stream!At(s, "output") = 0
  BY DEF Stream!Dropped
<1>2. Sure(s) = <<>>
  BY <1>1, NothingSure
<1> QED
  BY <1>2, BeginsNothing

\* The next text frame: what is shown then is what is visible, or stays as it was.
LEMMA NextFrame ==
  ASSUME NEW s \in Seq(Syms), NEW w \in Seq(Syms), NEW x \in Syms,
         Begins(w, Sure(s))
  PROVE  LET b == Append(Bare(s), x)
             d == Stream!After(Stream!Visible(b), Len(w))
         IN /\ b \in Seq(Syms) /\ d \in Seq(Syms) /\ w \o d \in Seq(Syms)
            /\ Begins(Stream!Visible(b), w \o d) /\ Begins(w \o d, Sure(b))
<1> DEFINE b == Append(Bare(s), x)
           v == Stream!Visible(b)
           d == Stream!After(v, Len(w))
<1>1. b \in Seq(Syms) /\ Begins(Sure(s), Sure(b))
  BY BareIs, AppendGrows, SureGrows
<1> HIDE DEF b
<1>2. v \in Seq(Syms) /\ Sure(b) \in Seq(Syms) /\ Sure(s) \in Seq(Syms) /\ Begins(v, Sure(b))
  BY <1>1, SureIs
<1>3. Begins(w, Sure(b))
  BY <1>1, <1>2, BeginsIs
<1> HIDE DEF v
<1>4. Len(w) \in Nat /\ Len(v) \in Nat
  BY <1>2
<1>5. CASE Len(w) <= Len(v)
  <2>1. Begins(w, v)
    BY <1>2, <1>3, <1>5, BothBegin
  <2>2. w = SubSeq(v, 1, Len(w))
    BY <1>2, <1>5, <2>1 DEF Begins
  <2>3. d \in Seq(Syms) /\ Len(d) = Len(v) - Len(w) /\ \A i \in 1..Len(d) : d[i] = v[Len(w) + i]
    <3>1. d = [i \in 1..(Len(v) - Len(w)) |-> v[Len(w) + i]]
      BY <1>2, <1>4, <1>5 DEF Stream!After
    <3>2. \A i \in 1..(Len(v) - Len(w)) : Len(w) + i \in 1..Len(v)
      BY <1>4, <1>5
    <3>3. \A i \in 1..(Len(v) - Len(w)) : v[Len(w) + i] \in Syms
      BY <1>2, <3>2
    <3>4. Len(v) - Len(w) \in Nat
      BY <1>4, <1>5
    <3> HIDE DEF d
    <3> QED
      BY <3>1, <3>3, <3>4
  <2> HIDE DEF d
  <2>4. w \o d = v
    <3>1. /\ w \o d \in Seq(Syms) /\ Len(w \o d) = Len(w) + Len(d)
          /\ \A i \in 1..Len(w) : (w \o d)[i] = w[i]
          /\ \A i \in 1..Len(d) : (w \o d)[Len(w) + i] = d[i]
      BY <2>3, ConcatIs
    <3>2. Len(w \o d) = Len(v)
      BY <1>4, <2>3, <3>1
    <3>3. ASSUME NEW i \in 1..Len(v) PROVE (w \o d)[i] = v[i]
      <4>1. CASE i <= Len(w)
        <5>1. i \in 1..Len(w)
          BY <1>4, <4>1
        <5> QED
          BY <2>1, <3>1, <5>1 DEF Begins
      <4>2. CASE ~ (i <= Len(w))
        <5>1. i - Len(w) \in 1..Len(d) /\ Len(w) + (i - Len(w)) = i
          BY <1>4, <2>3, <4>2
        <5> QED
          BY <2>3, <3>1, <5>1
      <4> QED
        BY <4>1, <4>2
    <3> DEFINE r == w \o d
    <3>4. r \in Seq(Syms) /\ Len(r) = Len(v) /\ \A i \in 1..Len(v) : r[i] = v[i]
      BY <3>1, <3>2, <3>3
    <3> HIDE DEF r
    <3>5. r = v
      <4>1. r = [i \in 1..Len(r) |-> r[i]] /\ v = [i \in 1..Len(v) |-> v[i]]
        BY <1>2, <3>4
      <4>2. [i \in 1..Len(r) |-> r[i]] = [i \in 1..Len(v) |-> v[i]]
        BY <3>4
      <4> QED
        BY <4>1, <4>2
    <3> QED
      BY <3>5 DEF r
  <2>5. Begins(v, v)
    BY <1>2, BeginsIs
  <2> QED
    BY <1>1, <1>2, <2>3, <2>4, <2>5 DEF b, v, d
<1>6. CASE ~ (Len(w) <= Len(v))
  <2>1. d = <<>>
    <3>1. Len(w) + 1 > Len(v) /\ Len(w) + 1 \in Nat
      BY <1>4, <1>6
    <3> QED
      BY <1>4, <3>1 DEF Stream!After
  <2>2. w \o <<>> = w
    OBVIOUS
  <2>3. Begins(v, w)
    <3>1. Len(v) <= Len(w)
      BY <1>4, <1>6
    <3> QED
      BY <1>2, <1>3, <3>1, BothBegin
  <2> HIDE DEF d
  <2>4. w \o d = w /\ d \in Seq(Syms)
    BY <2>1, <2>2
  <2> QED
    BY <1>1, <1>3, <2>3, <2>4 DEF b, v, d
<1> QED
  BY <1>5, <1>6

-----------------------------------------------------------------------------
(* What a turn shows: its text *)

StreamPcs == {"new", "model", "judge", "drain", "worker", "done", "parked", "failed", "left"}
SentRecord == [all : Seq(Syms), buf : Seq(Syms), art : Seq(Syms), started : BOOLEAN]

Written ==
  /\ via \in {"stream", "plain"} /\ pc \in StreamPcs /\ phase \in {"first", "kicker", "goal"}
  /\ raw \in Seq(Syms) /\ shown \in Seq(Syms) /\ noted \in BOOLEAN
  /\ budget \in [items : Nat, runs : 0..MaxRuns] /\ Len(raw) + budget.items <= MaxItems

\* Until the turn is done the executor has what was sent, in its artifact or buffered.
Buffered ==
  /\ pc # "done" => sent \in SentRecord /\ sent.art \o sent.buf = sent.all
  /\ pc = "new" => sent = Stream!Silent

\* The answer of a turn that no goal continues is taken from the text of its last run.
Answered ==
  /\ phase = "kicker" /\ pc = "model" => final = <<>>
  /\ pc = "judge" /\ phase # "goal" => final = Stream!Extract(raw)

\* What was shown lies between what is visible and what may be shown.
Between ==
  pc \in {"model", "judge"} /\ phase # "goal" /\ via = "stream" =>
    /\ sent.all = shown
    /\ Begins(Stream!Visible(raw), shown) /\ Begins(shown, Sure(raw))

TextInv == Written /\ Buffered /\ Answered /\ Between

LEMMA StreamConstants ==
  MaxItems \in Nat /\ MaxRuns \in Nat /\ Steps \in Nat /\ Items \subseteq Stream!AllItems
  BY StreamAssumption DEF Stream!StreamAssumption

LEMMA NothingWritten ==
  /\ <<>> \in Seq(Syms) /\ Len(<<>>) = 0 /\ <<>> \o <<>> = <<>>
  /\ Begins(Stream!Visible(<<>>), <<>>) /\ Begins(<<>>, Sure(<<>>))
<1>1. <<>> \in Seq(Syms) /\ Len(<<>>) = 0 /\ <<>> \o <<>> = <<>>
  OBVIOUS
<1>2. Stream!At(<<>>, "output") = 0
  <2>1. \A i \in 1..Len(<<>>) : <<>>[i] # "output"
    OBVIOUS
  <2> QED
    BY <1>1, <2>1, AtIs
<1>3. Sure(<<>>) = <<>> /\ Stream!Visible(<<>>) = <<>>
  BY <1>1, <1>2, NothingSure
<1>4. Begins(<<>>, <<>>)
  BY <1>1, BeginsIs
<1> QED
  BY <1>1, <1>3, <1>4

LEMMA TextInit == Init => TextInv
<1> SUFFICES ASSUME Init PROVE TextInv
  OBVIOUS
<1>1. Stream!Init
  BY DEF Init
<1>2. Written
  <2>1. budget \in [items : Nat, runs : 0..MaxRuns] /\ budget.items = MaxItems /\ budget.runs = MaxRuns
    BY <1>1, StreamConstants DEF Stream!Init
  <2>2. raw = <<>> /\ shown = <<>>
    BY <1>1 DEF Stream!Init
  <2>3. Len(raw) + budget.items <= MaxItems
    BY <2>1, <2>2, NothingWritten, StreamConstants
  <2>4. raw \in Seq(Syms) /\ shown \in Seq(Syms)
    BY <2>2, NothingWritten
  <2>5. via \in {"stream", "plain"} /\ pc \in StreamPcs /\ phase \in {"first", "kicker", "goal"} /\ noted \in BOOLEAN
    BY <1>1 DEF Stream!Init, StreamPcs
  <2> QED
    BY <2>1, <2>3, <2>4, <2>5 DEF Written
<1>3. Buffered
  BY <1>1, NothingWritten DEF Stream!Init, Stream!Silent, Buffered, SentRecord
<1> QED
  BY <1>1, <1>2, <1>3 DEF Stream!Init, TextInv, Answered, Between

\* A new run of the model.
LEMMA RunStarts ==
  ASSUME Written, NEW ph \in {"first", "kicker", "goal"}, Stream!Run(ph), noted' \in BOOLEAN, via' = via
  PROVE  /\ Written' /\ pc' = "model" /\ phase' = ph /\ raw' = <<>> /\ shown' = <<>>
<1>1. /\ budget.runs > 0 /\ budget' = [budget EXCEPT !.runs = @ - 1]
      /\ pc' = "model" /\ phase' = ph /\ raw' = <<>> /\ shown' = <<>>
  BY DEF Stream!Run
<1>2. budget \in [items : Nat, runs : 0..MaxRuns] /\ Len(raw) + budget.items <= MaxItems /\ Len(raw) \in Nat
      /\ MaxItems \in Nat /\ MaxRuns \in Nat
  BY StreamConstants DEF Written
<1>3. budget' \in [items : Nat, runs : 0..MaxRuns] /\ budget'.items = budget.items
  BY <1>1, <1>2
<1>4. Len(raw') + budget'.items <= MaxItems
  BY <1>1, <1>2, <1>3, NothingWritten
<1> QED
  BY <1>1, <1>3, <1>4, NothingWritten DEF Written, StreamPcs

LEMMA AskText == ASSUME TextInv, Stream!Ask PROVE TextInv'
<1>1. pc = "new" /\ Stream!Run("first") /\ via' = via /\ noted' = noted /\ sent' = sent /\ final' = final
  BY DEF Stream!Ask
<1>2. Written' /\ pc' = "model" /\ phase' = "first" /\ raw' = <<>> /\ shown' = <<>>
  <2>1. Written /\ noted' \in BOOLEAN
    BY <1>1 DEF TextInv, Written
  <2> QED
    BY <1>1, <2>1, RunStarts
<1>3. sent = Stream!Silent /\ sent \in SentRecord /\ sent.art \o sent.buf = sent.all
  BY <1>1 DEF TextInv, Buffered
<1>4. Buffered'
  BY <1>1, <1>2, <1>3 DEF Buffered
<1>5. sent'.all = shown'
  BY <1>1, <1>2, <1>3 DEF Stream!Silent
<1> QED
  BY <1>2, <1>4, <1>5, NothingWritten DEF TextInv, Answered, Between

LEMMA RetryText == ASSUME TextInv, Stream!Retry PROVE TextInv'
<1>1. /\ pc = "model" /\ Stream!Drops /\ Stream!Run("kicker") /\ via' = via /\ noted' = noted
      /\ sent' = sent /\ final' = <<>>
  BY DEF Stream!Retry
<1>2. Written' /\ pc' = "model" /\ phase' = "kicker" /\ raw' = <<>> /\ shown' = <<>>
  <2>1. Written /\ noted' \in BOOLEAN
    BY <1>1 DEF TextInv, Written
  <2> QED
    BY <1>1, <2>1, RunStarts
<1>3. phase = "first" /\ via = "stream" /\ Stream!Dropped(raw)
  BY <1>1 DEF Stream!Drops
<1>4. sent.all = shown /\ Begins(shown, Sure(raw))
  BY <1>1, <1>3 DEF TextInv, Between
<1>5. shown = <<>>
  <2>1. raw \in Seq(Syms) /\ shown \in Seq(Syms)
    BY DEF TextInv, Written
  <2> QED
    BY <1>3, <1>4, <2>1, ReasonsOnly
<1>6. Buffered'
  BY <1>1, <1>2 DEF TextInv, Buffered
<1> QED
  BY <1>1, <1>2, <1>4, <1>5, <1>6, NothingWritten DEF TextInv, Answered, Between

LEMMA ContinueText == ASSUME TextInv, Stream!Continue PROVE TextInv'
<1>1. pc = "judge" /\ Stream!Run("goal") /\ via' = via /\ noted' \in BOOLEAN /\ sent' = sent /\ final' = final
  BY DEF Stream!Continue
<1>2. Written' /\ pc' = "model" /\ phase' = "goal"
  <2>1. Written
    BY DEF TextInv
  <2> QED
    BY <1>1, <2>1, RunStarts
<1> QED
  BY <1>1, <1>2 DEF TextInv, Buffered, Answered, Between

LEMMA RunEndsText == ASSUME TextInv, Stream!RunEnds PROVE TextInv'
<1>1. /\ pc = "model" /\ pc' = "judge"
      /\ final' = IF phase = "first" \/ Stream!Extract(raw) # <<>> THEN Stream!Extract(raw) ELSE final
      /\ UNCHANGED <<via, phase, raw, shown, budget, noted, sent>>
  BY DEF Stream!RunEnds, Stream!flowVars
<1>2. Written' /\ Buffered' /\ Between'
  BY <1>1 DEF TextInv, Written, StreamPcs, Buffered, Between
<1>3. Answered'
  <2>1. phase \in {"first", "kicker", "goal"} /\ (phase = "kicker" => final = <<>>)
    BY <1>1 DEF TextInv, Written, Answered
  <2>2. phase # "goal" => final' = Stream!Extract(raw)
    BY <1>1, <2>1
  <2> QED
    BY <1>1, <2>2 DEF Answered
<1> QED
  BY <1>2, <1>3 DEF TextInv

\* The turn ends, or leaves the path on which text is shown.
Leaves ==
  /\ UNCHANGED <<via, phase, raw, shown, budget>> /\ noted' \in BOOLEAN
  /\ pc' \in StreamPcs \ {"new", "model", "judge"}
  /\ pc # "done"
  /\ pc' # "done" => sent' \in SentRecord /\ sent'.art \o sent'.buf = sent'.all

LEMMA LeavesText == ASSUME TextInv, Leaves PROVE TextInv'
<1>1. Written'
  BY DEF TextInv, Written, Leaves
<1>2. pc' \notin {"new", "model", "judge"} /\ (pc' # "done" => sent' \in SentRecord /\ sent'.art \o sent'.buf = sent'.all)
  BY DEF Leaves
<1> QED
  BY <1>1, <1>2 DEF TextInv, Buffered, Answered, Between

\* Nothing of the text changes.
LEMMA QuietText ==
  ASSUME TextInv, UNCHANGED <<via, pc, phase, raw, shown, budget, final, noted, sent>> PROVE TextInv'
<1>1. Written' /\ Buffered' /\ Answered' /\ Between'
  BY DEF TextInv, Written, Buffered, Answered, Between
<1> QED
  BY <1>1 DEF TextInv

LEMMA PauseText == ASSUME TextInv, Stream!Pause PROVE TextInv'
<1>1. /\ pc = "model" /\ pc' = "parked"
      /\ sent' = [sent EXCEPT !.art = @ \o sent.buf, !.buf = <<>>, !.started = @ \/ sent.buf # <<>>]
      /\ UNCHANGED <<via, phase, raw, shown, budget, noted>>
  BY DEF Stream!Pause, Stream!modelVars
<1>2. sent \in SentRecord /\ sent.art \o sent.buf = sent.all
  BY <1>1 DEF TextInv, Buffered
<1>3. /\ sent'.all = sent.all /\ sent'.art = sent.art \o sent.buf /\ sent'.buf = <<>>
      /\ sent' \in SentRecord
  <2>1. sent.art \o sent.buf \in Seq(Syms) /\ <<>> \in Seq(Syms)
    BY <1>2, ConcatIs DEF SentRecord
  <2>2. (sent.started \/ sent.buf # <<>>) \in BOOLEAN
    OBVIOUS
  <2> QED
    BY <1>1, <1>2, <2>1, <2>2 DEF SentRecord
<1>4. sent'.art \o sent'.buf = sent'.all
  <2>1. sent.all \in Seq(Syms)
    BY <1>2 DEF SentRecord
  <2>2. sent.all \o <<>> = sent.all
    BY <2>1
  <2> QED
    BY <1>2, <1>3, <2>2
<1>5. Leaves
  BY <1>1, <1>3, <1>4 DEF Leaves, StreamPcs, TextInv, Written
<1> QED
  BY <1>5, LeavesText

-----------------------------------------------------------------------------
(* What a turn shows: a workflow's events *)

QItem == {"start", "end", "over"} \X (0..Steps)
ToSay(at) == IF at \in {"none", "running"} THEN 1 ELSE 0

\* A step has an end event to come: it runs, or the event is queued after place k.
Ending(i, b, q, k) == i \in b \/ \E m \in DOMAIN q : m > k /\ q[m] = <<"end", i>>

FlowTyped ==
  /\ runner \in [at : {"none", "running", "finished", "raised"}, todo : SUBSET (1..Steps), busy : SUBSET (1..Steps)]
  /\ runner.todo \intersect runner.busy = {} /\ cards \in SUBSET (0..Steps) /\ pc \in StreamPcs
  /\ queue \in Seq(QItem)
  /\ Len(queue) + 2 * Cardinality(runner.todo) + Cardinality(runner.busy) + ToSay(runner.at) <= 2 * Steps + 1

Quiet ==
  /\ pc \in {"new", "model", "judge", "worker"} => runner = Stream!NoRunner /\ queue = <<>>
  /\ pc \in {"new", "model", "judge", "done"} => cards = {}
  /\ runner.at = "none" => queue = <<>>
  /\ runner.at = "finished" => runner.busy = {}

OverIsLast ==
  \A i \in DOMAIN queue : queue[i][1] = "over" => i = Len(queue) /\ runner.at \in {"finished", "raised"}

OverComes ==
  pc = "drain" =>
    /\ runner.at # "none"
    /\ runner.at = "running" \/ (queue # <<>> /\ queue[Len(queue)][1] = "over")

EndsCome ==
  pc = "drain" =>
    /\ \A i \in cards \ {0} : Ending(i, runner.busy, queue, 0)
    /\ \A k \in DOMAIN queue : queue[k][1] = "start" => Ending(queue[k][2], runner.busy, queue, k)

FlowInv == FlowTyped /\ Quiet /\ OverIsLast /\ OverComes /\ EndsCome

LEMMA FlowInit == Init => FlowInv
<1> SUFFICES ASSUME Init PROVE FlowInv
  OBVIOUS
<1>1. runner = Stream!NoRunner /\ queue = <<>> /\ cards = {} /\ pc = "new"
  BY DEF Init, Stream!Init
<1>2. runner.at = "none" /\ runner.todo = {} /\ runner.busy = {}
  BY <1>1 DEF Stream!NoRunner
<1>3. <<>> \in Seq(QItem) /\ Len(<<>>) = 0 /\ DOMAIN <<>> = {}
  OBVIOUS
<1>4. Len(queue) + 2 * Cardinality(runner.todo) + Cardinality(runner.busy) + ToSay(runner.at) <= 2 * Steps + 1
  BY <1>1, <1>2, <1>3, FS_EmptySet, StreamConstants DEF ToSay
<1>5. FlowTyped
  BY <1>1, <1>2, <1>3, <1>4 DEF FlowTyped, Stream!NoRunner, StreamPcs
<1> QED
  BY <1>1, <1>2, <1>3, <1>5 DEF FlowInv, Quiet, OverIsLast, OverComes, EndsCome

\* Only where the turn is changes, and it does not wait for a workflow.
LEMMA FlowRests ==
  ASSUME FlowInv, UNCHANGED <<runner, queue, cards>>, pc' \in StreamPcs \ {"drain"},
         pc' \in {"new", "model", "judge", "done"} => cards = {},
         pc' \in {"new", "model", "judge", "worker"} => runner = Stream!NoRunner /\ queue = <<>>
  PROVE  FlowInv'
<1>1. pc' # "drain" /\ pc' \in StreamPcs
  OBVIOUS
<1>2. FlowTyped'
  BY <1>1 DEF FlowInv, FlowTyped
<1>3. Quiet'
  BY DEF FlowInv, Quiet
<1>4. OverIsLast'
  BY DEF FlowInv, OverIsLast
<1>5. OverComes' /\ EndsCome'
  BY <1>1 DEF OverComes, EndsCome
<1> QED
  BY <1>2, <1>3, <1>4, <1>5 DEF FlowInv

LEMMA FlowStays ==
  ASSUME FlowInv, UNCHANGED <<pc, runner, queue, cards>> PROVE FlowInv'
<1>1. FlowTyped' /\ Quiet' /\ OverIsLast' /\ OverComes' /\ EndsCome'
  BY DEF FlowInv, FlowTyped, Quiet, OverIsLast, OverComes, EndsCome, Ending
<1> QED
  BY <1>1 DEF FlowInv

LEMMA Counts ==
  ASSUME NEW D \in SUBSET (1..Steps)
  PROVE  /\ IsFiniteSet(D) /\ Cardinality(D) \in Nat
         /\ \A i \in D : Cardinality(D \ {i}) = Cardinality(D) - 1
         /\ \A i \in (1..Steps) \ D : Cardinality(D \union {i}) = Cardinality(D) + 1
<1>1. IsFiniteSet(1..Steps)
  BY StreamConstants, FS_Interval
<1>2. IsFiniteSet(D)
  BY <1>1, FS_Subset
<1> QED
  BY <1>2, FS_CardinalityType, FS_AddElement, FS_RemoveElement

LEMMA WorkflowFlow == ASSUME FlowInv, Stream!Workflow PROVE FlowInv'
<1>1. pc = "new" /\ pc' = "drain" /\ cards' = {0} /\ queue' = queue
  BY DEF Stream!Workflow
<1>2. PICK n \in 0..Steps : runner' = [at |-> "running", todo |-> 1..n, busy |-> {}]
  BY DEF Stream!Workflow
<1>3. queue = <<>> /\ DOMAIN <<>> = {} /\ Len(<<>>) = 0
  BY <1>1 DEF FlowInv, Quiet
<1>4. runner'.at = "running" /\ runner'.todo = 1..n /\ runner'.busy = {}
  BY <1>2
<1>5. Cardinality(1..n) = n /\ n \in Nat /\ n <= Steps /\ Steps \in Nat /\ 1..n \in SUBSET (1..Steps) /\ 0 \in 0..Steps
  <2>1. n \in Nat /\ n <= Steps /\ Steps \in Nat
    BY StreamConstants
  <2>2. Cardinality(1..n) = n
    <3>1. 1 \in Int /\ n \in Int /\ 1 <= n + 1
      BY <2>1
    <3>2. Cardinality(1..n) = IF 1 > n THEN 0 ELSE n - 1 + 1
      BY <2>1, FS_Interval
    <3> QED
      BY <2>1, <3>2
  <2> QED
    BY <2>1, <2>2
<1>6. Len(queue') + 2 * Cardinality(runner'.todo) + Cardinality(runner'.busy) + ToSay(runner'.at) <= 2 * Steps + 1
  BY <1>1, <1>3, <1>4, <1>5, FS_EmptySet DEF ToSay
<1>7. FlowTyped'
  <2>1. runner' \in [at : {"none", "running", "finished", "raised"}, todo : SUBSET (1..Steps), busy : SUBSET (1..Steps)]
    BY <1>2, <1>5
  <2>2. queue' \in Seq(QItem)
    BY <1>1 DEF FlowInv, FlowTyped
  <2> QED
    BY <1>1, <1>4, <1>5, <1>6, <2>1, <2>2 DEF FlowTyped, StreamPcs
<1>8. Quiet' /\ OverIsLast' /\ OverComes' /\ EndsCome'
  BY <1>1, <1>3, <1>4 DEF Quiet, OverIsLast, OverComes, EndsCome
<1> QED
  BY <1>7, <1>8 DEF FlowInv

\* An event is added at the end.
LEMMA Queues ==
  ASSUME FlowInv, NEW e \in QItem, queue' = Append(queue, e)
  PROVE  /\ queue' \in Seq(QItem) /\ Len(queue) \in Nat /\ Len(queue') = Len(queue) + 1
         /\ DOMAIN queue' = 1..(Len(queue) + 1) /\ queue'[Len(queue) + 1] = e
         /\ \A i \in DOMAIN queue : i \in DOMAIN queue' /\ i # Len(queue) + 1 /\ queue'[i] = queue[i]
         /\ \A i \in DOMAIN queue' : i \in DOMAIN queue \/ i = Len(queue) + 1
<1>1. queue \in Seq(QItem) /\ Len(queue) \in Nat /\ DOMAIN queue = 1..Len(queue)
  BY DEF FlowInv, FlowTyped
<1>2. /\ queue' \in Seq(QItem) /\ Len(queue') = Len(queue) + 1
      /\ DOMAIN queue' = 1..(Len(queue) + 1) /\ queue'[Len(queue) + 1] = e
      /\ \A i \in 1..Len(queue) : queue'[i] = queue[i]
  BY <1>1, AppendAt
<1>3. /\ \A i \in 1..Len(queue) : i \in 1..(Len(queue) + 1) /\ i # Len(queue) + 1
      /\ \A i \in 1..(Len(queue) + 1) : i \in 1..Len(queue) \/ i = Len(queue) + 1
  BY <1>1
<1> QED
  BY <1>1, <1>2, <1>3

LEMMA StepBeginsFlow ==
  ASSUME FlowInv, NEW i \in 1..Steps, Stream!StepBegins(i) PROVE FlowInv'
<1> DEFINE n == Len(queue)
<1>1. /\ runner.at = "running" /\ i \in runner.todo /\ queue' = Append(queue, <<"start", i>>)
      /\ runner' = [runner EXCEPT !.todo = @ \ {i}, !.busy = @ \union {i}]
      /\ cards' = cards /\ pc' = pc
  BY DEF Stream!StepBegins
<1>2. FlowTyped
  BY DEF FlowInv
<1>3. <<"start", i>> \in QItem
  BY StreamConstants DEF QItem
<1>4. /\ queue' \in Seq(QItem) /\ n \in Nat /\ Len(queue') = n + 1
      /\ DOMAIN queue' = 1..(n + 1) /\ queue'[n + 1] = <<"start", i>>
      /\ \A j \in DOMAIN queue : j \in DOMAIN queue' /\ j # n + 1 /\ queue'[j] = queue[j]
      /\ \A j \in DOMAIN queue' : j \in DOMAIN queue \/ j = n + 1
  BY <1>1, <1>3, Queues
<1>5. /\ runner'.at = "running" /\ runner'.todo = runner.todo \ {i} /\ runner'.busy = runner.busy \union {i}
      /\ runner' \in [at : {"none", "running", "finished", "raised"}, todo : SUBSET (1..Steps), busy : SUBSET (1..Steps)]
      /\ i \notin runner.busy /\ runner.todo \in SUBSET (1..Steps) /\ runner.busy \in SUBSET (1..Steps)
  BY <1>1, <1>2 DEF FlowTyped
<1>6. FlowTyped'
  <2>1. Cardinality(runner'.todo) = Cardinality(runner.todo) - 1 /\ Cardinality(runner.todo) \in Nat
    BY <1>1, <1>5, Counts
  <2>2. Cardinality(runner'.busy) = Cardinality(runner.busy) + 1 /\ Cardinality(runner.busy) \in Nat
    BY <1>5, Counts
  <2>3. n + 2 * Cardinality(runner.todo) + Cardinality(runner.busy) + ToSay(runner.at) <= 2 * Steps + 1
    BY <1>2 DEF FlowTyped
  <2>4. ToSay(runner.at) = 1 /\ ToSay(runner'.at) = 1
    BY <1>1, <1>5 DEF ToSay
  <2> HIDE DEF n
  <2>5. Len(queue') + 2 * Cardinality(runner'.todo) + Cardinality(runner'.busy) + ToSay(runner'.at) <= 2 * Steps + 1
    BY <1>4, <2>1, <2>2, <2>3, <2>4, StreamConstants, SMTT(30)
  <2>6. runner'.todo \intersect runner'.busy = {}
    BY <1>2, <1>5 DEF FlowTyped
  <2> QED
    BY <1>1, <1>2, <1>4, <1>5, <2>5, <2>6 DEF FlowTyped
<1>7. pc \notin {"new", "model", "judge", "worker"}
  BY <1>1 DEF FlowInv, Quiet, Stream!NoRunner
<1>8. Quiet' /\ OverComes'
  BY <1>1, <1>5, <1>7 DEF FlowInv, Quiet, OverComes
<1>9. OverIsLast'
  <2>1. \A j \in DOMAIN queue : queue[j][1] # "over"
    BY <1>1 DEF FlowInv, OverIsLast
  <2>2. queue'[n + 1][1] # "over"
    BY <1>4
  <2> HIDE DEF n
  <2> QED
    BY <1>4, <2>1, <2>2 DEF OverIsLast
<1>10. EndsCome'
  <2>1. ASSUME pc = "drain" PROVE EndsCome'
    <3>1. /\ \A j \in cards \ {0} : Ending(j, runner.busy, queue, 0)
          /\ \A k \in DOMAIN queue : queue[k][1] = "start" => Ending(queue[k][2], runner.busy, queue, k)
      BY <2>1 DEF FlowInv, EndsCome
    <3>2. \A j, k : Ending(j, runner.busy, queue, k) => Ending(j, runner'.busy, queue', k)
      <4> HIDE DEF n
      <4> QED
        BY <1>4, <1>5 DEF Ending
    <3>3. Ending(i, runner'.busy, queue', n + 1)
      BY <1>5 DEF Ending
    <3>4. queue'[n + 1][2] = i
      BY <1>4
    <3> HIDE DEF n
    <3>5. \A k \in DOMAIN queue' : queue'[k][1] = "start" => Ending(queue'[k][2], runner'.busy, queue', k)
      BY <1>4, <3>1, <3>2, <3>3, <3>4
    <3> QED
      BY <1>1, <3>1, <3>2, <3>5 DEF EndsCome
  <2>2. CASE pc # "drain"
    BY <1>1, <2>2 DEF EndsCome
  <2> QED
    BY <2>1, <2>2
<1> QED
  BY <1>6, <1>8, <1>9, <1>10 DEF FlowInv

LEMMA StepEndsFlow ==
  ASSUME FlowInv, NEW i \in 1..Steps, Stream!StepEnds(i) PROVE FlowInv'
<1> DEFINE n == Len(queue)
<1>1. /\ runner.at = "running" /\ i \in runner.busy /\ queue' = Append(queue, <<"end", i>>)
      /\ runner' = [runner EXCEPT !.busy = @ \ {i}]
      /\ cards' = cards /\ pc' = pc
  BY DEF Stream!StepEnds
<1>2. FlowTyped
  BY DEF FlowInv
<1>3. <<"end", i>> \in QItem
  BY StreamConstants DEF QItem
<1>4. /\ queue' \in Seq(QItem) /\ n \in Nat /\ Len(queue') = n + 1
      /\ DOMAIN queue' = 1..(n + 1) /\ queue'[n + 1] = <<"end", i>>
      /\ \A j \in DOMAIN queue : j \in DOMAIN queue' /\ j # n + 1 /\ queue'[j] = queue[j]
      /\ \A j \in DOMAIN queue' : j \in DOMAIN queue \/ j = n + 1
  BY <1>1, <1>3, Queues
<1>5. /\ runner'.at = "running" /\ runner'.todo = runner.todo /\ runner'.busy = runner.busy \ {i}
      /\ runner' \in [at : {"none", "running", "finished", "raised"}, todo : SUBSET (1..Steps), busy : SUBSET (1..Steps)]
      /\ runner.busy \in SUBSET (1..Steps) /\ runner.todo \in SUBSET (1..Steps)
  BY <1>1, <1>2 DEF FlowTyped
<1>6. FlowTyped'
  <2>1. Cardinality(runner'.busy) = Cardinality(runner.busy) - 1 /\ Cardinality(runner.busy) \in Nat
    BY <1>1, <1>5, Counts
  <2>2. Cardinality(runner.todo) \in Nat
    BY <1>5, Counts
  <2>3. n + 2 * Cardinality(runner.todo) + Cardinality(runner.busy) + ToSay(runner.at) <= 2 * Steps + 1
    BY <1>2 DEF FlowTyped
  <2>4. ToSay(runner.at) = 1 /\ ToSay(runner'.at) = 1
    BY <1>1, <1>5 DEF ToSay
  <2> HIDE DEF n
  <2>5. Len(queue') + 2 * Cardinality(runner'.todo) + Cardinality(runner'.busy) + ToSay(runner'.at) <= 2 * Steps + 1
    BY <1>4, <1>5, <2>1, <2>2, <2>3, <2>4, StreamConstants
  <2>6. runner'.todo \intersect runner'.busy = {}
    BY <1>2, <1>5 DEF FlowTyped
  <2> QED
    BY <1>1, <1>2, <1>4, <1>5, <2>5, <2>6 DEF FlowTyped
<1>7. pc \notin {"new", "model", "judge", "worker"}
  BY <1>1 DEF FlowInv, Quiet, Stream!NoRunner
<1>8. Quiet' /\ OverComes'
  BY <1>1, <1>5, <1>7 DEF FlowInv, Quiet, OverComes
<1>9. OverIsLast'
  <2>1. \A j \in DOMAIN queue : queue[j][1] # "over"
    BY <1>1 DEF FlowInv, OverIsLast
  <2>2. queue'[n + 1][1] # "over"
    BY <1>4
  <2> HIDE DEF n
  <2> QED
    BY <1>4, <2>1, <2>2 DEF OverIsLast
<1>10. EndsCome'
  <2>1. ASSUME pc = "drain" PROVE EndsCome'
    <3>1. /\ \A j \in cards \ {0} : Ending(j, runner.busy, queue, 0)
          /\ \A k \in DOMAIN queue : queue[k][1] = "start" => Ending(queue[k][2], runner.busy, queue, k)
      BY <2>1 DEF FlowInv, EndsCome
    <3>2. \A j : \A k \in 0..n : Ending(j, runner.busy, queue, k) => Ending(j, runner'.busy, queue', k)
      <4>1. \A k \in 0..n : n + 1 > k
        BY <1>4
      <4>2. n + 1 \in DOMAIN queue'
        BY <1>4
      <4> HIDE DEF n
      <4> QED
        BY <1>4, <1>5, <4>1, <4>2 DEF Ending
    <3>3. DOMAIN queue \subseteq 0..n /\ 0 \in 0..n
      BY <1>2 DEF FlowTyped
    <3>4. queue'[n + 1][1] # "start"
      BY <1>4
    <3> HIDE DEF n
    <3>5. \A k \in DOMAIN queue' : queue'[k][1] = "start" => Ending(queue'[k][2], runner'.busy, queue', k)
      BY <1>4, <3>1, <3>2, <3>3, <3>4
    <3> QED
      BY <1>1, <3>1, <3>2, <3>3, <3>5 DEF EndsCome
  <2>2. CASE pc # "drain"
    BY <1>1, <2>2 DEF EndsCome
  <2> QED
    BY <2>1, <2>2
<1> QED
  BY <1>6, <1>8, <1>9, <1>10 DEF FlowInv

LEMMA RunnerEndsFlow ==
  ASSUME FlowInv, NEW ok \in BOOLEAN, Stream!RunnerEnds(ok) PROVE FlowInv'
<1> DEFINE n == Len(queue)
<1>1. /\ runner.at = "running" /\ runner.busy = {} /\ queue' = Append(queue, <<"over", 0>>)
      /\ runner' = [runner EXCEPT !.at = IF ok THEN "finished" ELSE "raised"]
      /\ cards' = cards /\ pc' = pc
  BY DEF Stream!RunnerEnds
<1>2. FlowTyped
  BY DEF FlowInv
<1>3. <<"over", 0>> \in QItem
  BY StreamConstants DEF QItem
<1>4. /\ queue' \in Seq(QItem) /\ n \in Nat /\ Len(queue') = n + 1
      /\ DOMAIN queue' = 1..(n + 1) /\ queue'[n + 1] = <<"over", 0>>
      /\ \A j \in DOMAIN queue : j \in DOMAIN queue' /\ j # n + 1 /\ queue'[j] = queue[j]
      /\ \A j \in DOMAIN queue' : j \in DOMAIN queue \/ j = n + 1
  BY <1>1, <1>3, Queues
<1>5. /\ runner'.at \in {"finished", "raised"} /\ runner'.todo = runner.todo /\ runner'.busy = runner.busy
      /\ runner' \in [at : {"none", "running", "finished", "raised"}, todo : SUBSET (1..Steps), busy : SUBSET (1..Steps)]
      /\ runner.busy \in SUBSET (1..Steps) /\ runner.todo \in SUBSET (1..Steps)
  BY <1>1, <1>2 DEF FlowTyped
<1>6. FlowTyped'
  <2>1. Cardinality(runner.todo) \in Nat /\ Cardinality(runner.busy) \in Nat
    BY <1>5, Counts
  <2>3. n + 2 * Cardinality(runner.todo) + Cardinality(runner.busy) + ToSay(runner.at) <= 2 * Steps + 1
    BY <1>2 DEF FlowTyped
  <2>4. ToSay(runner.at) = 1 /\ ToSay(runner'.at) = 0
    BY <1>1, <1>5 DEF ToSay
  <2> HIDE DEF n
  <2>5. Len(queue') + 2 * Cardinality(runner'.todo) + Cardinality(runner'.busy) + ToSay(runner'.at) <= 2 * Steps + 1
    BY <1>4, <1>5, <2>1, <2>3, <2>4, StreamConstants
  <2> QED
    BY <1>1, <1>2, <1>4, <1>5, <2>5 DEF FlowTyped
<1>7. pc \notin {"new", "model", "judge", "worker"}
  BY <1>1 DEF FlowInv, Quiet, Stream!NoRunner
<1>8. Quiet'
  BY <1>1, <1>5, <1>7 DEF FlowInv, Quiet
<1>11. queue' # <<>> /\ queue'[Len(queue')][1] = "over"
  BY <1>4
<1>12. OverComes'
  BY <1>5, <1>11 DEF OverComes
<1>9. OverIsLast'
  <2>1. \A j \in DOMAIN queue : queue[j][1] # "over"
    BY <1>1 DEF FlowInv, OverIsLast
  <2> HIDE DEF n
  <2> QED
    BY <1>4, <1>5, <2>1 DEF OverIsLast
<1>10. EndsCome'
  <2>1. ASSUME pc = "drain" PROVE EndsCome'
    <3>1. /\ \A j \in cards \ {0} : Ending(j, runner.busy, queue, 0)
          /\ \A k \in DOMAIN queue : queue[k][1] = "start" => Ending(queue[k][2], runner.busy, queue, k)
      BY <2>1 DEF FlowInv, EndsCome
    <3>2. \A j, k : Ending(j, runner.busy, queue, k) => Ending(j, runner'.busy, queue', k)
      <4> HIDE DEF n
      <4> QED
        BY <1>4, <1>5 DEF Ending
    <3>4. queue'[n + 1][1] # "start"
      BY <1>4
    <3> HIDE DEF n
    <3>5. \A k \in DOMAIN queue' : queue'[k][1] = "start" => Ending(queue'[k][2], runner'.busy, queue', k)
      BY <1>4, <3>1, <3>2, <3>4
    <3> QED
      BY <1>1, <3>1, <3>2, <3>5 DEF EndsCome
  <2>2. CASE pc # "drain"
    BY <1>1, <2>2 DEF EndsCome
  <2> QED
    BY <2>1, <2>2
<1> QED
  BY <1>6, <1>8, <1>9, <1>10, <1>12 DEF FlowInv

LEMMA Dequeues ==
  ASSUME FlowInv, queue # <<>>, queue' = Tail(queue)
  PROVE  /\ queue' \in Seq(QItem) /\ Len(queue) \in Nat /\ Len(queue) >= 1 /\ Len(queue') = Len(queue) - 1
         /\ \A i \in DOMAIN queue' : i + 1 \in DOMAIN queue /\ i \in Nat /\ i >= 1 /\ queue'[i] = queue[i + 1]
         /\ \A i \in DOMAIN queue : i # 1 => i - 1 \in DOMAIN queue' /\ i \in Nat /\ queue'[i - 1] = queue[i]
         /\ Head(queue) = queue[1] /\ 1 \in DOMAIN queue /\ Head(queue) \in QItem
<1>1. queue \in Seq(QItem) /\ Len(queue) \in Nat /\ DOMAIN queue = 1..Len(queue) /\ Len(queue) >= 1
  BY DEF FlowInv, FlowTyped
<1>2. queue' \in Seq(QItem) /\ Len(queue') = Len(queue) - 1 /\ \A i \in 1..Len(queue') : queue'[i] = queue[i + 1]
  BY <1>1, HeadTailProperties
<1>3. DOMAIN queue' = 1..(Len(queue) - 1)
  BY <1>2
<1>4. \A i \in 1..(Len(queue) - 1) : i + 1 \in 1..Len(queue) /\ i \in Nat /\ i >= 1
  BY <1>1
<1>5. \A i \in 1..Len(queue) : i # 1 => i - 1 \in 1..(Len(queue) - 1) /\ i \in Nat /\ (i - 1) + 1 = i
  BY <1>1
<1>6. Head(queue) = queue[1] /\ 1 \in DOMAIN queue /\ Head(queue) \in QItem
  BY <1>1
<1> QED
  BY <1>1, <1>2, <1>3, <1>4, <1>5, <1>6

LEMMA DrainFlow == ASSUME FlowInv, Stream!Drain PROVE FlowInv'
<1> DEFINE h == Head(queue)
<1>1. pc = "drain" /\ queue # <<>> /\ queue' = Tail(queue) /\ runner' = runner
  BY DEF Stream!Drain
<1>2. /\ queue' \in Seq(QItem) /\ Len(queue) \in Nat /\ Len(queue) >= 1 /\ Len(queue') = Len(queue) - 1
      /\ \A i \in DOMAIN queue' : i + 1 \in DOMAIN queue /\ i \in Nat /\ i >= 1 /\ queue'[i] = queue[i + 1]
      /\ \A i \in DOMAIN queue : i # 1 => i - 1 \in DOMAIN queue' /\ i \in Nat /\ queue'[i - 1] = queue[i]
      /\ h = queue[1] /\ 1 \in DOMAIN queue /\ h \in QItem
  BY <1>1, Dequeues
<1>3. /\ h[1] \in {"start", "end", "over"} /\ h[2] \in 0..Steps /\ h = <<h[1], h[2]>>
  BY <1>2 DEF QItem
<1>4. FlowTyped
  BY DEF FlowInv
<1>5. ASSUME cards' \in SUBSET (0..Steps), pc' \in StreamPcs PROVE FlowTyped'
  <2>1. runner.todo \in SUBSET (1..Steps) /\ runner.busy \in SUBSET (1..Steps)
    BY <1>4 DEF FlowTyped
  <2>2. Cardinality(runner.todo) \in Nat /\ Cardinality(runner.busy) \in Nat
    BY <2>1, Counts
  <2>3. ToSay(runner.at) \in Nat
    BY DEF ToSay
  <2>4. Len(queue) + 2 * Cardinality(runner.todo) + Cardinality(runner.busy) + ToSay(runner.at) <= 2 * Steps + 1
    BY <1>4 DEF FlowTyped
  <2>5. Len(queue') + 2 * Cardinality(runner'.todo) + Cardinality(runner'.busy) + ToSay(runner'.at) <= 2 * Steps + 1
    BY <1>1, <1>2, <2>2, <2>3, <2>4, StreamConstants
  <2> QED
    BY <1>1, <1>2, <1>4, <1>5, <2>5 DEF FlowTyped
<1>6. OverIsLast'
  <2>1. \A i \in DOMAIN queue : queue[i][1] = "over" => i = Len(queue) /\ runner.at \in {"finished", "raised"}
    BY DEF FlowInv, OverIsLast
  <2>2. ASSUME NEW i \in DOMAIN queue', queue'[i][1] = "over"
        PROVE  i = Len(queue') /\ runner'.at \in {"finished", "raised"}
    <3>1. i + 1 \in DOMAIN queue /\ queue[i + 1][1] = "over" /\ i \in Nat
      BY <1>2, <2>2
    <3>2. i + 1 = Len(queue) /\ runner.at \in {"finished", "raised"}
      BY <2>1, <3>1
    <3> QED
      BY <1>1, <1>2, <3>1, <3>2
  <2> QED
    BY <2>2 DEF OverIsLast
<1>7. /\ runner.at # "none" /\ (runner.at = "running" \/ queue[Len(queue)][1] = "over")
      /\ \A i \in cards \ {0} : Ending(i, runner.busy, queue, 0)
      /\ \A k \in DOMAIN queue : queue[k][1] = "start" => Ending(queue[k][2], runner.busy, queue, k)
  BY <1>1 DEF FlowInv, OverComes, EndsCome
\* An end that is not the first event is still to come.
<1>8. ASSUME NEW j, NEW k \in Nat, Ending(j, runner.busy, queue, k), k >= 1 \/ h # <<"end", j>>
      PROVE  Ending(j, runner'.busy, queue', IF k >= 1 THEN k - 1 ELSE 0)
  <2>1. CASE j \in runner.busy
    BY <1>1, <2>1 DEF Ending
  <2>2. CASE j \notin runner.busy
    <3>1. PICK m \in DOMAIN queue : m > k /\ queue[m] = <<"end", j>>
      BY <1>8, <2>2 DEF Ending
    <3>2. m # 1
      <4>1. CASE k >= 1
        BY <3>1, <4>1
      <4>2. CASE h # <<"end", j>>
        BY <1>2, <3>1, <4>2
      <4> QED
        BY <1>8, <4>1, <4>2
    <3>3. m - 1 \in DOMAIN queue' /\ m \in Nat /\ queue'[m - 1] = <<"end", j>>
      BY <1>2, <3>1, <3>2
    <3>4. m - 1 > IF k >= 1 THEN k - 1 ELSE 0
      <4>1. m - 1 \in 1..Len(queue')
        BY <1>2, <3>3
      <4> QED
        BY <3>1, <3>3, <4>1
    <3> HIDE DEF h
    <3> QED
      BY <3>3, <3>4 DEF Ending
  <2> QED
    BY <2>1, <2>2
<1>9. \A k \in DOMAIN queue' : queue'[k][1] = "start" => Ending(queue'[k][2], runner'.busy, queue', k)
  <2>1. ASSUME NEW k \in DOMAIN queue', queue'[k][1] = "start"
        PROVE  Ending(queue'[k][2], runner'.busy, queue', k)
    <3>1. k + 1 \in DOMAIN queue /\ k \in Nat /\ queue'[k] = queue[k + 1]
      BY <1>2
    <3>2. Ending(queue[k + 1][2], runner.busy, queue, k + 1)
      BY <1>7, <2>1, <3>1
    <3>3. k + 1 \in Nat /\ k + 1 >= 1 /\ (k + 1) - 1 = k
      BY <3>1
    <3>4. Ending(queue[k + 1][2], runner'.busy, queue', IF k + 1 >= 1 THEN (k + 1) - 1 ELSE 0)
      BY <1>8, <3>2, <3>3
    <3> QED
      BY <3>1, <3>3, <3>4
  <2> QED
    BY <2>1
\* What follows the first event when it is not the last word.
<1>10. ASSUME h[1] # "over" PROVE runner.at = "running" \/ (queue' # <<>> /\ queue'[Len(queue')][1] = "over")
  <2>1. CASE runner.at # "running"
    <3>1. Len(queue) \in DOMAIN queue /\ queue[Len(queue)][1] = "over"
      BY <1>4, <1>7, <2>1, <1>2 DEF FlowTyped
    <3>2. Len(queue) # 1
      BY <1>2, <1>10, <3>1
    <3>3. queue'[Len(queue) - 1] = queue[Len(queue)] /\ Len(queue') = Len(queue) - 1 /\ Len(queue') > 0
      BY <1>2, <3>1, <3>2
    <3>4. queue' # <<>>
      BY <3>3
    <3> QED
      BY <3>1, <3>3, <3>4
  <2> QED
    BY <2>1
<1>11. CASE h[1] = "start"
  <2>1. cards' = cards \union {h[2]} /\ pc' = pc
    BY <1>11 DEF Stream!Drain
  <2>2. FlowTyped'
    BY <1>3, <1>4, <1>5, <2>1 DEF FlowTyped
  <2>3. Quiet' /\ OverComes'
    BY <1>1, <1>7, <1>10, <1>11, <2>1 DEF FlowInv, Quiet, OverComes
  <2>4. ASSUME NEW i \in cards' \ {0} PROVE Ending(i, runner'.busy, queue', 0)
    <3>1. h # <<"end", i>>
      BY <1>3, <1>11
    <3>2. CASE i \in cards
      <4>1. Ending(i, runner.busy, queue, 0)
        BY <1>7, <2>4, <3>2
      <4>2. Ending(i, runner'.busy, queue', IF 0 >= 1 THEN 0 - 1 ELSE 0)
        BY <1>8, <3>1, <4>1
      <4> QED
        BY <4>2
    <3>3. CASE i = h[2]
      <4>1. Ending(i, runner.busy, queue, 1)
        BY <1>2, <1>7, <1>11, <3>3
      <4>2. Ending(i, runner'.busy, queue', IF 1 >= 1 THEN 1 - 1 ELSE 0)
        BY <1>8, <3>1, <4>1
      <4> QED
        BY <4>2
    <3> QED
      BY <2>1, <2>4, <3>2, <3>3
  <2>5. EndsCome'
    BY <1>9, <2>4 DEF EndsCome
  <2> QED
    BY <1>6, <2>2, <2>3, <2>5 DEF FlowInv
<1>12. CASE h[1] = "end"
  <2>1. cards' = cards \ {h[2]} /\ pc' = pc
    BY <1>12 DEF Stream!Drain
  <2>2. FlowTyped'
    BY <1>3, <1>4, <1>5, <2>1 DEF FlowTyped
  <2>3. Quiet' /\ OverComes'
    BY <1>1, <1>7, <1>10, <1>12, <2>1 DEF FlowInv, Quiet, OverComes
  <2>4. ASSUME NEW i \in cards' \ {0} PROVE Ending(i, runner'.busy, queue', 0)
    <3>1. h # <<"end", i>> /\ i \in cards \ {0}
      BY <1>3, <2>1, <2>4
    <3>2. Ending(i, runner.busy, queue, 0)
      BY <1>7, <3>1
    <3>3. Ending(i, runner'.busy, queue', IF 0 >= 1 THEN 0 - 1 ELSE 0)
      BY <1>8, <3>1, <3>2
    <3> QED
      BY <3>3
  <2>5. EndsCome'
    BY <1>9, <2>4 DEF EndsCome
  <2> QED
    BY <1>6, <2>2, <2>3, <2>5 DEF FlowInv
<1>13. CASE h[1] = "over"
  <2>1. Len(queue) = 1 /\ runner.at \in {"finished", "raised"}
    BY <1>2, <1>13 DEF FlowInv, OverIsLast
  <2>2. \/ runner.at = "finished" /\ cards' = cards \ {0} /\ pc' = "done"
        \/ runner.at = "raised" /\ cards' = cards /\ pc' = "failed"
    BY <1>13, <2>1 DEF Stream!Drain, Stream!Reply
  <2>3. FlowTyped'
    BY <1>4, <1>5, <2>2 DEF FlowTyped, StreamPcs
  <2>4. runner.at = "finished" => cards \ {0} = {}
    <3>1. ASSUME runner.at = "finished", NEW i \in cards \ {0} PROVE FALSE
      <4>1. runner.busy = {} /\ Ending(i, runner.busy, queue, 0)
        BY <1>7, <3>1 DEF FlowInv, Quiet
      <4>2. PICK m \in DOMAIN queue : queue[m] = <<"end", i>>
        BY <4>1 DEF Ending
      <4>3. m = 1
        BY <1>4, <2>1, <4>2 DEF FlowTyped
      <4> QED
        BY <1>2, <1>13, <4>2, <4>3
    <3> QED
      BY <3>1
  <2>5. Quiet'
    BY <1>1, <1>7, <2>2, <2>4 DEF FlowInv, Quiet
  <2>6. OverComes' /\ EndsCome'
    BY <2>2 DEF OverComes, EndsCome
  <2> QED
    BY <1>6, <2>3, <2>5, <2>6 DEF FlowInv
<1> QED
  BY <1>3, <1>11, <1>12, <1>13

LEMMA FlowStep == ASSUME FlowInv, [Stream!Next]_streamVars PROVE FlowInv'
<1>0. pc \in {"new", "model", "judge", "worker"} => runner = Stream!NoRunner /\ queue = <<>>
  BY DEF FlowInv, Quiet
<1>00. (pc \in {"new", "model", "judge", "done"} => cards = {}) /\ pc \in StreamPcs
  BY DEF FlowInv, Quiet, FlowTyped
<1>1. CASE \/ Stream!Refuse \/ Stream!Command
           \/ \E end \in {"failed", "left"} : Stream!Break(end)
           \/ \E verdict \in BOOLEAN : Stream!Answer(verdict)
           \/ Stream!Pause \/ Stream!Retry \/ Stream!RunEnds \/ Stream!Continue \/ Stream!Ask
  <2>1. /\ UNCHANGED <<runner, queue, cards>> /\ pc' \in StreamPcs \ {"drain"}
        /\ pc' \in {"new", "model", "judge", "done", "worker"} => pc \in {"new", "model", "judge"}
    BY <1>1 DEF Stream!Refuse, Stream!Command, Stream!Break, Stream!Answer, Stream!Pause, Stream!Retry,
      Stream!RunEnds, Stream!Continue, Stream!Ask, Stream!Run, Stream!Reply, Stream!flowVars, StreamPcs
  <2> QED
    BY <1>0, <1>00, <2>1, FlowRests
<1>2. CASE Stream!Worker \/ Stream!WorkerEnds
  <2>1. /\ UNCHANGED <<runner, queue>> /\ pc \in {"new", "worker"}
        /\ \/ pc' = "worker" /\ cards' = {0}
           \/ pc' = "done" /\ cards' = {}
    BY <1>2 DEF Stream!Worker, Stream!WorkerEnds, Stream!Reply
  <2>2. 0 \in 0..Steps
    BY StreamConstants
  <2>3. FlowTyped'
    BY <2>1, <2>2 DEF FlowInv, FlowTyped, StreamPcs
  <2>4. Quiet' /\ OverIsLast' /\ OverComes' /\ EndsCome'
    BY <1>0, <2>1 DEF FlowInv, Quiet, OverIsLast, OverComes, EndsCome
  <2> QED
    BY <2>3, <2>4 DEF FlowInv
<1>3. CASE \/ \E i \in 1..Steps : Stream!StepBegins(i) \/ Stream!StepEnds(i)
           \/ \E ok \in BOOLEAN : Stream!RunnerEnds(ok)
           \/ Stream!Workflow \/ Stream!Drain
  BY <1>3, StepBeginsFlow, StepEndsFlow, RunnerEndsFlow, WorkflowFlow, DrainFlow
<1>4. CASE (\E x \in Items \union {"part"} : Stream!Write(x)) \/ UNCHANGED streamVars
  <2>1. UNCHANGED <<pc, runner, queue, cards>>
    BY <1>4 DEF Stream!Write, Stream!flowVars, streamVars
  <2> QED
    BY <2>1, FlowStays
<1> QED
  BY <1>1, <1>2, <1>3, <1>4 DEF Stream!Next, Stream!vars, streamVars

LEMMA LastDropped ==
  ASSUME NEW s \in Seq(Syms)
  PROVE  Bare(s) = IF s # <<>> /\ Stream!Last(s) = "part" THEN Stream!Front(s) ELSE s
  BY DEF Bare, Stream!Last, Stream!Front

LEMMA BareCounts ==
  ASSUME NEW s \in Seq(Syms)
  PROVE  /\ Len(s) \in Nat /\ Len(Bare(s)) \in Nat /\ Len(Bare(s)) <= Len(s)
         /\ s # <<>> /\ Stream!Last(s) = "part" => Len(Bare(s)) + 1 = Len(s)
<1>1. CASE s # <<>> /\ s[Len(s)] = "part"
  <2>1. Len(s) \in Nat /\ Len(s) > 0 /\ Bare(s) = SubSeq(s, 1, Len(s) - 1)
    BY <1>1 DEF Bare
  <2>2. Len(s) - 1 \in 0..Len(s)
    BY <2>1
  <2>3. Len(Bare(s)) = Len(s) - 1
    BY <2>1, <2>2, CutIs
  <2> QED
    BY <2>1, <2>3
<1>2. CASE ~ (s # <<>> /\ s[Len(s)] = "part")
  BY <1>2 DEF Bare, Stream!Last
<1> QED
  BY <1>1, <1>2

LEMMA Concats ==
  ASSUME NEW S, NEW s \in Seq(S), NEW t \in Seq(S), NEW u \in Seq(S)
  PROVE  s \o (t \o u) = (s \o t) \o u
  BY ConcatAssociative, SMTT(30)

\* The executor takes a frame.
LEMMA FrameIs ==
  ASSUME NEW d \in Seq(Syms), Stream!Frame(d), sent \in SentRecord, sent.art \o sent.buf = sent.all
  PROVE  sent' \in SentRecord /\ sent'.art \o sent'.buf = sent'.all /\ sent'.all = sent.all \o d
<1>1. sent.all \in Seq(Syms) /\ sent.art \in Seq(Syms) /\ sent.buf \in Seq(Syms) /\ sent.started \in BOOLEAN
  BY DEF SentRecord
<1>2. CASE d = <<>>
  <2>1. sent' = sent
    BY <1>2 DEF Stream!Frame
  <2>2. sent.all \o <<>> = sent.all
    BY <1>1
  <2> QED
    BY <1>2, <2>1, <2>2
<1>3. CASE d # <<>>
  <2>1. PICK flush \in BOOLEAN :
          sent' = [all |-> sent.all \o d,
                   buf |-> IF flush THEN <<>> ELSE sent.buf \o d,
                   art |-> IF flush THEN sent.art \o sent.buf \o d ELSE sent.art,
                   started |-> sent.started \/ flush]
    BY <1>3 DEF Stream!Frame
  <2>2. /\ sent.all \o d \in Seq(Syms) /\ sent.buf \o d \in Seq(Syms)
        /\ sent.art \o sent.buf \in Seq(Syms) /\ <<>> \in Seq(Syms)
    BY <1>1, ConcatIs
  <2>3. (sent.art \o sent.buf) \o d \in Seq(Syms)
    BY <2>2, ConcatIs
  <2>4. (sent.started \/ flush) \in BOOLEAN
    OBVIOUS
  <2>5. sent' \in SentRecord
    BY <2>1, <2>2, <2>3, <2>4 DEF SentRecord
  <2>6. CASE flush
    <3>1. sent'.art = (sent.art \o sent.buf) \o d /\ sent'.buf = <<>> /\ sent'.all = sent.all \o d
      BY <2>1, <2>6
    <3>2. (sent.all \o d) \o <<>> = sent.all \o d
      BY <2>2
    <3> QED
      BY <2>5, <3>1, <3>2
  <2>7. CASE ~flush
    <3>1. sent'.art = sent.art /\ sent'.buf = sent.buf \o d /\ sent'.all = sent.all \o d
      BY <2>1, <2>7
    <3>2. sent.art \o (sent.buf \o d) = (sent.art \o sent.buf) \o d
      <4> DEFINE p == sent.art
                 q == sent.buf
      <4>1. p \in Seq(Syms) /\ q \in Seq(Syms) /\ d \in Seq(Syms)
        BY <1>1
      <4> HIDE DEF p, q
      <4>2. p \o (q \o d) = (p \o q) \o d
        BY <4>1, Concats
      <4> QED
        BY <4>2 DEF p, q
    <3> QED
      BY <2>5, <3>1, <3>2
  <2> QED
    BY <2>6, <2>7
<1> QED
  BY <1>2, <1>3

LEMMA WriteText ==
  ASSUME TextInv, NEW x \in Items \union {"part"}, Stream!Write(x) PROVE TextInv'
<1> DEFINE half == raw # <<>> /\ Stream!Last(raw) = "part"
           text == Append(Bare(raw), x)
           d == IF via = "stream" THEN Stream!After(Stream!Visible(text), Len(shown)) ELSE <<>>
<1>1. raw \in Seq(Syms) /\ shown \in Seq(Syms) /\ x \in Syms /\ via \in {"stream", "plain"}
  BY PartIsSym DEF TextInv, Written
<1>2. /\ pc = "model" /\ (half \/ budget.items > 0) /\ raw' = text
      /\ budget' = [budget EXCEPT !.items = IF half THEN @ ELSE @ - 1]
      /\ shown' = shown \o d /\ Stream!Frame(d)
      /\ UNCHANGED <<via, pc, phase, final, noted>>
  <2>1. Bare(raw) = IF half THEN Stream!Front(raw) ELSE raw
    BY <1>1, LastDropped
  <2> QED
    BY <2>1 DEF Stream!Write
<1>3. text \in Seq(Syms) /\ Len(text) = Len(Bare(raw)) + 1
  BY <1>1, BareIs, AppendAt
<1>4. Stream!Visible(text) \in Seq(Syms)
  BY <1>3, SureIs
<1>5. d \in Seq(Syms)
  <2>1. CASE via = "stream"
    <3> DEFINE v == Stream!Visible(text)
               n == Len(shown)
    <3>1. v \in Seq(Syms) /\ n \in Nat /\ Len(v) \in Nat
      BY <1>1, <1>4
    <3>2. d = SubSeq(v, n + 1, Len(v))
      BY <2>1 DEF Stream!After
    <3> HIDE DEF v, n, d
    <3>3. \A i \in (n + 1)..Len(v) : i \in 1..Len(v)
      BY <3>1
    <3>4. \A i \in (n + 1)..Len(v) : v[i] \in Syms
      BY <3>1, <3>3
    <3>5. SubSeq(v, n + 1, Len(v)) \in Seq(Syms)
      BY <3>1, <3>4
    <3> QED
      BY <3>2, <3>5
  <2>2. CASE via # "stream"
    BY <2>2
  <2> QED
    BY <2>1, <2>2
<1>6. budget \in [items : Nat, runs : 0..MaxRuns] /\ Len(raw) + budget.items <= MaxItems
  BY DEF TextInv, Written
<1>7. sent \in SentRecord /\ sent.art \o sent.buf = sent.all
  BY <1>2 DEF TextInv, Buffered
<1>8. sent' \in SentRecord /\ sent'.art \o sent'.buf = sent'.all /\ sent'.all = sent.all \o d
  <2> HIDE DEF d
  <2> QED
    BY <1>2, <1>5, <1>7, FrameIs
<1>9. Written'
  <2>1. shown' \in Seq(Syms)
    <3> HIDE DEF d
    <3> QED
      BY <1>1, <1>2, <1>5, ConcatIs
  <2>2. budget' \in [items : Nat, runs : 0..MaxRuns] /\ Len(raw') + budget'.items <= MaxItems
    <3>1. Len(raw) \in Nat /\ Len(Bare(raw)) \in Nat /\ Len(Bare(raw)) <= Len(raw)
          /\ (half => Len(Bare(raw)) + 1 = Len(raw))
      BY <1>1, BareCounts
    <3>2. Len(raw') = Len(Bare(raw)) + 1
      BY <1>2, <1>3
    <3> HIDE DEF text, d
    <3>3. CASE half
      <4>1. budget' = budget
        BY <1>2, <1>6, <3>3
      <4> QED
        BY <1>6, <3>1, <3>2, <3>3, <4>1
    <3>4. CASE ~half
      <4> HIDE DEF half
      <4>1. budget'.items = budget.items - 1 /\ budget.items > 0 /\ budget.items \in Nat
            /\ budget' \in [items : Nat, runs : 0..MaxRuns]
        BY <1>2, <1>6, <3>4
      <4> QED
        BY <1>6, <3>1, <3>2, <4>1, StreamConstants
    <3> QED
      BY <3>3, <3>4
  <2> QED
    BY <1>2, <1>3, <2>1, <2>2 DEF TextInv, Written
<1>10. Between'
  <2>1. ASSUME phase # "goal", via = "stream"
        PROVE  /\ sent'.all = shown'
               /\ Begins(Stream!Visible(raw'), shown') /\ Begins(shown', Sure(raw'))
    <3>1. sent.all = shown /\ Begins(shown, Sure(raw))
      BY <1>2, <2>1 DEF TextInv, Between
    <3>2. Begins(Stream!Visible(text), shown \o Stream!After(Stream!Visible(text), Len(shown)))
          /\ Begins(shown \o Stream!After(Stream!Visible(text), Len(shown)), Sure(text))
      BY <1>1, <3>1, NextFrame
    <3>3. d = Stream!After(Stream!Visible(text), Len(shown))
      BY <2>1
    <3> HIDE DEF d, text
    <3> QED
      BY <1>2, <1>8, <3>1, <3>2, <3>3
  <2> QED
    BY <1>2, <2>1 DEF Between
<1>11. Buffered' /\ Answered'
  BY <1>2, <1>8 DEF TextInv, Buffered, Answered
<1> QED
  BY <1>9, <1>10, <1>11 DEF TextInv

LEMMA TextStep == ASSUME TextInv, FlowInv, [Stream!Next]_streamVars PROVE TextInv'
<1>0. /\ (pc # "done" => sent \in SentRecord /\ sent.art \o sent.buf = sent.all) /\ noted \in BOOLEAN
      /\ pc \in StreamPcs
  BY DEF TextInv, Written, Buffered
<1>1. CASE \/ Stream!Refuse \/ Stream!Workflow \/ Stream!Worker
           \/ \E end \in {"failed", "left"} : Stream!Break(end)
  <2>1. Leaves
    BY <1>0, <1>1 DEF Stream!Refuse, Stream!Workflow, Stream!Worker, Stream!Break, Stream!Ends, Stream!modelVars,
      Leaves, StreamPcs
  <2> QED
    BY <2>1, LeavesText
<1>2. CASE Stream!Command \/ Stream!WorkerEnds \/ \E verdict \in BOOLEAN : Stream!Answer(verdict)
  <2>1. Leaves
    BY <1>0, <1>2 DEF Stream!Command, Stream!WorkerEnds, Stream!Answer, Stream!Reply, Leaves, StreamPcs
  <2> QED
    BY <2>1, LeavesText
<1>3. CASE \/ \E i \in 1..Steps : Stream!StepBegins(i) \/ Stream!StepEnds(i)
           \/ \E ok \in BOOLEAN : Stream!RunnerEnds(ok)
  <2>1. UNCHANGED <<via, pc, phase, raw, shown, budget, final, noted, sent>>
    BY <1>3 DEF Stream!StepBegins, Stream!StepEnds, Stream!RunnerEnds, Stream!modelVars
  <2> QED
    BY <2>1, QuietText
<1>4. CASE Stream!Drain
  <2>1. pc = "drain" /\ UNCHANGED <<via, phase, raw, shown, budget, noted>>
    BY <1>4 DEF Stream!Drain
  <2>2. Head(queue)[1] \in {"start", "end", "over"}
        /\ (Head(queue)[1] = "over" => runner.at \in {"finished", "raised"})
    <3>1. queue \in Seq(QItem) /\ queue # <<>>
      BY <1>4 DEF Stream!Drain, FlowInv, FlowTyped
    <3>2. 1 \in DOMAIN queue /\ Head(queue) = queue[1] /\ queue[1] \in QItem
      BY <3>1
    <3> QED
      BY <3>2 DEF FlowInv, OverIsLast, QItem
  <2>3. \/ UNCHANGED <<pc, final, sent>>
        \/ pc' = "done"
        \/ pc' = "failed" /\ UNCHANGED <<final, sent>>
    BY <1>4, <2>2 DEF Stream!Drain, Stream!Reply
  <2>4. CASE UNCHANGED <<pc, final, sent>>
    BY <2>1, <2>4, QuietText
  <2>5. CASE pc' = "done" \/ (pc' = "failed" /\ sent' = sent)
    <3>1. Leaves
      BY <1>0, <2>1, <2>5 DEF Leaves, StreamPcs
    <3> QED
      BY <3>1, LeavesText
  <2> QED
    BY <2>3, <2>4, <2>5
<1>5. CASE \E x \in Items \union {"part"} : Stream!Write(x)
  BY <1>5, WriteText
<1>6. CASE Stream!Pause \/ Stream!Retry \/ Stream!RunEnds \/ Stream!Continue \/ Stream!Ask
  BY <1>6, PauseText, RetryText, RunEndsText, ContinueText, AskText
<1>7. CASE UNCHANGED streamVars
  BY <1>7, QuietText DEF streamVars
<1> QED
  BY <1>1, <1>2, <1>3, <1>4, <1>5, <1>6, <1>7 DEF Stream!Next, Stream!vars, streamVars

StreamInv == TextInv /\ FlowInv

LEMMA StreamInvShows == StreamInv => Stream!StreamShown /\ Stream!TypeOK
<1> SUFFICES ASSUME StreamInv PROVE Stream!StreamShown /\ Stream!TypeOK
  OBVIOUS
<1>1. TextInv /\ FlowInv
  BY DEF StreamInv
<1>2. Stream!ShownIsAnswer
  <2>1. ASSUME pc = "judge", phase # "goal", via = "stream", Stream!Tidy(raw)
        PROVE  /\ Stream!IsPrefix(sent.all, final)
               /\ Stream!Closed(raw) /\ Stream!StripBalanced(Stream!UpToClose(Stream!Body(raw))) # <<>>
                    => Stream!IsPrefix(Stream!HeldBack(final), sent.all)
    <3>1. final = Stream!Extract(raw) /\ sent.all = shown /\ raw \in Seq(Syms) /\ shown \in Seq(Syms)
          /\ Begins(Stream!Visible(raw), shown) /\ Begins(shown, Sure(raw))
      BY <1>1, <2>1 DEF TextInv, Written, Answered, Between
    <3> QED
      BY <2>1, <3>1, FinalShown
  <2> QED
    BY <2>1 DEF Stream!ShownIsAnswer
<1>3. Stream!NeverWaits /\ Stream!CardsClose
  BY <1>1 DEF FlowInv, OverComes, Quiet, Stream!NeverWaits, Stream!CardsClose
<1>4. Len(raw) <= MaxItems /\ budget \in [items : 0..MaxItems, runs : 0..MaxRuns]
  <2>1. /\ budget \in [items : Nat, runs : 0..MaxRuns] /\ Len(raw) + budget.items <= MaxItems
        /\ Len(raw) \in Nat /\ MaxItems \in Nat
    BY <1>1, StreamConstants DEF TextInv, Written
  <2>2. budget.items \in Nat
    BY <2>1
  <2>3. Len(raw) <= MaxItems /\ budget.items \in 0..MaxItems
    BY <2>1, <2>2
  <2> QED
    BY <2>1, <2>3
<1>5. Len(queue) <= 2 * Steps + 1
  <2>1. runner.todo \in SUBSET (1..Steps) /\ runner.busy \in SUBSET (1..Steps) /\ Len(queue) \in Nat
        /\ Len(queue) + 2 * Cardinality(runner.todo) + Cardinality(runner.busy) + ToSay(runner.at) <= 2 * Steps + 1
    BY <1>1 DEF FlowInv, FlowTyped
  <2>2. Cardinality(runner.todo) \in Nat /\ Cardinality(runner.busy) \in Nat
    BY <2>1, Counts
  <2>3. ToSay(runner.at) \in Nat
    BY DEF ToSay
  <2> QED
    BY <2>1, <2>2, <2>3, StreamConstants
<1>6. Stream!TypeOK
  BY <1>1, <1>4, <1>5 DEF TextInv, FlowInv, FlowTyped, Written, Buffered, StreamPcs, Stream!Ends, Stream!TypeOK
<1> QED
  BY <1>2, <1>3, <1>6 DEF Stream!StreamShown

-----------------------------------------------------------------------------
(* The union *)

LEMMA StreamMoves == [Next]_vars => [Stream!Next]_streamVars
  BY DEF Next, vars

LEMMA EvalMoves == [Next]_vars => [Eval!Next]_evalVars
  BY DEF Next, vars

LEMMA StreamInvInit == Init => StreamInv
  BY TextInit, FlowInit DEF StreamInv

LEMMA StreamInvStep ==
  ASSUME StreamInv, [Next]_vars
  PROVE  StreamInv'
  BY StreamMoves, TextStep, FlowStep DEF StreamInv

LEMMA EvalInvHolds ==
  /\ Init => EvalInv
  /\ EvalInv /\ [Next]_vars => EvalInv'
<1>1. Init => EvalInv
  <2> SUFFICES ASSUME Init PROVE EvalInv
    OBVIOUS
  <2>1. Eval!Init
    BY DEF Init
  <2> QED
    BY <2>1, EvalInvInit
<1>2. ASSUME EvalInv, [Next]_vars PROVE EvalInv'
  <2>1. Eval!Next \/ UNCHANGED evalVars
    BY <1>2, EvalMoves
  <2> QED
    BY <1>2, <2>1, EvalInvStep, EvalInvStutters
<1> QED
  BY <1>1, <1>2

\* For a turn of any length, any chunking of its text and any workflow: unless a goal
\* continued it, what was streamed of a tidy text begins its answer and lacks no more than
\* a tail that was held back; a stream that waits for a step's event gets one; and an answer
\* leaves no card running.
THEOREM TurnsShowTheirAnswer == Spec => []StreamShown
<1>1. StreamInv /\ [Next]_vars => StreamInv'
  BY StreamInvStep
<1>2. StreamInv => StreamShown
  BY StreamInvShows DEF StreamShown
<1> QED
  BY <1>1, <1>2, StreamInvInit, PTL DEF Spec

\* For any suites, agents and repetitions: unless an earlier turn of the run was never
\* waited for, a case passes for what its own turn did, and leaves no row behind.
THEOREM PassesAreEarned == Spec => []EvalSound
<1>1. EvalInv => EvalSound
  BY EvalInvShows DEF EvalSound
<1> QED
  BY <1>1, EvalInvHolds, PTL DEF Spec

\* Everything of the six components stays within its types and bounds.
AllInv == HostSafe /\ ChatInv /\ ChatBounds /\ StreamInv /\ EvalInv /\ BenchInv

LEMMA AllInvInit == Init => AllInv
  BY HostSafeInit, ChatInit, ChatBoundsInit, StreamInvInit, EvalInvHolds, BenchInvInit DEF AllInv

LEMMA AllInvStep ==
  ASSUME AllInv, [Next]_vars
  PROVE  AllInv'
<1>1. HostSafe /\ ChatInv /\ ChatBounds /\ StreamInv /\ EvalInv /\ BenchInv /\ ChatType
  BY DEF AllInv, ChatInv
<1>2. HostSafe'
  BY <1>1, HostMoves, HostSafeStep
<1>3. ChatInv' /\ ChatBounds'
  BY <1>1, ChatMoves, ChatStep, ChatBoundsStep
<1>4. StreamInv' /\ EvalInv' /\ BenchInv'
  BY <1>1, StreamInvStep, EvalInvHolds, BenchInvStep
<1> QED
  BY <1>2, <1>3, <1>4 DEF AllInv

LEMMA AllInvTypes ==
  ASSUME AllInv
  PROVE  TypeOK
<1>1. Host!TypeOK /\ Chat!TypeOK /\ Stream!TypeOK /\ Eval!TypeOK
  BY HostSafeShows, ChatShows, StreamInvShows, EvalInvShows DEF AllInv, ChatInv
<1>2. BenchInv
  BY DEF AllInv
<1>3. pick = "notes" => Notes!TypeOK
  BY <1>2, NotebookAssumption, NotesSame, NotesOf!NotesInvShows DEF BenchInv
<1>4. pick = "undo" => Undo!TypeOK
  BY <1>2, NotebookAssumption, UndoSame, UndoOf!NotesInvShows DEF BenchInv
<1>5. pick = "board" => Board!TypeOK
  BY <1>2, BoardInvShows DEF BenchInv
<1>6. pick \in {"host", "chat", "stream", "eval", "notes", "undo", "board"}
  BY <1>2 DEF BenchInv
<1> QED
  BY <1>1, <1>3, <1>4, <1>5, <1>6 DEF TypeOK

\* For every value of the constants, any number of workers among them, the process, the
\* threads, the turn, the evaluation, the notebook and the board keep to their types: among
\* them that no backend serves or polls that was not built, that the artifact and the buffer
\* make up what was sent, and that the bounds of queues, histories and tables hold.
THEOREM HostTyped == Spec => []TypeOK
<1>1. AllInv /\ [Next]_vars => AllInv'
  BY AllInvStep
<1>2. AllInv => TypeOK
  BY AllInvTypes
<1> QED
  BY <1>1, <1>2, AllInvInit, PTL DEF Spec
=============================================================================
