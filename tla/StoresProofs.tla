---------------------------- MODULE StoresProofs ----------------------------
(* What StoresUnion promises of plugins, prior sessions, scripts, delegated work and the     *)
(* skill index, proved for all values of the constants.                                      *)
EXTENDS StoresUnion, Basics, FiniteSetTheorems, SequenceTheorems, TLAPS

-----------------------------------------------------------------------------
(* Plugins from git *)

LEMMA PlugMoves == [Next]_vars => [Plug!Next]_plugVars
  BY DEF Next, vars

RunPcs == {"idle", "cleared", "moved", "record", "gone", "forget", "unref", "sync"}
RunRecord == [pc : RunPcs, id : Plugins \union {Null}, sha : Commits \union {Null},
              copy : SUBSET Plug!Entry, todo : SUBSET Plug!Entry]

\* The entries of plugin p among some.
Of(entries, p) == {e \in entries : e.id = p}

PlugType ==
  /\ code \in [Plugins -> Commits \union {Null}]
  /\ lock \in SUBSET Plug!Entry
  /\ actor \in [Installers -> RunRecord]
  /\ enabled \in SUBSET Plugins /\ trusted \in SUBSET Plugins /\ broken \in SUBSET Plugins

\* Nothing the installer holds is of a bundled plugin.
Foreign ==
  /\ \A e \in lock : e.id \notin Builtin
  /\ \A a \in Installers : \A e \in actor[a].copy \union actor[a].todo : e.id \notin Builtin
  /\ \A p \in Builtin : code[p] = Null

\* A run knows what it works on, and its copy of the lock is right about every plugin that
\* is in order.
CopyAgrees ==
  \A a \in Installers : Plug!Busy(a) =>
    /\ actor[a].id \in Plugins \ Builtin
    /\ actor[a].pc \in {"cleared", "moved", "record"} => actor[a].sha \in Commits
    /\ actor[a].pc \in {"record", "forget"} =>
         \A q \in Plugins \ (broken \union {actor[a].id}) : Of(actor[a].copy, q) = Of(lock, q)

\* A run that was not overtaken is the only one, and its plugin's code is where it put it.
Undisturbed ==
  \A a \in Installers : Plug!Busy(a) /\ actor[a].id \notin broken =>
    /\ \A b \in Installers \ {a} : ~Plug!Busy(b)
    /\ actor[a].pc \in {"cleared", "gone", "forget", "unref"} => code[actor[a].id] = Null
    /\ actor[a].pc \in {"moved", "record"} => code[actor[a].id] = actor[a].sha
    /\ actor[a].pc = "forget" => Of(actor[a].copy, actor[a].id) = Of(lock, actor[a].id)
    /\ actor[a].pc = "unref" => Of(lock, actor[a].id) = {}

PlugInv ==
  /\ PlugType
  /\ Foreign
  /\ CopyAgrees
  /\ Undisturbed
  /\ Plug!LockAgrees
  /\ enabled \subseteq trusted

LEMMA PlugConstants ==
  /\ Builtin \subseteq Plugins /\ Switched \subseteq Plugins /\ Null \notin Commits
  BY PluginAssumption DEF PluginAssumption, Plug!PluginAssumption

LEMMA PlugInit == Init => PlugInv
<1> SUFFICES ASSUME Plug!Init PROVE PlugInv
  BY DEF Init
<1>1. Plug!Idle \in RunRecord
  BY DEF Plug!Idle, RunRecord, RunPcs
<1>2. PlugType
  BY <1>1 DEF PlugType, Plug!Init
<1>3. \A a \in Installers : ~Plug!Busy(a)
  <2>1. \A a \in Installers : actor[a] = Plug!Idle
    BY DEF Plug!Init
  <2> QED
    BY <2>1 DEF Plug!Busy, Plug!Idle
<1>4. Foreign
  BY PlugConstants DEF Foreign, Plug!Init, Plug!Idle
<1>5. Plug!LockAgrees
  BY DEF Plug!LockAgrees, Plug!Init
<1>6. enabled \subseteq trusted
  BY DEF Plug!Init
<1> QED
  BY <1>2, <1>3, <1>4, <1>5, <1>6 DEF PlugInv, CopyAgrees, Undisturbed

\* A step of a run: it changes its own plugin and no other that is in order.
LEMMA PlugWorks ==
  ASSUME PlugInv, NEW a \in Installers, Plug!Busy(a), NEW p, p = actor[a].id,
         NEW r \in RunRecord, actor' = [actor EXCEPT ![a] = r],
         PlugType', Foreign',
         \A q \in Plugins \ {p} : code'[q] = code[q],
         \A q \in Plugins \ (broken \union {p}) : Of(lock', q) = Of(lock, q),
         broken \subseteq broken',
         r.pc \notin {"idle", "sync"} => r.id = p,
         r.pc \in {"cleared", "moved", "record"} => r.sha \in Commits,
         r.pc \in {"record", "forget"} =>
           \A q \in Plugins \ (broken' \union {p}) : Of(r.copy, q) = Of(lock', q),
         p \notin broken' =>
           /\ r.pc \in {"cleared", "gone", "forget", "unref"} => code'[p] = Null
           /\ r.pc \in {"moved", "record"} => code'[p] = r.sha
           /\ r.pc = "forget" => Of(r.copy, p) = Of(lock', p)
           /\ r.pc = "unref" => Of(lock', p) = {}
           /\ r.pc \in {"idle", "sync"} =>
                Of(lock', p) = IF code'[p] = Null THEN {} ELSE {[id |-> p, sha |-> code'[p]]},
         enabled' \subseteq trusted'
  PROVE  PlugInv'
<1>1. /\ actor'[a] = r
      /\ \A b \in Installers \ {a} : actor'[b] = actor[b]
  BY DEF PlugInv, PlugType
<1>2. /\ p \in Plugins \ Builtin
      /\ \A b \in Installers \ {a} : Plug!Busy(b) => actor[b].id \in broken /\ p \in broken
  BY DEF PlugInv, CopyAgrees, Undisturbed
<1>3. \A b \in Installers \ {a} : Plug!Busy(b)' <=> Plug!Busy(b)
  BY <1>1 DEF Plug!Busy
<1>4. Plug!Busy(a)' <=> r.pc \notin {"idle", "sync"}
  BY <1>1 DEF Plug!Busy
<1>5. CopyAgrees'
  <2> SUFFICES ASSUME NEW b \in Installers, Plug!Busy(b)'
               PROVE  /\ actor'[b].id \in Plugins \ Builtin
                      /\ actor'[b].pc \in {"cleared", "moved", "record"} => actor'[b].sha \in Commits
                      /\ actor'[b].pc \in {"record", "forget"} =>
                           \A q \in Plugins \ (broken' \union {actor'[b].id}) :
                             Of(actor'[b].copy, q) = Of(lock', q)
    BY DEF CopyAgrees
  <2>1. CASE b = a
    BY <1>1, <1>2, <1>4, <2>1
  <2>2. CASE b # a
    <3>1. Plug!Busy(b) /\ actor'[b] = actor[b] /\ p \in broken
      BY <1>1, <1>2, <1>3, <2>2
    <3>2. \A q \in Plugins \ (broken' \union {actor[b].id}) : Of(lock', q) = Of(lock, q)
      BY <3>1
    <3> QED
      BY <3>1, <3>2 DEF PlugInv, CopyAgrees
  <2> QED
    BY <2>1, <2>2
<1>6. Undisturbed'
  <2> SUFFICES ASSUME NEW b \in Installers, Plug!Busy(b)', actor'[b].id \notin broken'
               PROVE  /\ \A c \in Installers \ {b} : ~Plug!Busy(c)'
                      /\ actor'[b].pc \in {"cleared", "gone", "forget", "unref"} =>
                           code'[actor'[b].id] = Null
                      /\ actor'[b].pc \in {"moved", "record"} => code'[actor'[b].id] = actor'[b].sha
                      /\ actor'[b].pc = "forget" =>
                           Of(actor'[b].copy, actor'[b].id) = Of(lock', actor'[b].id)
                      /\ actor'[b].pc = "unref" => Of(lock', actor'[b].id) = {}
    BY DEF Undisturbed
  <2>1. b = a
    BY <1>1, <1>2, <1>3
  <2>2. p \notin broken /\ p \notin broken' /\ actor'[b] = r /\ r.id = p
    BY <1>1, <1>4, <2>1
  <2>3. \A c \in Installers \ {b} : ~Plug!Busy(c)'
    BY <1>2, <1>3, <2>1, <2>2
  <2> QED
    BY <2>2, <2>3
<1>7. Plug!LockAgrees'
  <2> SUFFICES ASSUME NEW q \in Plugins \ broken', ~Plug!AtWork(q)'
               PROVE  Of(lock', q) = IF code'[q] = Null THEN {} ELSE {[id |-> q, sha |-> code'[q]]}
    BY DEF Plug!LockAgrees, Of
  <2>1. CASE q = p
    <3>1. r.pc \in {"idle", "sync"}
      BY <1>1, <1>4, <2>1 DEF Plug!AtWork
    <3> QED
      BY <2>1, <3>1
  <2>2. CASE q # p
    <3>1. ~Plug!AtWork(q)
      BY <1>1, <1>3, <2>2 DEF Plug!AtWork
    <3>2. Of(lock, q) = IF code[q] = Null THEN {} ELSE {[id |-> q, sha |-> code[q]]}
      BY <3>1 DEF PlugInv, Plug!LockAgrees, Of
    <3> QED
      BY <2>2, <3>2
  <2> QED
    BY <2>1, <2>2
<1> QED
  BY <1>5, <1>6, <1>7 DEF PlugInv

\* A run begins, alone or not: what the others work on is broken then, and its own plugin too.
LEMMA PlugBegins ==
  ASSUME PlugInv, NEW a \in Installers, ~Plug!Busy(a), NEW p \in Plugins \ Builtin,
         NEW r \in RunRecord, actor' = [actor EXCEPT ![a] = r],
         r.pc \in {"cleared", "gone"}, r.id = p, r.pc = "cleared" => r.sha \in Commits,
         \A e \in r.copy \union r.todo : e.id \notin Builtin,
         code' = [code EXCEPT ![p] = Null], Plug!Begins(a, p),
         UNCHANGED <<lock, enabled, trusted>>
  PROVE  PlugInv'
<1> DEFINE others == {b \in Installers \ {a} : Plug!Busy(b)}
<1>1. PlugType /\ Foreign
  BY DEF PlugInv
<1>2. /\ actor' \in [Installers -> RunRecord]
      /\ actor'[a] = r
      /\ \A b \in Installers \ {a} : actor'[b] = actor[b]
  BY <1>1 DEF PlugType
<1>3. /\ code' \in [Plugins -> Commits \union {Null}]
      /\ code'[p] = Null
      /\ \A q \in Plugins \ {p} : code'[q] = code[q]
  BY <1>1 DEF PlugType
<1>4. /\ \A b \in Installers \ {a} : Plug!Busy(b)' <=> Plug!Busy(b)
      /\ Plug!Busy(a)'
  BY <1>2 DEF Plug!Busy
<1>5. /\ broken' \in SUBSET Plugins
      /\ broken \ {p} \subseteq broken'
      /\ others = {} => p \notin broken'
      /\ others # {} => p \in broken' /\ \A b \in others : actor[b].id \in broken'
  <2>1. \A b \in others : actor[b].id \in Plugins
    BY DEF PlugInv, CopyAgrees
  <2>2. broken' = (broken \ {p}) \union
                    (IF others = {} THEN {} ELSE {p} \union {actor[b].id : b \in others})
    BY DEF Plug!Begins, Plug!OvertakenBy
  <2> HIDE DEF others
  <2> QED
    BY <1>1, <2>1, <2>2 DEF PlugType
<1>6. PlugType'
  BY <1>1, <1>2, <1>3, <1>5 DEF PlugType
<1>7. Foreign'
  <2>1. \A b \in Installers : \A e \in actor'[b].copy \union actor'[b].todo : e.id \notin Builtin
    BY <1>1, <1>2 DEF Foreign
  <2>2. \A q \in Builtin : code'[q] = Null
    BY <1>1, <1>3, PlugConstants DEF Foreign
  <2> QED
    BY <1>1, <2>1, <2>2 DEF Foreign
<1>8. CopyAgrees'
  <2> SUFFICES ASSUME NEW b \in Installers, Plug!Busy(b)'
               PROVE  /\ actor'[b].id \in Plugins \ Builtin
                      /\ actor'[b].pc \in {"cleared", "moved", "record"} => actor'[b].sha \in Commits
                      /\ actor'[b].pc \in {"record", "forget"} =>
                           \A q \in Plugins \ (broken' \union {actor'[b].id}) :
                             Of(actor'[b].copy, q) = Of(lock, q)
    BY DEF CopyAgrees
  <2>1. CASE b = a
    BY <1>2, <2>1
  <2>2. CASE b # a
    <3>1. b \in others /\ Plug!Busy(b) /\ actor'[b] = actor[b]
      BY <1>2, <1>4, <2>2
    <3>2. broken \subseteq broken'
      BY <1>5, <3>1
    <3> QED
      BY <3>1, <3>2 DEF PlugInv, CopyAgrees
  <2> QED
    BY <2>1, <2>2
<1>9. Undisturbed'
  <2> SUFFICES ASSUME NEW b \in Installers, Plug!Busy(b)', actor'[b].id \notin broken'
               PROVE  /\ \A c \in Installers \ {b} : ~Plug!Busy(c)'
                      /\ actor'[b].pc \in {"cleared", "gone", "forget", "unref"} =>
                           code'[actor'[b].id] = Null
                      /\ actor'[b].pc \in {"moved", "record"} => code'[actor'[b].id] = actor'[b].sha
                      /\ actor'[b].pc = "forget" =>
                           Of(actor'[b].copy, actor'[b].id) = Of(lock', actor'[b].id)
                      /\ actor'[b].pc = "unref" => Of(lock, actor'[b].id) = {}
    BY DEF Undisturbed
  <2>1. b = a
    BY <1>2, <1>4, <1>5
  <2>2. others = {}
    BY <1>2, <1>5, <2>1
  <2>3. \A c \in Installers \ {b} : ~Plug!Busy(c)'
    BY <1>4, <2>1, <2>2
  <2> QED
    BY <1>2, <1>3, <2>1, <2>3
<1>10. Plug!LockAgrees'
  <2> SUFFICES ASSUME NEW q \in Plugins \ broken', ~Plug!AtWork(q)'
               PROVE  Of(lock, q) = IF code'[q] = Null THEN {} ELSE {[id |-> q, sha |-> code'[q]]}
    BY DEF Plug!LockAgrees, Of
  <2>1. q # p
    BY <1>2, <1>4 DEF Plug!AtWork
  <2>2. q \notin broken
    BY <1>5, <2>1
  <2>3. ~Plug!AtWork(q)
    BY <1>2, <1>4 DEF Plug!AtWork
  <2>4. Of(lock, q) = IF code[q] = Null THEN {} ELSE {[id |-> q, sha |-> code[q]]}
    BY <2>2, <2>3 DEF PlugInv, Plug!LockAgrees, Of
  <2> QED
    BY <1>3, <2>1, <2>4
<1> QED
  BY <1>6, <1>7, <1>8, <1>9, <1>10 DEF PlugInv

\* A sync begins or passes over an entry, and the operator's own steps: no run changes.
LEMMA PlugRests ==
  ASSUME PlugInv, PlugType', Foreign', UNCHANGED <<code, lock, broken>>,
         enabled' \subseteq trusted',
         \A b \in Installers :
           \/ actor'[b] = actor[b]
           \/ ~Plug!Busy(b) /\ actor'[b].pc \in {"idle", "sync"}
  PROVE  PlugInv'
<1>1. \A b \in Installers : Plug!Busy(b)' <=> Plug!Busy(b) /\ actor'[b] = actor[b]
  BY DEF Plug!Busy
<1>2. \A b \in Installers : Plug!Busy(b) => actor'[b] = actor[b]
  OBVIOUS
<1>3. CopyAgrees'
  BY <1>1 DEF PlugInv, CopyAgrees
<1>4. Undisturbed'
  BY <1>1 DEF PlugInv, Undisturbed
<1>5. \A q \in Plugins : Plug!AtWork(q)' <=> Plug!AtWork(q)
  BY <1>1, <1>2 DEF Plug!AtWork
<1>6. Plug!LockAgrees'
  BY <1>5 DEF PlugInv, Plug!LockAgrees
<1> QED
  BY <1>3, <1>4, <1>6 DEF PlugInv

LEMMA PlugBusy ==
  ASSUME PlugInv, NEW a \in Installers, Plug!Busy(a)
  PROVE  /\ PlugType /\ Foreign
         /\ actor[a] \in RunRecord
         /\ actor[a].id \in Plugins \ Builtin
         /\ Plug!Overtaken(a) \in SUBSET Plugins
<1>1. \A b \in Installers : Plug!Busy(b) => actor[b].id \in Plugins \ Builtin
  BY DEF PlugInv, CopyAgrees
<1>2. actor[a] \in RunRecord
  BY DEF PlugInv, PlugType
<1>3. Plug!Overtaken(a) \in SUBSET Plugins
  <2> DEFINE others == {b \in Installers \ {a} : Plug!Busy(b)}
  <2>1. Plug!Overtaken(a) = IF others = {} THEN {}
                            ELSE {actor[a].id} \union {actor[b].id : b \in others}
    BY DEF Plug!Overtaken, Plug!OvertakenBy
  <2>2. \A b \in others : actor[b].id \in Plugins
    BY <1>1
  <2> HIDE DEF others
  <2> QED
    BY <1>1, <2>1, <2>2
<1> QED
  BY <1>1, <1>2, <1>3 DEF PlugInv

\* A run that goes on, or ends, takes nothing of a bundled plugin along.
LEMMA PlugTypes ==
  ASSUME PlugInv, NEW a \in Installers, NEW r \in RunRecord, actor' = [actor EXCEPT ![a] = r],
         \A e \in r.copy \union r.todo : e.id \notin Builtin,
         NEW p \in Plugins \ Builtin, code' \in [Plugins -> Commits \union {Null}],
         \A q \in Plugins \ {p} : code'[q] = code[q],
         lock' \in SUBSET Plug!Entry, \A e \in lock' : e.id \notin Builtin,
         enabled' \in SUBSET Plugins, trusted' \in SUBSET Plugins, broken' \in SUBSET Plugins
  PROVE  PlugType' /\ Foreign'
<1>1. PlugType /\ Foreign
  BY DEF PlugInv
<1>2. /\ actor' \in [Installers -> RunRecord]
      /\ actor'[a] = r
      /\ \A b \in Installers \ {a} : actor'[b] = actor[b]
  BY <1>1 DEF PlugType
<1>3. \A b \in Installers : \A e \in actor'[b].copy \union actor'[b].todo : e.id \notin Builtin
  BY <1>1, <1>2 DEF Foreign
<1>4. \A q \in Builtin : code'[q] = Null
  BY <1>1, PlugConstants DEF Foreign
<1> QED
  BY <1>2, <1>3, <1>4 DEF PlugType, Foreign

LEMMA PlugMove ==
  ASSUME PlugInv, NEW a \in Installers, Plug!Move(a)
  PROVE  PlugInv'
<1> DEFINE p == actor[a].id
           r == [actor[a] EXCEPT !.pc = "moved"]
<1>1. Plug!Busy(a) /\ actor[a].pc = "cleared"
  BY DEF Plug!Move, Plug!Busy
<1>2. /\ PlugType /\ Foreign /\ actor[a] \in RunRecord /\ p \in Plugins \ Builtin
      /\ Plug!Overtaken(a) \in SUBSET Plugins
  BY <1>1, PlugBusy
<1>3. actor[a].sha \in Commits
  BY <1>1 DEF PlugInv, CopyAgrees
<1>4. /\ r \in RunRecord /\ r.pc = "moved" /\ r.id = p /\ r.sha = actor[a].sha
      /\ r.copy = actor[a].copy /\ r.todo = actor[a].todo
  BY <1>2 DEF RunRecord, RunPcs
<1>5. /\ actor' = [actor EXCEPT ![a] = r]
      /\ code' = IF code[p] = Null THEN [code EXCEPT ![p] = actor[a].sha] ELSE code
      /\ broken' = broken \union Plug!Overtaken(a)
      /\ UNCHANGED <<lock, enabled, trusted>>
  BY DEF Plug!Move, Plug!To, Plug!Set
<1>6. code' \in [Plugins -> Commits \union {Null}] /\ \A q \in Plugins \ {p} : code'[q] = code[q]
  BY <1>2, <1>3, <1>5 DEF PlugType
<1>7. \A e \in r.copy \union r.todo : e.id \notin Builtin
  BY <1>2, <1>4 DEF Foreign
<1>8. broken \subseteq broken' /\ broken' \in SUBSET Plugins
  BY <1>2, <1>5 DEF PlugType
<1>9. p \notin broken' => code'[p] = r.sha
  <2> SUFFICES ASSUME p \notin broken' PROVE code'[p] = r.sha
    OBVIOUS
  <2>1. code[p] = Null
    BY <1>1, <1>8 DEF PlugInv, Undisturbed
  <2> QED
    BY <1>2, <1>4, <1>5, <2>1 DEF PlugType
<1> HIDE DEF r, p
<1>10. lock' \in SUBSET Plug!Entry /\ (\A e \in lock' : e.id \notin Builtin)
       /\ enabled' \in SUBSET Plugins /\ trusted' \in SUBSET Plugins
  BY <1>2, <1>5 DEF PlugType, Foreign
<1>11. PlugType' /\ Foreign'
  BY <1>2, <1>4, <1>5, <1>6, <1>7, <1>8, <1>10, PlugTypes
<1>12. enabled' \subseteq trusted'
  BY <1>5 DEF PlugInv
<1>13. \A q \in Plugins \ (broken \union {p}) : Of(lock', q) = Of(lock, q)
  BY <1>5
<1>14. r.sha \in Commits
  BY <1>3, <1>4
<1> QED
  BY <1>1, <1>4, <1>5, <1>6, <1>8, <1>9, <1>11, <1>12, <1>13, <1>14, PlugWorks DEF p

LEMMA PlugReadLock ==
  ASSUME PlugInv, NEW a \in Installers, Plug!ReadLock(a)
  PROVE  PlugInv'
<1> DEFINE p == actor[a].id
<1>1. Plug!Busy(a) /\ actor[a].pc \in {"moved", "gone"}
  BY DEF Plug!ReadLock, Plug!Busy
<1>2. /\ PlugType /\ Foreign /\ actor[a] \in RunRecord /\ p \in Plugins \ Builtin
      /\ Plug!Overtaken(a) \in SUBSET Plugins
  BY <1>1, PlugBusy
<1>3. PICK pc \in {"record", "forget"} :
        /\ pc = (IF actor[a].pc = "moved" THEN "record" ELSE "forget")
        /\ actor' = [actor EXCEPT ![a] = [actor[a] EXCEPT !.pc = pc, !.copy = lock]]
  BY DEF Plug!ReadLock, Plug!Set
<1> DEFINE r == [actor[a] EXCEPT !.pc = pc, !.copy = lock]
<1>4. /\ r \in RunRecord /\ r.pc = pc /\ r.id = p /\ r.sha = actor[a].sha
      /\ r.copy = lock /\ r.todo = actor[a].todo
  BY <1>2 DEF RunRecord, RunPcs, PlugType
<1>5. /\ actor' = [actor EXCEPT ![a] = r]
      /\ broken' = broken \union Plug!Overtaken(a)
      /\ UNCHANGED <<code, lock, enabled, trusted>>
  BY <1>3 DEF Plug!ReadLock
<1>6. code' \in [Plugins -> Commits \union {Null}] /\ \A q \in Plugins \ {p} : code'[q] = code[q]
  BY <1>2, <1>5 DEF PlugType
<1>7. \A e \in r.copy \union r.todo : e.id \notin Builtin
  BY <1>2, <1>4 DEF Foreign
<1>8. broken \subseteq broken' /\ broken' \in SUBSET Plugins
  BY <1>2, <1>5 DEF PlugType
<1>9. p \notin broken' => /\ r.pc = "forget" => code'[p] = Null
                          /\ r.pc = "record" => code'[p] = r.sha
  BY <1>1, <1>3, <1>4, <1>5, <1>8 DEF PlugInv, Undisturbed
<1>10. r.pc = "record" => r.sha \in Commits
  BY <1>1, <1>3, <1>4 DEF PlugInv, CopyAgrees
<1> HIDE DEF r, p
<1>11. lock' \in SUBSET Plug!Entry /\ (\A e \in lock' : e.id \notin Builtin)
       /\ enabled' \in SUBSET Plugins /\ trusted' \in SUBSET Plugins
  BY <1>2, <1>5 DEF PlugType, Foreign
<1>12. PlugType' /\ Foreign'
  BY <1>2, <1>4, <1>5, <1>6, <1>7, <1>8, <1>11, PlugTypes
<1>13. enabled' \subseteq trusted'
  BY <1>5 DEF PlugInv
<1>14. (\A q \in Plugins \ (broken \union {p}) : Of(lock', q) = Of(lock, q)) /\ r.copy = lock'
  BY <1>4, <1>5
<1> QED
  BY <1>1, <1>4, <1>5, <1>6, <1>8, <1>9, <1>10, <1>12, <1>13, <1>14, PlugWorks DEF p

LEMMA PlugAfter ==
  ASSUME NEW a \in Installers, actor[a] \in RunRecord
  PROVE  /\ Plug!After(a) \in RunRecord
         /\ Plug!After(a).pc \in {"idle", "sync"}
         /\ Plug!After(a).copy = {} /\ Plug!After(a).todo = actor[a].todo
  BY DEF Plug!After, Plug!Idle, RunRecord, RunPcs

LEMMA PlugRecord ==
  ASSUME PlugInv, NEW a \in Installers, Plug!Record(a)
  PROVE  PlugInv'
<1> DEFINE p == actor[a].id
           new == [id |-> p, sha |-> actor[a].sha]
           r == Plug!After(a)
<1>1. Plug!Busy(a) /\ actor[a].pc = "record"
  BY DEF Plug!Record, Plug!Busy
<1>2. /\ PlugType /\ Foreign /\ actor[a] \in RunRecord /\ p \in Plugins \ Builtin
      /\ Plug!Overtaken(a) \in SUBSET Plugins
  BY <1>1, PlugBusy
<1>3. actor[a].sha \in Commits
      /\ \A q \in Plugins \ (broken \union {p}) : Of(actor[a].copy, q) = Of(lock, q)
  BY <1>1 DEF PlugInv, CopyAgrees
<1>4. r \in RunRecord /\ r.pc \in {"idle", "sync"} /\ r.copy = {} /\ r.todo = actor[a].todo
  BY <1>2, PlugAfter
<1>5. /\ actor' = [actor EXCEPT ![a] = r]
      /\ lock' = {e \in actor[a].copy : e.id # p} \union {new}
      /\ broken' = broken \union Plug!Overtaken(a)
      /\ UNCHANGED <<code, enabled, trusted>>
  BY DEF Plug!Record, Plug!Set
<1>6. new \in Plug!Entry /\ new.id = p /\ actor[a].copy \in SUBSET Plug!Entry
  BY <1>2, <1>3 DEF Plug!Entry, RunRecord
<1>7. \A e \in r.copy \union r.todo : e.id \notin Builtin
  BY <1>2, <1>4 DEF Foreign
<1>8. broken \subseteq broken' /\ broken' \in SUBSET Plugins
  BY <1>2, <1>5 DEF PlugType
<1>9. p \notin broken' => Of(lock', p) = IF code'[p] = Null THEN {} ELSE {[id |-> p, sha |-> code'[p]]}
  <2> SUFFICES ASSUME p \notin broken'
               PROVE  Of(lock', p) = IF code'[p] = Null THEN {} ELSE {[id |-> p, sha |-> code'[p]]}
    OBVIOUS
  <2>1. code'[p] = actor[a].sha
    BY <1>1, <1>5, <1>8 DEF PlugInv, Undisturbed
  <2>2. Of(lock', p) = {new}
    BY <1>5, <1>6 DEF Of
  <2> QED
    BY <1>3, <2>1, <2>2, PlugConstants
<1>10. \A q \in Plugins \ (broken \union {p}) : Of(lock', q) = Of(lock, q)
  <2> SUFFICES ASSUME NEW q \in Plugins \ (broken \union {p}) PROVE Of(lock', q) = Of(lock, q)
    OBVIOUS
  <2>1. Of(lock', q) = Of(actor[a].copy, q)
    BY <1>5, <1>6 DEF Of
  <2> QED
    BY <1>3, <2>1
<1>11. lock' \in SUBSET Plug!Entry /\ (\A e \in lock' : e.id \notin Builtin)
  BY <1>2, <1>5, <1>6 DEF Foreign
<1> HIDE DEF r, p, new
<1>12. code' \in [Plugins -> Commits \union {Null}] /\ (\A q \in Plugins \ {p} : code'[q] = code[q])
       /\ enabled' \in SUBSET Plugins /\ trusted' \in SUBSET Plugins
  BY <1>2, <1>5 DEF PlugType
<1>13. PlugType' /\ Foreign'
  BY <1>2, <1>4, <1>5, <1>7, <1>8, <1>11, <1>12, PlugTypes
<1>14. enabled' \subseteq trusted'
  BY <1>5 DEF PlugInv
<1> QED
  BY <1>1, <1>4, <1>5, <1>8, <1>9, <1>10, <1>12, <1>13, <1>14, PlugWorks DEF p

LEMMA PlugForget ==
  ASSUME PlugInv, NEW a \in Installers, Plug!Forget(a)
  PROVE  PlugInv'
<1> DEFINE p == actor[a].id
           kept == {e \in actor[a].copy : e.id # p}
           r == [actor[a] EXCEPT !.pc = "unref"]
<1>1. Plug!Busy(a) /\ actor[a].pc = "forget"
  BY DEF Plug!Forget, Plug!Busy
<1>2. /\ PlugType /\ Foreign /\ actor[a] \in RunRecord /\ p \in Plugins \ Builtin
      /\ Plug!Overtaken(a) \in SUBSET Plugins
  BY <1>1, PlugBusy
<1>3. \A q \in Plugins \ (broken \union {p}) : Of(actor[a].copy, q) = Of(lock, q)
  BY <1>1 DEF PlugInv, CopyAgrees
<1>4. r \in RunRecord /\ r.pc = "unref" /\ r.id = p /\ r.copy = actor[a].copy /\ r.todo = actor[a].todo
  BY <1>2 DEF RunRecord, RunPcs
<1>5. /\ actor' = [actor EXCEPT ![a] = r]
      /\ lock' = IF kept = actor[a].copy THEN lock ELSE kept
      /\ broken' = broken \union Plug!Overtaken(a)
      /\ UNCHANGED <<code, enabled, trusted>>
  BY DEF Plug!Forget, Plug!To, Plug!Set
<1>6. actor[a].copy \in SUBSET Plug!Entry
  BY <1>2 DEF RunRecord
<1>7. \A e \in r.copy \union r.todo : e.id \notin Builtin
  BY <1>2, <1>4 DEF Foreign
<1>8. broken \subseteq broken' /\ broken' \in SUBSET Plugins
  BY <1>2, <1>5 DEF PlugType
<1>9. p \notin broken' => code'[p] = Null /\ Of(lock', p) = {}
  <2> SUFFICES ASSUME p \notin broken' PROVE code'[p] = Null /\ Of(lock', p) = {}
    OBVIOUS
  <2>1. code[p] = Null /\ Of(actor[a].copy, p) = Of(lock, p)
    BY <1>1, <1>8 DEF PlugInv, Undisturbed
  <2>2. Of(kept, p) = {}
    BY DEF Of
  <2> QED
    BY <1>5, <2>1, <2>2
<1>10. \A q \in Plugins \ (broken \union {p}) : Of(lock', q) = Of(lock, q)
  <2> SUFFICES ASSUME NEW q \in Plugins \ (broken \union {p}) PROVE Of(lock', q) = Of(lock, q)
    OBVIOUS
  <2>1. Of(kept, q) = Of(actor[a].copy, q)
    BY DEF Of
  <2> QED
    BY <1>3, <1>5, <2>1
<1>11. lock' \in SUBSET Plug!Entry /\ (\A e \in lock' : e.id \notin Builtin)
  BY <1>2, <1>5, <1>6 DEF Foreign, PlugType
<1> HIDE DEF r, p, kept
<1>12. code' \in [Plugins -> Commits \union {Null}] /\ (\A q \in Plugins \ {p} : code'[q] = code[q])
       /\ enabled' \in SUBSET Plugins /\ trusted' \in SUBSET Plugins
  BY <1>2, <1>5 DEF PlugType
<1>13. PlugType' /\ Foreign'
  BY <1>2, <1>4, <1>5, <1>7, <1>8, <1>11, <1>12, PlugTypes
<1>14. enabled' \subseteq trusted'
  BY <1>5 DEF PlugInv
<1> QED
  BY <1>1, <1>4, <1>5, <1>8, <1>9, <1>10, <1>12, <1>13, <1>14, PlugWorks DEF p

\* A run that ends without writing the lock: its references are gone, or it failed.
LEMMA PlugEnds ==
  ASSUME PlugInv, NEW a \in Installers, Plug!Unref(a) \/ Plug!Fail(a)
  PROVE  PlugInv'
<1> DEFINE p == actor[a].id
           r == Plug!Idle
<1>1. Plug!Busy(a)
  BY DEF Plug!Unref, Plug!Fail, Plug!Busy
<1>2. /\ PlugType /\ Foreign /\ actor[a] \in RunRecord /\ p \in Plugins \ Builtin
      /\ Plug!Overtaken(a) \in SUBSET Plugins
  BY <1>1, PlugBusy
<1>3. r \in RunRecord /\ r.pc = "idle" /\ r.copy = {} /\ r.todo = {}
  BY DEF Plug!Idle, RunRecord, RunPcs
<1>4. /\ actor' = [actor EXCEPT ![a] = r]
      /\ broken \union Plug!Overtaken(a) \subseteq broken'
      /\ broken' \in SUBSET Plugins
      /\ UNCHANGED <<code, lock>>
      /\ Plug!Fail(a) => p \in broken' /\ UNCHANGED <<enabled, trusted>>
      /\ Plug!Unref(a) => enabled' = enabled \ {p} /\ trusted' = trusted \ {p}
  BY <1>2 DEF Plug!Unref, Plug!Fail, Plug!Set, PlugType
<1>5. p \notin broken' => Of(lock', p) = IF code'[p] = Null THEN {} ELSE {[id |-> p, sha |-> code'[p]]}
  <2> SUFFICES ASSUME p \notin broken' PROVE code[p] = Null /\ Of(lock, p) = {}
    BY <1>4
  <2>1. actor[a].pc = "unref" /\ p \notin broken
    BY <1>4 DEF Plug!Unref
  <2> QED
    BY <1>1, <2>1 DEF PlugInv, Undisturbed
<1>6. enabled' \in SUBSET Plugins /\ trusted' \in SUBSET Plugins /\ enabled' \subseteq trusted'
  BY <1>2, <1>4 DEF PlugInv, PlugType
<1> HIDE DEF r, p
<1>7. /\ code' \in [Plugins -> Commits \union {Null}]
      /\ \A q \in Plugins \ {p} : code'[q] = code[q]
      /\ lock' \in SUBSET Plug!Entry /\ \A e \in lock' : e.id \notin Builtin
      /\ \A q \in Plugins \ (broken \union {p}) : Of(lock', q) = Of(lock, q)
  BY <1>2, <1>4 DEF PlugType, Foreign
<1>8. PlugType' /\ Foreign'
  BY <1>2, <1>3, <1>4, <1>6, <1>7, PlugTypes
<1>9. broken \subseteq broken'
  BY <1>4
<1> QED
  BY <1>1, <1>3, <1>4, <1>5, <1>6, <1>7, <1>8, <1>9, PlugWorks DEF p

LEMMA PlugInstall ==
  ASSUME PlugInv, NEW a \in Installers, NEW p \in Plugins, NEW c \in Commits, Plug!Install(a, p, c)
  PROVE  PlugInv'
<1> DEFINE r == [Plug!Idle EXCEPT !.pc = "cleared", !.id = p, !.sha = c]
<1>1. r \in RunRecord /\ r.pc = "cleared" /\ r.id = p /\ r.sha = c /\ r.copy = {} /\ r.todo = {}
  BY DEF Plug!Idle, RunRecord, RunPcs
<1>2. ~Plug!Busy(a) /\ p \in Plugins \ Builtin
  BY DEF Plug!Install, Plug!Busy
<1>3. /\ actor' = [actor EXCEPT ![a] = r]
      /\ code' = [code EXCEPT ![p] = Null] /\ Plug!Begins(a, p)
      /\ UNCHANGED <<lock, enabled, trusted>>
  BY DEF Plug!Install, Plug!Set
<1> HIDE DEF r
<1>4. r.sha \in Commits /\ \A e \in r.copy \union r.todo : e.id \notin Builtin
  BY <1>1
<1> QED
  BY <1>1, <1>2, <1>3, <1>4, PlugBegins

LEMMA PlugRemove ==
  ASSUME PlugInv, NEW a \in Installers, NEW p \in Plugins, Plug!Remove(a, p)
  PROVE  PlugInv'
<1> DEFINE r == [Plug!Idle EXCEPT !.pc = "gone", !.id = p]
<1>1. r \in RunRecord /\ r.pc = "gone" /\ r.id = p /\ r.copy = {} /\ r.todo = {}
  BY DEF Plug!Idle, RunRecord, RunPcs
<1>2. ~Plug!Busy(a) /\ p \in Plugins \ Builtin
  BY DEF Plug!Remove, Plug!Busy
<1>3. /\ actor' = [actor EXCEPT ![a] = r]
      /\ code' = [code EXCEPT ![p] = Null] /\ Plug!Begins(a, p)
      /\ UNCHANGED <<lock, enabled, trusted>>
  BY DEF Plug!Remove, Plug!Set
<1> HIDE DEF r
<1>4. \A e \in r.copy \union r.todo : e.id \notin Builtin
  BY <1>1
<1> QED
  BY <1>1, <1>2, <1>3, <1>4, PlugBegins

LEMMA PlugSyncFetch ==
  ASSUME PlugInv, NEW a \in Installers, NEW e \in Plug!Entry, Plug!SyncFetch(a, e)
  PROVE  PlugInv'
<1> DEFINE p == e.id
           r == [actor[a] EXCEPT !.pc = "cleared", !.id = p, !.sha = e.sha,
                                 !.todo = actor[a].todo \ {e}]
<1>1. /\ PlugType /\ Foreign /\ actor[a] \in RunRecord /\ p \in Plugins /\ e.sha \in Commits
      /\ actor[a].pc = "sync" /\ e \in actor[a].todo /\ code[p] = Null
  BY DEF PlugInv, PlugType, Plug!SyncFetch, Plug!Entry
<1>2. ~Plug!Busy(a) /\ p \in Plugins \ Builtin
  BY <1>1 DEF Plug!Busy, Foreign
<1>3. /\ r \in RunRecord /\ r.pc = "cleared" /\ r.id = p /\ r.sha = e.sha
      /\ r.copy = actor[a].copy /\ r.todo = actor[a].todo \ {e}
  BY <1>1 DEF RunRecord, RunPcs
<1>4. actor' = [actor EXCEPT ![a] = r] /\ Plug!Begins(a, p) /\ UNCHANGED <<code, lock, enabled, trusted>>
  <2>1. actor' = [actor EXCEPT ![a] = r]
    BY DEF Plug!SyncFetch, Plug!Set
  <2>2. Plug!Begins(a, p)
    BY Zenon DEF Plug!SyncFetch
  <2>3. UNCHANGED <<code, lock, enabled, trusted>>
    BY Zenon DEF Plug!SyncFetch
  <2> QED
    BY <2>1, <2>2, <2>3
<1>5. \A f \in r.copy \union r.todo : f.id \notin Builtin
  BY <1>1, <1>3 DEF Foreign
<1> HIDE DEF r
<1>6. code' = [code EXCEPT ![p] = Null]
  BY <1>1, <1>4 DEF PlugType
<1>7. r.sha \in Commits
  BY <1>1, <1>3
<1> QED
  BY <1>2, <1>3, <1>4, <1>5, <1>6, <1>7, PlugBegins

\* A sync begins, or passes over an entry.
LEMMA PlugSyncs ==
  ASSUME PlugInv, NEW a \in Installers,
         Plug!Sync(a) \/ \E e \in Plug!Entry : Plug!SyncNext(a, e)
  PROVE  PlugInv'
<1>1. PlugType /\ Foreign /\ ~Plug!Busy(a)
  BY DEF PlugInv, Plug!Sync, Plug!SyncNext, Plug!Busy
<1>2. PICK rest \in SUBSET (lock \union actor[a].todo), pc \in {"idle", "sync"} :
        actor' = [actor EXCEPT ![a] = [Plug!Idle EXCEPT !.pc = pc, !.todo = rest]]
  <2>1. CASE Plug!Sync(a)
    BY <2>1 DEF Plug!Sync, Plug!Set
  <2>2. CASE \E e \in Plug!Entry : Plug!SyncNext(a, e)
    <3>1. PICK e \in Plug!Entry : Plug!SyncNext(a, e)
      BY <2>2
    <3> DEFINE left == actor[a].todo \ {e}
    <3>2. actor' = [actor EXCEPT ![a] = [Plug!Idle EXCEPT !.pc = IF left = {} THEN "idle" ELSE "sync",
                                                         !.todo = left]]
      BY <3>1 DEF Plug!SyncNext, Plug!Set
    <3>3. left \in SUBSET (lock \union actor[a].todo)
      OBVIOUS
    <3> HIDE DEF left
    <3>4. CASE left = {}
      BY <3>2, <3>3, <3>4
    <3>5. CASE left # {}
      BY <3>2, <3>3, <3>5
    <3> QED
      BY <3>4, <3>5
  <2> QED
    BY <2>1, <2>2
<1> DEFINE r == [Plug!Idle EXCEPT !.pc = pc, !.todo = rest]
<1>3. rest \in SUBSET Plug!Entry
  BY <1>1, <1>2 DEF PlugType, RunRecord
<1>4. r \in RunRecord /\ r.pc \in {"idle", "sync"} /\ r.copy = {} /\ r.todo = rest
  BY <1>3 DEF Plug!Idle, RunRecord, RunPcs
<1>5. actor' = [actor EXCEPT ![a] = r] /\ UNCHANGED <<code, lock, enabled, trusted, broken>>
  BY <1>2 DEF Plug!Sync, Plug!SyncNext, Plug!history
<1> HIDE DEF r
<1>6. /\ actor' \in [Installers -> RunRecord] /\ actor'[a] = r
      /\ \A b \in Installers \ {a} : actor'[b] = actor[b]
  BY <1>1, <1>4, <1>5 DEF PlugType
<1>7. PlugType'
  BY <1>1, <1>5, <1>6 DEF PlugType
<1>8. \A e \in rest : e.id \notin Builtin
  BY <1>1, <1>2 DEF Foreign
<1>9. Foreign'
  BY <1>1, <1>4, <1>5, <1>6, <1>8 DEF Foreign
<1>10. enabled' \subseteq trusted'
  BY <1>5 DEF PlugInv
<1>11. \A b \in Installers : actor'[b] = actor[b] \/ (~Plug!Busy(b) /\ actor'[b].pc \in {"idle", "sync"})
  BY <1>1, <1>4, <1>6
<1> QED
  BY <1>5, <1>7, <1>9, <1>10, <1>11, PlugRests

\* The operator turns a plugin on or off; nothing happens.
LEMMA PlugSwitch ==
  ASSUME PlugInv, UNCHANGED <<code, lock, actor, broken>>,
         enabled' \in SUBSET Plugins, trusted' \in SUBSET Plugins, enabled' \subseteq trusted'
  PROVE  PlugInv'
<1>1. PlugType' /\ Foreign'
  BY DEF PlugInv, PlugType, Foreign
<1> QED
  BY <1>1, PlugRests

LEMMA PlugStep == PlugInv /\ [Plug!Next]_plugVars => PlugInv'
<1> SUFFICES ASSUME PlugInv, [Plug!Next]_plugVars PROVE PlugInv'
  OBVIOUS
<1>1. enabled \in SUBSET Plugins /\ trusted \in SUBSET Plugins /\ enabled \subseteq trusted
  BY DEF PlugInv, PlugType
<1>2. ASSUME NEW a \in Installers,
             \/ Plug!Move(a) \/ Plug!ReadLock(a) \/ Plug!Record(a) \/ Plug!Forget(a) \/ Plug!Unref(a)
             \/ Plug!Sync(a) \/ Plug!Fail(a)
             \/ \E p \in Plugins : Plug!Remove(a, p)
             \/ \E p \in Plugins, c \in Commits : Plug!Install(a, p, c)
             \/ \E e \in Plug!Entry : Plug!SyncNext(a, e) \/ Plug!SyncFetch(a, e)
      PROVE  PlugInv'
  <2>1. CASE Plug!Move(a)
    BY <2>1, PlugMove
  <2>2. CASE Plug!ReadLock(a)
    BY <2>2, PlugReadLock
  <2>3. CASE Plug!Record(a)
    BY <2>3, PlugRecord
  <2>4. CASE Plug!Forget(a)
    BY <2>4, PlugForget
  <2>5. CASE Plug!Unref(a) \/ Plug!Fail(a)
    BY <2>5, PlugEnds
  <2>6. CASE \E p \in Plugins : Plug!Remove(a, p)
    BY <2>6, PlugRemove
  <2>7. CASE \E p \in Plugins, c \in Commits : Plug!Install(a, p, c)
    BY <2>7, PlugInstall
  <2>8. CASE Plug!Sync(a) \/ \E e \in Plug!Entry : Plug!SyncNext(a, e)
    BY <2>8, PlugSyncs
  <2>9. CASE \E e \in Plug!Entry : Plug!SyncFetch(a, e)
    BY <2>9, PlugSyncFetch
  <2> QED
    BY <1>2, <2>1, <2>2, <2>3, <2>4, <2>5, <2>6, <2>7, <2>8, <2>9
<1>3. ASSUME NEW p \in Switched, Plug!Enable(p) \/ Plug!Disable(p) PROVE PlugInv'
  <2>1. p \in Plugins
    BY PlugConstants
  <2>2. UNCHANGED <<code, lock, actor, broken>>
    BY <1>3 DEF Plug!Enable, Plug!Disable, Plug!history
  <2>3. /\ enabled' \in SUBSET Plugins /\ trusted' \in SUBSET Plugins
        /\ enabled' \subseteq trusted'
    BY <1>1, <1>3, <2>1 DEF Plug!Enable, Plug!Disable, Plug!history
  <2> QED
    BY <2>2, <2>3, PlugSwitch
<1>4. CASE UNCHANGED plugVars
  BY <1>1, <1>4, PlugSwitch DEF plugVars
<1> QED
  BY <1>2, <1>3, <1>4 DEF Plug!Next

\* For any plugins, commits and installers, each of which may be killed at any step: lock file
\* and code agree on every plugin that no run was killed or overtaken on, only what was
\* enabled by hand runs, and no plugin from a repository hides a bundled one.
THEOREM PluginsAreSound == Spec => []PluginsSound
<1>1. PlugInv /\ [Next]_vars => PlugInv'
  BY PlugMoves, PlugStep
<1>2. PlugInv => PluginsSound
  <2> SUFFICES ASSUME PlugInv PROVE Plug!PluginsSound
    BY DEF PluginsSound
  <2>1. enabled \subseteq trusted /\ Plug!LockAgrees
    BY DEF PlugInv
  <2>2. Plug!EnabledByHand
    BY <2>1 DEF Plug!EnabledByHand, Plug!Active
  <2>3. Plug!NoShadow
    BY DEF PlugInv, Foreign, Plug!NoShadow
  <2> QED
    BY <2>1, <2>2, <2>3 DEF Plug!PluginsSound
<1> QED
  BY <1>1, <1>2, PlugInit, PTL DEF Spec

-----------------------------------------------------------------------------
(* What a model call is shown *)

Middleware == {"knowledge", "memory"}
Running == [goal : BOOLEAN, at : {"ready", "asked"}]

\* What a middleware read holds every summary that was older then and is among the newest now.
Known(c) ==
  /\ c.at \in Nat /\ c.at <= now
  /\ \A s \in DOMAIN files :
       files[s].at < c.at /\ Turn!Cardinality(Turn!Newer(s)) < MaxSessions
         => <<s, files[s].at>> \in c.block

TurnType ==
  /\ conf \in Turn!Confs /\ now \in Nat
  /\ thread \in [Sessions -> Seq(Turn!Messages)]
  /\ running = [s \in Sessions |-> running[s]]
  /\ \A s \in Sessions : running[s] # Null => running[s] \in Running

Written ==
  /\ IsFiniteSet(DOMAIN files) /\ DOMAIN files \subseteq Sessions
  /\ \A s \in DOMAIN files : files[s].at \in Nat /\ files[s].at <= now

Caches ==
  /\ DOMAIN cache = Middleware
  /\ ~Scoped => \A m \in Middleware : cache[m] # Null => Known(cache[m])

TurnInv ==
  /\ TurnType
  /\ Written
  /\ Caches
  /\ Turn!NoEcho

LEMMA TurnConstants == MaxSessions \in Nat \ {0} /\ Ttl \in Nat /\ Scoped \in BOOLEAN
  BY ContextAssumption DEF ContextAssumption, Turn!ContextAssumption

LEMMA TurnCounts == \A S : Turn!Cardinality(S) = Cardinality(S)
  BY DEF Cardinality, Turn!Cardinality

LEMMA TurnMoves == [Next]_vars => [Turn!Next]_turnVars
  BY DEF Next, vars

LEMMA TurnInit == Init => TurnInv
<1> SUFFICES ASSUME Turn!Init PROVE TurnInv
  BY DEF Init
<1> USE DEF Turn!Init
<1>1. DOMAIN files = {}
  OBVIOUS
<1>2. TurnType
  BY DEF TurnType
<1>3. Written
  BY <1>1, FS_EmptySet DEF Written
<1>4. Caches
  BY DEF Caches, Middleware
<1>5. Turn!NoEcho
  BY <1>1 DEF Turn!NoEcho
<1> QED
  BY <1>2, <1>3, <1>4, <1>5 DEF TurnInv

\* What is read now is known.
LEMMA TurnLoads ==
  ASSUME ~Scoped, TurnInv, NEW m \in Middleware, Turn!Read(m, Turn!LoadPriorSessions) # Null
  PROVE  Known(Turn!Read(m, Turn!LoadPriorSessions))
<1>1. CASE Turn!Stale(m)
  <2> DEFINE c == [block |-> Turn!LoadPriorSessions, at |-> now]
  <2>1. Turn!Read(m, Turn!LoadPriorSessions) = c
    BY <1>1 DEF Turn!Read
  <2>2. c.at \in Nat /\ c.at <= now
    BY DEF TurnInv, TurnType
  <2>3. ASSUME NEW s \in DOMAIN files, Turn!Cardinality(Turn!Newer(s)) < MaxSessions
        PROVE  <<s, files[s].at>> \in c.block
    BY <2>3 DEF Turn!LoadPriorSessions
  <2> HIDE DEF c
  <2>4. Known(c)
    BY <2>2, <2>3 DEF Known
  <2> QED
    BY <2>1, <2>4
<1>2. CASE ~Turn!Stale(m)
  BY <1>2 DEF Turn!Read, Turn!Stale, TurnInv, Caches
<1> QED
  BY <1>1, <1>2

\* A summary that is due was in the directory when the middleware end read it.
LEMMA TurnReads ==
  ASSUME ~Scoped, TurnInv, NEW m \in Middleware, NEW s \in DOMAIN files, Turn!Due(s)
  PROVE  <<s, files[s].at>> \in Turn!Read(m, Turn!LoadPriorSessions).block
<1>1. CASE Turn!Stale(m)
  BY <1>1 DEF Turn!Read, Turn!LoadPriorSessions, Turn!Due
<1>2. CASE ~Turn!Stale(m)
  <2>1. cache[m] # Null /\ Known(cache[m])
    BY <1>2 DEF Turn!Stale, TurnInv, Caches
  <2>2. ~(now - cache[m].at > Ttl) /\ Turn!Read(m, Turn!LoadPriorSessions) = cache[m]
    BY <1>2, <2>1 DEF Turn!Stale, Turn!Read
  <2>3. files[s].at \in Nat /\ now \in Nat /\ cache[m].at \in Nat
    BY <2>1 DEF TurnInv, TurnType, Written, Known
  <2>4. files[s].at < cache[m].at
    BY <2>2, <2>3, TurnConstants DEF Turn!Due
  <2> QED
    BY <2>1, <2>2, <2>4 DEF Known, Turn!Due
<1> QED
  BY <1>1, <1>2

LEMMA TurnCalls ==
  ASSUME ~Scoped, TurnInv, Turn!Next, Turn!Prepared
  PROVE  Turn!ContinuityFresh /\ Turn!GoalCallsAddNone
<1>1. PICK s \in Sessions, heard \in SUBSET Turn!Parts : Turn!ModelCall(s, heard)
  <2> SUFFICES ASSUME \A s \in Sessions, h \in SUBSET Turn!Parts : ~Turn!ModelCall(s, h) PROVE FALSE
    OBVIOUS
  <2>1. call' = call \/ call' = Turn!NoCall
    BY DEF Turn!Next, Turn!StartTurn, Turn!SearchTools, Turn!Answer, Turn!Abort, Turn!Tick
  <2> QED
    BY <2>1 DEF Turn!Prepared, Turn!NoCall
<1> DEFINE goal == running[s].goal
           R(m) == Turn!Read(m, Turn!LoadPriorSessions)
           parts == IF Turn!HasKnowledge THEN Turn!KnowledgeParts(goal, heard) ELSE {}
<1>2. /\ call'.session = s
      /\ call'.gathered = parts
      /\ call'.block = IF "prior" \in parts THEN R("knowledge").block
                       ELSE IF Turn!MemoryActs(goal) THEN R("memory").block ELSE {}
  BY <1>1 DEF Turn!ModelCall, Turn!LoadMemory
<1>3. goal \in BOOLEAN /\ thread \in [Sessions -> Seq(Turn!Messages)]
  BY <1>1 DEF Turn!ModelCall, TurnInv, TurnType, Running
<1>4. "prior" \in parts <=> Turn!HasKnowledge /\ R("knowledge").block # {} /\ ~goal
  BY DEF Turn!KnowledgeParts, Turn!LoadMemory, Turn!Parts
<1>5. ASSUME ~goal PROVE Turn!ContinuityFresh
  <2> SUFFICES ASSUME NEW t \in DOMAIN files, Turn!Due(t)
               PROVE  <<t, files[t].at>> \in call'.block
    BY DEF Turn!ContinuityFresh
  <2>1. \A m \in Middleware : <<t, files[t].at>> \in R(m).block
    BY TurnReads
  <2>2. Turn!HasKnowledge \/ Turn!MemoryActs(goal)
    BY <1>5 DEF Turn!HasKnowledge, Turn!MemoryActs, TurnInv, TurnType
  <2> HIDE DEF R, parts
  <2> QED
    BY <1>2, <1>4, <1>5, <2>1, <2>2 DEF Middleware
<1>6. ASSUME goal PROVE Turn!GoalCallsAddNone
  <2>1. ~Turn!MemoryActs(goal) /\ "prior" \notin parts
    BY <1>4, <1>6 DEF Turn!MemoryActs
  <2>2. thread' = [thread EXCEPT ![s] = thread[s]]
    BY <1>1, <2>1 DEF Turn!ModelCall
  <2> QED
    BY <1>2, <1>3, <2>1, <2>2 DEF Turn!GoalCallsAddNone
<1>7. Turn!ForGoal <=> goal
  BY <1>2 DEF Turn!ForGoal
<1> QED
  BY <1>3, <1>5, <1>6, <1>7 DEF Turn!ContinuityFresh, Turn!GoalCallsAddNone

\* No file is written, and time may pass.
LEMMA TurnQuiet ==
  ASSUME TurnInv, TurnType', UNCHANGED <<files, cache>>, now <= now'
  PROVE  TurnInv'
<1>1. Written'
  BY DEF TurnInv, TurnType, Written
<1>2. \A c : Known(c) => Known(c)'
  BY DEF TurnInv, TurnType, Known, Turn!Newer
<1>3. Caches'
  BY <1>2 DEF TurnInv, Caches
<1> QED
  BY <1>1, <1>3 DEF TurnInv, Turn!NoEcho, Turn!Ends

LEMMA TurnStarts ==
  ASSUME TurnInv, NEW s \in Sessions, NEW goal \in BOOLEAN, Turn!StartTurn(s, goal)
  PROVE  TurnInv'
<1>1. Turn!Message("human", {}) \in Turn!Messages /\ [goal |-> goal, at |-> "ready"] \in Running
  BY DEF Turn!Message, Turn!Messages, Running
<1>2. Append(thread[s], Turn!Message("human", {})) \in Seq(Turn!Messages)
  BY <1>1, AppendAt DEF TurnInv, TurnType
<1>3. UNCHANGED <<conf, now, files, cache>> /\ now \in Nat
  BY DEF Turn!StartTurn, TurnInv, TurnType
<1>4. thread' \in [Sessions -> Seq(Turn!Messages)]
  BY <1>2 DEF Turn!StartTurn, TurnInv, TurnType
<1>5. /\ running' = [t \in Sessions |-> running'[t]]
      /\ \A t \in Sessions : running'[t] # Null => running'[t] \in Running
  BY <1>1 DEF Turn!StartTurn, TurnInv, TurnType
<1>6. TurnType'
  BY <1>3, <1>4, <1>5 DEF TurnInv, TurnType
<1> QED
  BY <1>3, <1>6, TurnQuiet

LEMMA TurnSearches ==
  ASSUME TurnInv, NEW s \in Sessions, NEW found \in SUBSET Tools, Turn!SearchTools(s, found)
  PROVE  TurnInv'
<1>1. Turn!Message("ai", {}) \in Turn!Messages /\ Turn!Message("search", found) \in Turn!Messages
  BY DEF Turn!Message, Turn!Messages
<1>2. thread[s] \o <<Turn!Message("ai", {}), Turn!Message("search", found)>> \in Seq(Turn!Messages)
  <2>1. <<Turn!Message("ai", {}), Turn!Message("search", found)>> \in Seq(Turn!Messages)
    BY <1>1
  <2>2. thread[s] \in Seq(Turn!Messages)
    BY DEF TurnInv, TurnType
  <2> QED
    BY <2>1, <2>2, ConcatProperties
<1>3. UNCHANGED <<conf, now, files, cache>> /\ now \in Nat
  BY DEF Turn!SearchTools, TurnInv, TurnType
<1>4. thread' \in [Sessions -> Seq(Turn!Messages)]
  BY <1>2 DEF Turn!SearchTools, TurnInv, TurnType
<1>5. /\ running' = [t \in Sessions |-> running'[t]]
      /\ \A t \in Sessions : running'[t] # Null => running'[t] \in Running
  BY DEF Turn!SearchTools, TurnInv, TurnType, Running
<1>6. TurnType'
  BY <1>3, <1>4, <1>5 DEF TurnInv, TurnType
<1> QED
  BY <1>3, <1>6, TurnQuiet

LEMMA TurnIdles ==
  ASSUME TurnInv, Turn!Tick \/ (\E s \in Sessions : Turn!Abort(s)) \/ UNCHANGED turnVars
  PROVE  TurnInv'
<1>1. UNCHANGED <<thread, files, cache, conf>>
  BY DEF Turn!Tick, Turn!Abort, turnVars
<1>2. now' \in Nat /\ now <= now'
  BY DEF Turn!Tick, Turn!Abort, turnVars, TurnInv, TurnType
<1>3. TurnType'
  BY <1>1, <1>2 DEF Turn!Tick, Turn!Abort, turnVars, TurnInv, TurnType
<1> QED
  BY <1>1, <1>2, <1>3, TurnQuiet

LEMMA TurnAsks ==
  ASSUME TurnInv, NEW s \in Sessions, NEW heard \in SUBSET Turn!Parts,
         Turn!ModelCall(s, heard)
  PROVE  TurnInv'
<1> DEFINE view == IF Turn!MemoryActs(running[s].goal)
                   THEN Turn!AddMessages(thread[s], Turn!WithPrior(thread[s]))
                   ELSE thread[s]
<1>1. thread[s] \in Seq(Turn!Messages)
  BY DEF TurnInv, TurnType
<1>2. /\ Turn!WithPrior(thread[s]) \in Seq(Turn!Messages)
      /\ Len(thread[s]) <= Len(Turn!WithPrior(thread[s]))
  <2>1. Turn!Message("prior", {}) \in Turn!Messages
    BY DEF Turn!Message, Turn!Messages
  <2>2. <<Turn!Message("prior", {})>> \in Seq(Turn!Messages)
    BY <2>1
  <2>3. /\ <<Turn!Message("prior", {})>> \o thread[s] \in Seq(Turn!Messages)
        /\ Len(<<Turn!Message("prior", {})>> \o thread[s]) = 1 + Len(thread[s])
    BY <1>1, <2>2, ConcatProperties
  <2> QED
    BY <1>1, <2>3 DEF Turn!WithPrior
<1>4. view \in Seq(Turn!Messages)
  BY <1>1, <1>2 DEF Turn!AddMessages
<1>5. thread' = [thread EXCEPT ![s] = view]
  BY DEF Turn!ModelCall
<1>6. UNCHANGED <<conf, now, files>>
  BY DEF Turn!ModelCall
<1>7. TurnType'
  <2> HIDE DEF view
  <2>1. thread' \in [Sessions -> Seq(Turn!Messages)]
    BY <1>4, <1>5 DEF TurnInv, TurnType
  <2>2. /\ running' = [t \in Sessions |-> running'[t]]
        /\ \A t \in Sessions : running'[t] # Null => running'[t] \in Running
    BY DEF TurnInv, TurnType, Turn!ModelCall, Running
  <2> QED
    BY <1>6, <2>1, <2>2 DEF TurnInv, TurnType
<1>8. \A c : Known(c) => Known(c)'
  BY <1>6 DEF Known, Turn!Newer
<1>9. Caches'
  <2>1. DOMAIN cache' = Middleware
    BY DEF Turn!ModelCall, TurnInv, Caches
  <2>2. ASSUME ~Scoped
        PROVE  \A m \in Middleware : cache'[m] \in {cache[m], Turn!Read(m, Turn!LoadPriorSessions)}
    BY <2>2 DEF Turn!ModelCall, TurnInv, Caches, Middleware, Turn!LoadMemory
  <2>3. ASSUME ~Scoped PROVE \A m \in Middleware : cache'[m] # Null => Known(cache'[m])
    BY <2>2, <2>3, TurnLoads DEF TurnInv, Caches
  <2> QED
    BY <1>8, <2>1, <2>3 DEF Caches
<1> QED
  BY <1>6, <1>7, <1>9 DEF TurnInv, Written, Turn!NoEcho, Turn!Ends

\* A summary is newer than all that was read, and leaves the newer ones of the others newer.
LEMMA TurnAnswers ==
  ASSUME TurnInv, NEW s \in Sessions, Turn!Answer(s)
  PROVE  TurnInv'
<1> DEFINE msgs == Append(thread[s], Turn!Message("ai", {}))
<1>1. /\ thread' = [thread EXCEPT ![s] = msgs]
      /\ files' = [t \in DOMAIN files \cup {s} |->
                     IF t = s THEN Turn!Summary(thread'[s]) ELSE files[t]]
      /\ running' = [running EXCEPT ![s] = Null]
      /\ UNCHANGED <<conf, now, cache>>
  BY DEF Turn!Answer
<1>2. Turn!Message("ai", {}) \in Turn!Messages /\ Turn!Message("ai", {}).kind = "ai"
  BY DEF Turn!Message, Turn!Messages
<1>3. thread[s] \in Seq(Turn!Messages)
  BY DEF TurnInv, TurnType
<1>4. /\ msgs \in Seq(Turn!Messages) /\ DOMAIN msgs = 1..(Len(thread[s]) + 1)
      /\ msgs[Len(thread[s]) + 1] = Turn!Message("ai", {}) /\ Len(thread[s]) \in Nat
  BY <1>2, <1>3, AppendAt
<1> HIDE DEF msgs
<1>5. TurnType'
  BY <1>1, <1>4 DEF TurnInv, TurnType
<1>6. thread'[s] = msgs
  BY <1>1 DEF TurnInv, TurnType
<1>7. /\ DOMAIN files' = DOMAIN files \cup {s}
      /\ files'[s] = Turn!Summary(msgs)
      /\ \A t \in DOMAIN files \ {s} : files'[t] = files[t]
  BY <1>1, <1>6
<1>8. files'[s].at = now
  BY <1>7 DEF Turn!Summary
<1>9. Written'
  <2>1. IsFiniteSet(DOMAIN files \cup {s})
    BY FS_AddElement DEF TurnInv, Written
  <2> QED
    BY <1>1, <1>7, <1>8, <2>1 DEF TurnInv, TurnType, Written
<1>10. Turn!NoEcho'
  <2> DEFINE f == files'[s].msgs
             end == Len(thread[s]) + 1
  <2>1. f = [i \in {j \in DOMAIN msgs : msgs[j].kind \in {"human", "ai"}} |-> msgs[i]]
    BY <1>7 DEF Turn!Summary
  <2>2. \A i \in DOMAIN f : f[i].kind # "prior"
    BY <2>1
  <2>3. end \in DOMAIN f /\ f[end].kind = "ai" /\ \A j \in DOMAIN f : j <= end
    BY <1>2, <1>4, <2>1
  <2> HIDE DEF end
  <2>4. Turn!Ends(f)
    BY <2>3 DEF Turn!Ends
  <2>5. \A t \in DOMAIN files \ {s} :
           (\A i \in DOMAIN files[t].msgs : files[t].msgs[i].kind # "prior") /\ Turn!Ends(files[t].msgs)
    BY DEF TurnInv, Turn!NoEcho
  <2> QED
    BY <1>7, <2>2, <2>4, <2>5 DEF Turn!NoEcho
<1>11. ASSUME NEW c, Known(c) PROVE Known(c)'
  <2>1. c.at \in Nat /\ c.at <= now
    BY <1>11 DEF Known
  <2>2. now \in Nat
    BY DEF TurnInv, TurnType
  <2> SUFFICES ASSUME NEW t \in DOMAIN files', files'[t].at < c.at,
                      Turn!Cardinality(Turn!Newer(t)') < MaxSessions
               PROVE  <<t, files'[t].at>> \in c.block
    BY <1>1, <2>1 DEF Known
  <2>3. t # s /\ t \in DOMAIN files /\ files'[t] = files[t]
    BY <1>7, <1>8, <2>1, <2>2
  <2>4. Turn!Newer(t) \subseteq Turn!Newer(t)'
    <3> SUFFICES ASSUME NEW u \in DOMAIN files, files[u].at > files[t].at
                 PROVE  u \in DOMAIN files' /\ files'[u].at > files'[t].at
      BY DEF Turn!Newer
    <3>1. files[u].at <= now /\ files[u].at \in Nat /\ files[t].at \in Nat
      BY <2>3 DEF TurnInv, Written
    <3> QED
      BY <1>7, <1>8, <2>2, <2>3, <3>1
  <2>5. IsFiniteSet(Turn!Newer(t)')
    <3>1. IsFiniteSet(DOMAIN files') /\ Turn!Newer(t)' \subseteq DOMAIN files'
      BY <1>9 DEF Written, Turn!Newer
    <3> QED
      BY <3>1, FS_Subset
  <2>6. /\ Turn!Cardinality(Turn!Newer(t)) <= Turn!Cardinality(Turn!Newer(t)')
        /\ Turn!Cardinality(Turn!Newer(t)) \in Nat /\ Turn!Cardinality(Turn!Newer(t)') \in Nat
    BY <2>4, <2>5, FS_Subset, FS_CardinalityType, TurnCounts
  <2>7. Turn!Cardinality(Turn!Newer(t)) < MaxSessions
    BY <2>6, TurnConstants
  <2> QED
    BY <1>11, <2>3, <2>7 DEF Known
<1>12. Caches'
  BY <1>1, <1>11 DEF TurnInv, Caches
<1> QED
  BY <1>5, <1>9, <1>10, <1>12 DEF TurnInv

LEMMA TurnStep == TurnInv /\ [Next]_vars => TurnInv'
<1> SUFFICES ASSUME TurnInv, [Turn!Next]_turnVars PROVE TurnInv'
  BY TurnMoves
<1>1. CASE \E s \in Sessions : \E goal \in BOOLEAN : Turn!StartTurn(s, goal)
  BY <1>1, TurnStarts
<1>2. CASE \E s \in Sessions : \E heard \in SUBSET Turn!Parts : Turn!ModelCall(s, heard)
  BY <1>2, TurnAsks
<1>3. CASE \E s \in Sessions : \E found \in SUBSET Tools \ {{}} : Turn!SearchTools(s, found)
  BY <1>3, TurnSearches
<1>4. CASE \E s \in Sessions : Turn!Answer(s)
  BY <1>4, TurnAnswers
<1>5. CASE Turn!Tick \/ (\E s \in Sessions : Turn!Abort(s)) \/ UNCHANGED turnVars
  BY <1>5, TurnIdles
<1> QED
  BY <1>1, <1>2, <1>3, <1>4, <1>5 DEF Turn!Next

\* For any sessions, bounds and lifetime of the caches: a summary that is old enough to be in
\* every cache and new enough for the block is before every call of a turn without a goal, and
\* a goal's calls add no prior sessions.  With an instance id the knowledge middleware reads
\* another directory than the one that is written, so the theorem is about none being set.
THEOREM CallsAreSound == ASSUME ~Scoped PROVE Spec => CallsSound
<1>1. TurnInv /\ [Next]_vars
        => [Turn!Prepared => Turn!ContinuityFresh /\ Turn!GoalCallsAddNone]_Turn!vars
  BY TurnMoves, TurnCalls DEF Turn!vars, turnVars
<1> QED
  BY <1>1, TurnInit, TurnStep, PTL DEF Spec, CallsSound, Turn!CallsSound

\* No summary holds what was injected into its own thread, and each ends with the answer that
\* completed its turn.
THEOREM NoSummaryEchoes == Spec => []NoEcho
<1>1. TurnInv => NoEcho
  BY DEF TurnInv, NoEcho
<1> QED
  BY <1>1, TurnInit, TurnStep, PTL DEF Spec

-----------------------------------------------------------------------------
(* Scripts *)

\* The only call of a script that is under way is somewhere on the bridge.
InHand ==
  \/ /\ child.at = "running" /\ Len(got) = child.asked
     /\ req = << >> /\ resp = << >> /\ service.at = "reading"
  \/ /\ child.at = "calling" /\ Len(got) + 1 = child.asked
     /\ \/ req = <<child.asked>> /\ resp = << >> /\ service.at = "reading"
        \/ req = << >> /\ resp = << >> /\ service.at \in {"invoking", "writing"}
           /\ service.id = child.asked
        \/ req = << >> /\ resp = <<child.asked>> /\ service.at = "reading"

\* Without the bridge a script can still read the answer that was written last.
LeftBehind ==
  /\ child.at = "running" => resp = << >>
  /\ child.at = "calling" => resp = << >> \/ resp = <<Len(got) + 1>>

CodeType ==
  /\ parent \in {"idle", "starting", "waiting", "killing", "leaving"}
  /\ child \in [at : {"absent", "running", "calling", "dead"}, asked : Nat]
  /\ service \in [at : {"off", "reading", "invoking", "writing"}, id : Nat]
  /\ req \in Seq(Nat) /\ resp \in Seq(Nat) /\ got \in Seq(Nat)

Phases ==
  /\ parent = "idle" => fds = {} /\ ~file /\ service.at = "off" /\ LeftBehind
  /\ parent = "starting" => /\ child = Code!Absent /\ service.at = "off"
                            /\ req = << >> /\ resp = << >> /\ got = << >>
  /\ parent \in {"waiting", "killing", "leaving"} => "req_r" \in fds /\ child.at # "absent"
  /\ parent = "killing" => child.at = "dead"
  /\ parent \in {"waiting", "leaving"} /\ child.at # "dead" => InHand

CodeInv ==
  /\ CodeType
  /\ Phases
  /\ \A i \in DOMAIN got : got[i] = i

LEMMA CodeAppends ==
  ASSUME NEW q \in Seq(Nat), NEW k \in Nat
  PROVE  Append(q, k) \in Seq(Nat) /\ (q = << >> => Append(q, k) = <<k>>)
<1>1. Append(q, k) \in Seq(Nat)
  BY AppendAt
<1>2. Append(<< >>, k) = <<k>>
  OBVIOUS
<1> QED
  BY <1>1, <1>2

LEMMA CodeMoves == [Next]_vars => [Code!Next]_codeVars
  BY DEF Next, vars

LEMMA CodeInit == Init => CodeInv
<1> SUFFICES ASSUME Code!Init PROVE CodeInv
  BY DEF Init
<1> QED
  BY DEF Code!Init, Code!Absent, Code!Off, CodeInv, CodeType, Phases, LeftBehind

LEMMA CodeRuns ==
  ASSUME CodeInv, \/ Code!Begin \/ Code!SpawnFails \/ Code!Spawn \/ Code!ChildIsDone
                  \/ Code!TimeOut \/ Code!Reaped \/ Code!Cancelled \/ Code!Leave
  PROVE  CodeInv'
<1> USE DEF CodeInv, CodeType, Phases, Code!Absent, Code!Off
<1>1. CASE Code!Begin
  BY <1>1 DEF Code!Begin, Code!Fds
<1>2. CASE Code!SpawnFails
  BY <1>2 DEF Code!SpawnFails, Code!CleanUp, LeftBehind
<1>3. CASE Code!Spawn
  BY <1>3 DEF Code!Spawn, InHand
<1>4. CASE Code!ChildIsDone \/ Code!TimeOut \/ Code!Reaped
  BY <1>4 DEF Code!ChildIsDone, Code!TimeOut, Code!Reaped
<1>5. CASE Code!Cancelled
  BY <1>5 DEF Code!Cancelled, InHand
<1>6. CASE Code!Leave
  BY <1>6 DEF Code!Leave, Code!CleanUp, LeftBehind, InHand
<1> QED
  BY <1>1, <1>2, <1>3, <1>4, <1>5, <1>6

LEMMA CodeBridges ==
  ASSUME CodeInv, Code!ServiceReads \/ Code!ToolEnds \/ Code!ServiceWrites \/ Code!ServiceEnds
  PROVE  CodeInv'
<1> USE DEF CodeInv, CodeType, Phases, Code!Off
<1>1. CASE Code!ServiceReads
  <2>1. parent # "idle" /\ parent # "starting"
    BY <1>1 DEF Code!ServiceReads
  <2>2. req' \in Seq(Nat) /\ Head(req) \in Nat
    BY <1>1 DEF Code!ServiceReads
  <2>3. /\ service' \in [at : {"off", "reading", "invoking", "writing"}, id : Nat]
        /\ service'.at \in {"invoking", "writing"} /\ service'.id = Head(req)
    BY <1>1, <2>2 DEF Code!ServiceReads
  <2>4. req = <<child.asked>> => req' = << >> /\ Head(req) = child.asked
    BY <1>1 DEF Code!ServiceReads
  <2>5. InHand /\ child.at # "dead" => InHand'
    BY <1>1, <2>3, <2>4 DEF Code!ServiceReads, InHand
  <2> QED
    BY <1>1, <2>1, <2>2, <2>3, <2>5 DEF Code!ServiceReads
<1>2. CASE Code!ToolEnds
  BY <1>2 DEF Code!ToolEnds, InHand
<1>3. CASE Code!ServiceWrites
  <2>1. parent # "idle" /\ parent # "starting"
    BY <1>3 DEF Code!ServiceWrites
  <2>2. CASE child.at = "dead"
    BY <1>3, <2>1, <2>2 DEF Code!ServiceWrites
  <2>3. CASE child.at # "dead"
    <3> service.id \in Nat /\ resp \in Seq(Nat)
      OBVIOUS
    <3>1. resp' = Append(resp, service.id)
      BY <1>3, <2>3 DEF Code!ServiceWrites
    <3>4. resp' \in Seq(Nat)
      BY <3>1, AppendAt
    <3>2. resp = << >> => resp' = <<service.id>>
      BY <3>1
    <3>3. InHand'
      BY <1>3, <2>1, <2>3, <3>2 DEF Code!ServiceWrites, InHand
    <3> QED
      BY <1>3, <2>1, <2>3, <3>4, <3>3 DEF Code!ServiceWrites
  <2> QED
    BY <2>2, <2>3
<1>4. CASE Code!ServiceEnds
  BY <1>4 DEF Code!ServiceEnds
<1> QED
  BY <1>1, <1>2, <1>3, <1>4

LEMMA CodeScripts ==
  ASSUME CodeInv, Code!ChildCalls \/ Code!ChildReads \/ Code!ChildSeesEof \/ Code!ChildExits
  PROVE  CodeInv'
<1> USE DEF CodeInv, CodeType, Phases
<1>1. CASE Code!ChildCalls
  <2>1. child' \in [at : {"absent", "running", "calling", "dead"}, asked : Nat]
    BY <1>1 DEF Code!ChildCalls
  <2>4. child.asked + 1 \in Nat /\ child'.asked = child.asked + 1
    BY <1>1 DEF Code!ChildCalls
  <2>5. req' = req \/ req' = Append(req, child'.asked)
    BY <1>1, <2>4 DEF Code!ChildCalls
  <2>6. "req_r" \in fds => req' = Append(req, child'.asked)
    BY <1>1, <2>4 DEF Code!ChildCalls
  <2>8. child'.asked \in Nat /\ req \in Seq(Nat)
    BY <2>4
  <2>2. req' \in Seq(Nat) /\ ("req_r" \in fds /\ req = << >> => req' = <<child'.asked>>)
    BY <2>5, <2>6, <2>8, CodeAppends
  <2>3. "req_r" \in fds /\ InHand => InHand'
    BY <1>1, <2>2 DEF Code!ChildCalls, InHand
  <2> QED
    BY <1>1, <2>1, <2>2, <2>3 DEF Code!ChildCalls, LeftBehind, Code!Absent
<1>2. CASE Code!ChildReads
  <2>1. resp = <<Len(got) + 1>>
    BY <1>2 DEF Code!ChildReads, InHand, LeftBehind, Code!Absent
  <2>2. Head(resp) = Len(got) + 1 /\ resp' = << >> /\ got' = Append(got, Len(got) + 1)
    BY <1>2, <2>1 DEF Code!ChildReads
  <2>3. got' \in Seq(Nat) /\ Len(got') = Len(got) + 1 /\ \A i \in DOMAIN got' : got'[i] = i
    BY <2>2, AppendAt
  <2>4. InHand => InHand'
    BY <1>2, <2>1, <2>2, <2>3 DEF Code!ChildReads, InHand
  <2>5. /\ child' \in [at : {"absent", "running", "calling", "dead"}, asked : Nat]
        /\ child.at = "calling" /\ child'.at = "running"
        /\ UNCHANGED <<parent, req, service, fds, file>>
    BY <1>2 DEF Code!ChildReads
  <2>6. LeftBehind'
    BY <2>2, <2>5 DEF LeftBehind
  <2>7. parent # "starting"
    BY <2>5 DEF Code!Absent
  <2> QED
    BY <2>2, <2>3, <2>4, <2>5, <2>6, <2>7
<1>3. CASE Code!ChildSeesEof \/ Code!ChildExits
  <2>1. /\ child' \in [at : {"absent", "running", "calling", "dead"}, asked : Nat]
        /\ child.at \in {"running", "calling"}
        /\ UNCHANGED <<parent, req, resp, got, service, fds, file>>
    BY <1>3 DEF Code!ChildSeesEof, Code!ChildExits
  <2>2. child'.at = "dead" \/ (child'.at = "running" /\ resp = << >> /\ fds = {})
    BY <1>3 DEF Code!ChildSeesEof, Code!ChildExits
  <2>3. LeftBehind'
    BY <2>1, <2>2 DEF LeftBehind
  <2>4. parent # "starting"
    BY <2>1 DEF Code!Absent
  <2> QED
    BY <2>1, <2>2, <2>3, <2>4
<1> QED
  BY <1>1, <1>2, <1>3

LEMMA CodeStep == CodeInv /\ [Next]_vars => CodeInv'
<1> SUFFICES ASSUME CodeInv, [Code!Next]_codeVars PROVE CodeInv'
  BY CodeMoves
<1>1. CASE UNCHANGED codeVars
  BY <1>1 DEF codeVars, CodeInv, CodeType, Phases, InHand, LeftBehind
<1> QED
  BY <1>1, CodeRuns, CodeBridges, CodeScripts DEF Code!Next

\* For any number of runs and calls, and however a run ends (exit, timeout, failed start,
\* cancelled turn): a script reads the answer of the call it made, its call is in hand while
\* it waits for it, and no descriptor, file or service is left behind.
THEOREM BridgeIsSound == Spec => []BridgeSound
<1>1. CodeInv => BridgeSound
  <2> SUFFICES ASSUME CodeInv PROVE Code!BridgeSound
    BY DEF BridgeSound
  <2>1. Code!Released
    BY DEF CodeInv, Phases, Code!Released
  <2>2. ASSUME child.at = "calling", parent = "waiting"
        PROVE  \/ child.asked \in {req[i] : i \in DOMAIN req} \cup {resp[i] : i \in DOMAIN resp}
               \/ service.at \in {"invoking", "writing"} /\ service.id = child.asked
    <3>1. \/ req = <<child.asked>> \/ resp = <<child.asked>>
          \/ service.at \in {"invoking", "writing"} /\ service.id = child.asked
      BY <2>2 DEF CodeInv, Phases, InHand
    <3>2. ASSUME NEW q, q = <<child.asked>> PROVE child.asked \in {q[i] : i \in DOMAIN q}
      <4>1. 1 \in DOMAIN q /\ q[1] = child.asked
        BY <3>2
      <4> QED
        BY <4>1
    <3> QED
      BY <3>1, <3>2
  <2> QED
    BY <2>1, <2>2 DEF CodeInv, Code!OwnAnswers, Code!BridgeSound
<1> QED
  BY <1>1, CodeInit, CodeStep, PTL DEF Spec

-----------------------------------------------------------------------------
(* Asking a peer *)

PeerIdle == [state |-> "none", text |-> "none", by |-> 0]

Consults == [at : {"idle", "sent", "polling", "done"}, polls : 0..MaxPolls,
             got : Peers!Texts \union {"no text", "refused", "error"}]
PeerTasks == [state : Peers!PeerStates, text : Peers!Texts, by : 0..MaxPolls]

\* A peer's task that goes nowhere any more.
Halted(c) == peer[c].state \in Peers!Over \union {"message", "input_required"}

\* What call c and its peer's task are between steps.
Asked(c) ==
  /\ consult[c].at = "idle" => peer[c] = PeerIdle
  /\ consult[c].at \in {"idle", "sent"} => consult[c].polls = 0
  /\ consult[c].at = "polling" =>
       consult[c].polls < MaxPolls /\ peer[c].state \notin {"none", "message"}
  /\ peer[c].by <= consult[c].polls
  /\ peer[c].state = "none" => peer[c] = PeerIdle
  /\ peer[c].text \in {"answer", "reason", "question"} => Halted(c)

\* A call that is done returned what it read, and stopped early only where nothing was to come.
Heard(c) ==
  consult[c].at = "done" =>
    /\ consult[c].got = "refused" => peer[c] = PeerIdle
    /\ consult[c].got \notin {"error", "refused"} =>
         /\ peer[c].by < consult[c].polls => consult[c].got = Peers!Reply(peer[c])
         /\ consult[c].polls < MaxPolls =>
              \/ consult[c].got = "progress"
              \/ Halted(c) /\ consult[c].got = Peers!Reply(peer[c])

PeerInv ==
  /\ consult \in [Calls -> Consults] /\ peer \in [Calls -> PeerTasks]
  /\ \A c \in Calls : Asked(c) /\ Heard(c)

LEMMA PeerMoveOf == [Next]_vars => [Peers!Next]_peerVars
  BY DEF Next, vars

LEMMA PeerConstants == MaxPolls \in Nat
  BY ConsultAssumption DEF ConsultAssumption, Peers!ConsultAssumption

LEMMA PeerNumbers ==
  ASSUME NEW x \in Consults, NEW y \in PeerTasks
  PROVE  /\ x.polls \in Nat /\ x.polls \in 0..MaxPolls /\ x.polls <= MaxPolls
         /\ y.by \in Nat /\ y.by \in 0..MaxPolls
<1>1. x.polls \in 0..MaxPolls /\ y.by \in 0..MaxPolls
  BY DEF Consults, PeerTasks
<1> QED
  BY <1>1, PeerConstants

LEMMA PeerInit == Init => PeerInv
<1> SUFFICES ASSUME Peers!Init PROVE PeerInv
  BY DEF Init
<1>1. [at |-> "idle", polls |-> 0, got |-> "none"] \in Consults /\ PeerIdle \in PeerTasks
  BY PeerConstants DEF Consults, PeerTasks, PeerIdle, Peers!Texts, Peers!PeerStates
<1> QED
  BY <1>1 DEF Peers!Init, PeerInv, Asked, Heard, PeerIdle, Halted

\* Call c alone moves, into a state that is in order.
LEMMA PeerOne ==
  ASSUME PeerInv, NEW c \in Calls, NEW x \in Consults, NEW y \in PeerTasks,
         consult' = [consult EXCEPT ![c] = x], peer' = [peer EXCEPT ![c] = y],
         Asked(c)', Heard(c)'
  PROVE  PeerInv'
<1>1. consult' \in [Calls -> Consults] /\ peer' \in [Calls -> PeerTasks]
  BY DEF PeerInv
<1>2. ASSUME NEW d \in Calls \ {c} PROVE Asked(d)' /\ Heard(d)'
  <2>1. consult'[d] = consult[d] /\ peer'[d] = peer[d]
    BY DEF PeerInv
  <2>2. Asked(d) /\ Heard(d)
    BY DEF PeerInv
  <2> QED
    BY <2>1, <2>2 DEF Asked, Heard, Halted
<1> QED
  BY <1>1, <1>2 DEF PeerInv

\* The caller moves.
LEMMA PeerCaller ==
  ASSUME PeerInv, NEW c \in Calls,
         Peers!Refuse(c) \/ Peers!Send(c) \/ Peers!SendReturns(c) \/ Peers!Poll(c) \/ Peers!RpcFails(c)
  PROVE  PeerInv'
<1> DEFINE old == consult[c]
           new == consult'[c]
<1>1. old \in Consults /\ peer[c] \in PeerTasks /\ MaxPolls \in Nat
  BY PeerConstants DEF PeerInv
<1>0. old.polls \in Nat /\ old.polls <= MaxPolls /\ peer[c].by \in Nat
  BY <1>1, PeerNumbers
<1>2. peer' = [peer EXCEPT ![c] = peer[c]] /\ peer'[c] = peer[c]
  BY DEF PeerInv, Peers!Refuse, Peers!Send, Peers!SendReturns, Peers!Poll, Peers!RpcFails
<1>3. Asked(c) /\ Heard(c)
  BY DEF PeerInv
<1> SUFFICES ASSUME consult' = [consult EXCEPT ![c] = new] PROVE new \in Consults /\ Asked(c)' /\ Heard(c)'
  <2>1. consult' = [consult EXCEPT ![c] = new]
    BY DEF PeerInv, Peers!Refuse, Peers!Send, Peers!SendReturns, Peers!Poll, Peers!RpcFails, Peers!Return
  <2> QED
    BY <1>1, <1>2, <2>1, PeerOne
<1>4. Peers!Reply(peer[c]) \in Peers!Texts \union {"no text"}
  BY <1>1 DEF Peers!Reply, Peers!ExtractText, PeerTasks
<1>5. CASE Peers!Refuse(c)
  <2>1. old.at = "idle" /\ new = [old EXCEPT !.at = "done", !.got = "refused"]
    BY <1>5 DEF Peers!Refuse, Peers!Return, PeerInv
  <2>2. new \in Consults /\ new.at = "done" /\ new.got = "refused" /\ new.polls = old.polls
    BY <1>1, <2>1 DEF Consults
  <2> QED
    BY <1>2, <1>3, <2>1, <2>2 DEF Asked, Heard, Halted
<1>6. CASE Peers!Send(c)
  <2>1. old.at = "idle" /\ new = [old EXCEPT !.at = "sent"]
    BY <1>6 DEF Peers!Send, PeerInv
  <2>2. new \in Consults /\ new.at = "sent" /\ new.polls = old.polls
    BY <1>1, <2>1 DEF Consults
  <2> QED
    BY <1>2, <1>3, <2>1, <2>2 DEF Asked, Heard, Halted
<1>7. CASE Peers!RpcFails(c)
  <2>1. old.at \in {"sent", "polling"} /\ new = [old EXCEPT !.at = "done", !.got = "error"]
    BY <1>7 DEF Peers!RpcFails, Peers!Return, PeerInv
  <2>2. new \in Consults /\ new.at = "done" /\ new.got = "error" /\ new.polls = old.polls
    BY <1>1, <2>1 DEF Consults
  <2> QED
    BY <1>2, <1>3, <2>1, <2>2 DEF Asked, Heard, Halted
<1>8. CASE Peers!SendReturns(c)
  <2>1. old.at = "sent" /\ peer[c].state # "none" /\ old.polls = 0 /\ peer[c].by = 0
    BY <1>1, <1>3, <1>8 DEF Peers!SendReturns, Asked, PeerTasks
  <2>2. CASE Peers!ExtractText(peer[c]) # "none" \/ Peers!Last(peer[c], 0)
    <3>1. new = [old EXCEPT !.at = "done", !.got = Peers!Reply(peer[c])]
      BY <1>8, <2>2 DEF Peers!SendReturns, Peers!Return, PeerInv
    <3>2. new \in Consults /\ new.at = "done" /\ new.got = Peers!Reply(peer[c]) /\ new.polls = 0
      BY <1>1, <1>4, <2>1, <3>1 DEF Consults
    <3>3. 0 < MaxPolls => Peers!Reply(peer[c]) = "progress" \/ Halted(c)
      <4>1. CASE Peers!Last(peer[c], 0)
        BY <1>1, <4>1 DEF Peers!Last, Halted, Peers!Terminal, Peers!Over
      <4>2. CASE Peers!ExtractText(peer[c]) # "none"
        <5>1. peer[c].text \in Peers!Texts \ {"none"} /\ Peers!Reply(peer[c]) = peer[c].text
          BY <1>1, <4>2 DEF Peers!Reply, Peers!ExtractText, PeerTasks
        <5> QED
          BY <1>3, <5>1 DEF Peers!Texts, Asked
      <4> QED
        BY <2>2, <4>1, <4>2
    <3>4. Asked(c)'
      BY <1>2, <1>3, <2>1, <3>2 DEF Asked, Halted
    <3>5. Heard(c)'
      <4>1. ~(peer'[c].by < new.polls) /\ new.polls = 0
        BY <1>2, <2>1, <3>2
      <4>2. new.got \in Peers!Texts \union {"no text"} /\ new.got = Peers!Reply(peer[c])
        BY <1>4, <3>2
      <4>3. Halted(c)' <=> Halted(c)
        BY <1>2 DEF Halted
      <4> QED
        BY <1>2, <3>2, <3>3, <4>1, <4>2, <4>3 DEF Heard, Peers!Texts
    <3> QED
      BY <3>2, <3>4, <3>5
  <2>3. CASE ~(Peers!ExtractText(peer[c]) # "none" \/ Peers!Last(peer[c], 0))
    <3>1. new = [old EXCEPT !.at = "polling"]
      BY <1>8, <2>3 DEF Peers!SendReturns, PeerInv
    <3>2. new \in Consults /\ new.at = "polling" /\ new.polls = 0
      BY <1>1, <2>1, <3>1 DEF Consults
    <3>3. 0 < MaxPolls /\ peer[c].state # "message"
      BY <1>1, <2>3 DEF Peers!Last
    <3> QED
      BY <1>2, <1>3, <2>1, <3>2, <3>3 DEF Asked, Heard, Halted
  <2> QED
    BY <2>2, <2>3
<1>9. CASE Peers!Poll(c)
  <2> DEFINE polls == old.polls + 1
  <2>1. /\ old.at = "polling" /\ polls \in 0..MaxPolls /\ old.polls \in Nat
        /\ peer[c].state \notin {"none", "message"} /\ peer[c].by < polls /\ peer[c].by \in Nat
    BY <1>0, <1>1, <1>3, <1>9 DEF Peers!Poll, Asked
  <2>2. CASE Peers!Last(peer[c], polls)
    <3>1. new = [at |-> "done", polls |-> polls, got |-> Peers!Reply(peer[c])]
      BY <1>9, <2>2 DEF Peers!Poll, PeerInv
    <3>2. new \in Consults /\ new.at = "done" /\ new.got = Peers!Reply(peer[c]) /\ new.polls = polls
      <4>1. new.polls = polls /\ polls \in 0..MaxPolls /\ new.at = "done" /\ new.got = Peers!Reply(peer[c])
        BY <2>1, <3>1
      <4>2. new = [at |-> new.at, polls |-> new.polls, got |-> new.got]
        BY <3>1, <4>1
      <4> HIDE DEF polls
      <4> QED
        BY <1>4, <4>1, <4>2 DEF Consults
    <3>3. polls < MaxPolls => Halted(c)
      BY <1>1, <2>1, <2>2 DEF Peers!Last, Halted, Peers!Terminal, Peers!Over
    <3>4. Asked(c)'
      <4> HIDE DEF polls
      <4> QED
        BY <1>2, <1>3, <2>1, <3>2 DEF Asked, Halted
    <3>5. Heard(c)'
      <4>1. new.got \notin {"error", "refused"}
        BY <1>4, <3>2 DEF Peers!Texts
      <4> HIDE DEF polls
      <4> QED
        BY <1>2, <2>1, <3>2, <3>3, <4>1 DEF Heard, Halted
    <3> QED
      BY <3>2, <3>4, <3>5
  <2>3. CASE ~Peers!Last(peer[c], polls)
    <3>1. new = [old EXCEPT !.polls = polls]
      BY <1>9, <2>3 DEF Peers!Poll, PeerInv
    <3>2. new \in Consults /\ new.at = "polling" /\ new.polls = polls
      BY <1>1, <2>1, <3>1 DEF Consults
    <3>3. polls < MaxPolls
      BY <1>1, <2>1, <2>3 DEF Peers!Last
    <3> HIDE DEF polls
    <3> QED
      BY <1>2, <1>3, <2>1, <3>2, <3>3 DEF Asked, Heard, Halted
  <2> QED
    BY <2>2, <2>3
<1> QED
  BY <1>5, <1>6, <1>7, <1>8, <1>9

\* The peer moves on, from a state in which it has not halted.
LEMMA PeerPeer ==
  ASSUME PeerInv, NEW c \in Calls, Peers!PeerTakes(c) \/ Peers!PeerWorks(c)
  PROVE  PeerInv'
<1>1. PICK from, to, texts :
        /\ Peers!PeerMoves(c, from, to, texts)
        /\ to \in Peers!PeerStates \ {"none"} /\ texts \subseteq Peers!Texts
        /\ from \intersect (Peers!Over \union {"message", "input_required"}) = {}
        /\ to = "message" \/ "none" \in from => consult[c].at = "sent"
        /\ texts \intersect {"answer", "reason", "question"} # {}
             => to \in Peers!Over \union {"message", "input_required"}
  <2>1. CASE Peers!PeerTakes(c)
    BY <2>1 DEF Peers!PeerTakes, Peers!PeerStates, Peers!Texts, Peers!Over
  <2>2. CASE Peers!PeerMoves(c, {"submitted", "working"}, "working", {"none", "progress"})
    BY <2>2 DEF Peers!PeerStates, Peers!Texts, Peers!Over
  <2>3. CASE Peers!PeerMoves(c, {"working"}, "completed", {"none", "answer"})
    BY <2>3 DEF Peers!PeerStates, Peers!Texts, Peers!Over
  <2>4. CASE Peers!PeerMoves(c, {"working"}, "input_required", {"question"})
    BY <2>4 DEF Peers!PeerStates, Peers!Texts, Peers!Over
  <2>5. CASE \E s \in {"failed", "canceled", "rejected"} :
               Peers!PeerMoves(c, {"submitted", "working"}, s, {"none", "reason"})
    BY <2>5 DEF Peers!PeerStates, Peers!Texts, Peers!Over
  <2> QED
    BY <2>1, <2>2, <2>3, <2>4, <2>5 DEF Peers!PeerWorks
<1>2. PICK t \in texts : peer' = [peer EXCEPT ![c] = [state |-> to, text |-> t, by |-> consult[c].polls]]
  BY <1>1 DEF Peers!PeerMoves
<1>3. consult' = [consult EXCEPT ![c] = consult[c]] /\ consult'[c] = consult[c] /\ peer[c].state \in from
  BY <1>1 DEF Peers!PeerMoves, PeerInv
<1>4. consult[c] \in Consults /\ peer[c] \in PeerTasks /\ Asked(c) /\ Heard(c)
  BY DEF PeerInv
<1> DEFINE new == [state |-> to, text |-> t, by |-> consult[c].polls]
<1>5. new \in PeerTasks
  BY <1>1, <1>2, <1>4 DEF PeerTasks, Consults
<1>6. peer'[c] = new /\ new.state = to /\ new.text = t /\ new.by = consult[c].polls
  BY <1>2 DEF PeerInv
<1>7. ~Halted(c)
  BY <1>1, <1>3 DEF Halted
<1> HIDE DEF new
<1>8. Asked(c)'
  <2>1. consult[c].at # "idle"
    BY <1>1, <1>3, <1>4 DEF Asked, PeerIdle
  <2>2. t \in {"answer", "reason", "question"} => Halted(c)'
    BY <1>1, <1>2, <1>6 DEF Halted
  <2>3. consult[c].polls \in Nat
    BY <1>4, PeerNumbers
  <2> QED
    BY <1>1, <1>3, <1>4, <1>6, <2>1, <2>2, <2>3 DEF Asked
<1>9. Heard(c)'
  <2>1. consult[c].at = "done" => consult[c].got # "refused"
    BY <1>1, <1>3, <1>4 DEF Heard, PeerIdle
  <2>2. consult[c].polls \in Nat
    BY <1>4, PeerNumbers
  <2> QED
    BY <1>3, <1>4, <1>6, <1>7, <2>1, <2>2 DEF Heard
<1> QED
  BY <1>2, <1>3, <1>4, <1>5, <1>8, <1>9, PeerOne DEF new

LEMMA PeerStep == PeerInv /\ [Next]_vars => PeerInv'
<1> SUFFICES ASSUME PeerInv, [Peers!Next]_peerVars PROVE PeerInv'
  BY PeerMoveOf
<1>1. CASE UNCHANGED peerVars
  BY <1>1 DEF peerVars, PeerInv, Asked, Heard, Halted
<1> QED
  BY <1>1, PeerCaller, PeerPeer DEF Peers!Next

LEMMA PeerSound == PeerInv => Peers!AnswerInTime
<1> SUFFICES ASSUME PeerInv, NEW c \in Calls, consult[c].at = "done", peer[c].state # "message"
             PROVE  /\ peer[c].text = "answer" /\ peer[c].by < MaxPolls /\ consult[c].got # "error"
                         => consult[c].got \in {"answer", "progress"}
                    /\ consult[c].got = "no text" /\ peer[c].by < consult[c].polls
                         => peer[c].text = "none"
  BY DEF Peers!AnswerInTime
<1>1. Heard(c) /\ consult[c] \in Consults /\ peer[c] \in PeerTasks
  BY DEF PeerInv
<1>2. Peers!Reply(peer[c]) = IF peer[c].text = "none" THEN "no text" ELSE peer[c].text
  BY DEF Peers!Reply, Peers!ExtractText
<1>3. consult[c].polls \in 0..MaxPolls /\ MaxPolls \in Nat
  BY <1>1, PeerConstants DEF Consults
<1>4. peer[c].text \in Peers!Texts
  BY <1>1 DEF PeerTasks
<1>5. ASSUME peer[c].text = "answer", peer[c].by < MaxPolls, consult[c].got # "error"
      PROVE  consult[c].got \in {"answer", "progress"}
  BY <1>1, <1>2, <1>3, <1>5 DEF Heard, PeerIdle
<1>6. ASSUME consult[c].got = "no text", peer[c].by < consult[c].polls PROVE peer[c].text = "none"
  BY <1>1, <1>2, <1>4, <1>6 DEF Heard, Peers!Texts
<1> QED
  BY <1>5, <1>6

-----------------------------------------------------------------------------
(* Delegating to subagents *)

CallRecords == [at : {"unmade", "blocked", "running", "returned", "cancelled"},
                by : {"lead", "operator"}]
Phase == {"queued", "running", "done"}
Within(t) == {c \in DOMAIN ran : t - Window < ran[c] /\ ran[c] <= t}

\* The tasks of a call, of which some run.
Batch(tasks) ==
  /\ tasks = [j \in 1..Tasks |-> tasks[j]]
  /\ \A j \in 1..Tasks :
       /\ tasks[j] = [spec |-> tasks[j].spec, at |-> tasks[j].at, out |-> tasks[j].out]
       /\ tasks[j].at \in Phase
Active(tasks) == {j \in 1..Tasks : tasks[j].at = "running"}

\* No more run than there are permits.
Permitted(tasks) == Batch(tasks) /\ Cardinality(Active(tasks)) <= Delegates!Permits
Started == \A c \in Calls : job[c].at = "running" => Permitted(task[c])

\* The limiter still lists every call it let through within the window.
Listed ==
  /\ window \subseteq DOMAIN ran /\ DOMAIN ran \subseteq Calls /\ IsFiniteSet(DOMAIN ran)
  /\ \A c \in DOMAIN ran :
       /\ job[c].at # "unmade" /\ ran[c] \in Nat /\ ran[c] <= time
       /\ ran[c] > time - Window => c \in window
Held == \A t \in 0..time : Cardinality(Within(t)) <= MaxGated

DelegInv ==
  /\ job \in [Calls -> CallRecords] /\ task = [c \in Calls |-> task[c]] /\ time \in Nat
  /\ Started
  /\ Listed
  /\ Held

LEMMA DelegMoves == [Next]_vars => [Delegates!Next]_jobVars
  BY DEF Next, vars

LEMMA DelegConstants == Tasks \in Nat \ {0} /\ MaxGated \in Nat \ {0} /\ Window \in Nat \ {0}
  BY DelegationAssumption DEF DelegationAssumption, Delegates!DelegationAssumption

LEMMA DelegPermits == Delegates!Permits \in Nat \ {0} /\ Delegates!Permits = Delegates!Max({1, MaxConcurrency})
<1>1. MaxConcurrency \in Nat
  BY DelegationAssumption DEF DelegationAssumption, Delegates!DelegationAssumption
<1> DEFINE S == {1, MaxConcurrency}
<1>2. \E x \in S : \A y \in S : x >= y
  BY <1>1
<1>3. Delegates!Max(S) \in S /\ \A y \in S : Delegates!Max(S) >= y
  BY <1>2 DEF Delegates!Max
<1> QED
  BY <1>1, <1>3 DEF Delegates!Permits

LEMMA DelegCounts == \A S : Delegates!Cardinality(S) = Cardinality(S)
  BY DEF Cardinality, Delegates!Cardinality

LEMMA ActiveFinite ==
  ASSUME NEW tasks
  PROVE  IsFiniteSet(Active(tasks)) /\ Cardinality(Active(tasks)) \in Nat
<1>1. IsFiniteSet(1..Tasks)
  BY DelegConstants, FS_Interval
<1> QED
  BY <1>1, FS_Subset, FS_CardinalityType DEF Active

LEMMA DelegInit == Init => DelegInv
<1> SUFFICES ASSUME Delegates!Init PROVE DelegInv
  BY DEF Init
<1> USE DEF Delegates!Init
<1>1. DOMAIN ran = {} /\ Within(0) = {}
  BY DEF Within
<1>2. job \in [Calls -> CallRecords] /\ task = [c \in Calls |-> task[c]] /\ time = 0
  BY DEF CallRecords
<1>3. Listed
  BY <1>1, FS_EmptySet DEF Listed
<1>4. Held
  <2>1. \A t \in 0..time : t = 0
    BY <1>2
  <2>2. \A t \in 0..time : Within(t) = {}
    BY <1>1, <2>1
  <2>3. Cardinality({}) = 0 /\ 0 <= MaxGated
    BY FS_EmptySet, DelegConstants
  <2> QED
    BY <2>2, <2>3 DEF Held
<1> QED
  BY <1>2, <1>3, <1>4 DEF DelegInv, Started

\* The gate and the clock aside, a step is one of a call and its tasks.
LEMMA DelegCall ==
  ASSUME DelegInv, NEW c \in Calls, NEW x \in CallRecords, NEW b,
         job' = [job EXCEPT ![c] = x], task' = [task EXCEPT ![c] = b],
         x.at = "running" => Permitted(b),
         UNCHANGED <<window, ran, time>>, x.at # "unmade" \/ x = job[c]
  PROVE  DelegInv'
<1>1. job' \in [Calls -> CallRecords] /\ task' = [d \in Calls |-> task'[d]] /\ time' \in Nat
  BY DEF DelegInv
<1>2. Started'
  BY DEF DelegInv, Started, Permitted, Batch, Active
<1>3. Listed'
  BY DEF DelegInv, Listed
<1>4. Held'
  BY DEF DelegInv, Held, Within
<1> QED
  BY <1>1, <1>2, <1>3, <1>4 DEF DelegInv

LEMMA NewBatch ==
  ASSUME NEW specs PROVE Permitted(Delegates!New(specs))
<1>1. Active(Delegates!New(specs)) = {}
  BY DEF Active, Delegates!New, Delegates!Jobs
<1>2. Batch(Delegates!New(specs))
  BY DEF Batch, Phase, Delegates!New, Delegates!Jobs
<1> QED
  BY <1>1, <1>2, FS_EmptySet, DelegPermits DEF Permitted

LEMMA DelegManual ==
  ASSUME DelegInv, NEW c \in Calls, NEW specs, Delegates!ManualBatch(c, specs)
  PROVE  DelegInv'
<1>1. [at |-> "running", by |-> "operator"] \in CallRecords
  BY DEF CallRecords
<1> QED
  BY <1>1, NewBatch, DelegCall DEF Delegates!ManualBatch

LEMMA DelegLeaves ==
  ASSUME DelegInv, NEW c \in Calls, Delegates!BatchReturns(c) \/ Delegates!Cancel(c)
  PROVE  DelegInv'
<1>1. \A at \in {"returned", "cancelled"} :
        [job[c] EXCEPT !.at = at] \in CallRecords /\ [job[c] EXCEPT !.at = at].at = at
  BY DEF DelegInv, CallRecords
<1>2. \E at \in {"returned", "cancelled"} : job' = [job EXCEPT ![c] = [job[c] EXCEPT !.at = at]]
  BY DEF DelegInv, Delegates!BatchReturns, Delegates!Cancel
<1>3. task' = [task EXCEPT ![c] = << >>] /\ UNCHANGED <<window, ran, time>>
  BY DEF Delegates!BatchReturns, Delegates!Cancel
<1> QED
  BY <1>1, <1>2, <1>3, DelegCall

\* A task is done, or runs where there is a permit.
LEMMA DelegOne ==
  ASSUME DelegInv, NEW c \in Calls, NEW j \in DOMAIN task[c], NEW s, NEW out, NEW at \in Phase,
         task' = [task EXCEPT ![c] = [task[c] EXCEPT ![j] = [spec |-> s, at |-> at, out |-> out]]],
         at # "done" => Cardinality(Active(task[c])) < Delegates!Permits,
         UNCHANGED <<job, window, ran, time>>
  PROVE  DelegInv'
<1> DEFINE new == [spec |-> s, at |-> at, out |-> out]
           b == [task[c] EXCEPT ![j] = new]
<1>1. ASSUME job[c].at = "running" PROVE Permitted(b)
  <2>1. Batch(task[c]) /\ Cardinality(Active(task[c])) <= Delegates!Permits
    BY <1>1 DEF DelegInv, Started, Permitted
  <2>2. DOMAIN task[c] = 1..Tasks
    BY <2>1 DEF Batch
  <2>3. Batch(b)
    BY <2>1, <2>2 DEF Batch
  <2>4. Active(b) \subseteq Active(task[c]) \union {j}
    BY <2>2 DEF Active
  <2>5. at = "done" => Active(b) \subseteq Active(task[c])
    BY <2>2 DEF Active
  <2> HIDE DEF b
  <2>6. /\ IsFiniteSet(Active(task[c]) \union {j}) /\ IsFiniteSet(Active(task[c]))
        /\ Cardinality(Active(task[c]) \union {j}) <= Cardinality(Active(task[c])) + 1
    <3>1. IsFiniteSet(Active(task[c])) /\ Cardinality(Active(task[c])) \in Nat
      BY ActiveFinite
    <3>2. /\ IsFiniteSet(Active(task[c]) \union {j})
          /\ \/ Cardinality(Active(task[c]) \union {j}) = Cardinality(Active(task[c]))
             \/ Cardinality(Active(task[c]) \union {j}) = Cardinality(Active(task[c])) + 1
      BY <3>1, FS_AddElement
    <3> QED
      BY <3>1, <3>2
  <2>7. Cardinality(Active(b)) \in Nat /\ Cardinality(Active(task[c])) \in Nat /\ Delegates!Permits \in Nat
    BY ActiveFinite, DelegPermits
  <2>8. CASE at = "done"
    <3>1. Cardinality(Active(b)) <= Cardinality(Active(task[c]))
      BY <2>5, <2>6, <2>8, FS_Subset
    <3> QED
      BY <2>1, <2>3, <2>7, <3>1 DEF Permitted
  <2>9. CASE at # "done"
    <3>1. Cardinality(Active(b)) <= Cardinality(Active(task[c]) \union {j})
      BY <2>4, <2>6, FS_Subset
    <3>2. Cardinality(Active(task[c]) \union {j}) \in Nat
      BY <2>6, FS_CardinalityType
    <3> QED
      BY <2>3, <2>6, <2>7, <2>9, <3>1, <3>2 DEF Permitted
  <2> QED
    BY <2>8, <2>9
<1>2. job' = [job EXCEPT ![c] = job[c]] /\ job[c] \in CallRecords
  BY DEF DelegInv
<1> QED
  BY <1>1, <1>2, DelegCall

LEMMA DelegTasks ==
  ASSUME DelegInv, NEW c \in Calls, NEW j \in DOMAIN task[c],
         \/ Delegates!Refuse(c, j) \/ Delegates!Acquire(c, j) \/ Delegates!SubagentRaises(c, j)
         \/ \E msgs \in Delegates!Histories : Delegates!SubagentEnds(c, j, msgs)
  PROVE  DelegInv'
<1>1. UNCHANGED <<job, window, ran, time>>
  BY DEF Delegates!Refuse, Delegates!Acquire, Delegates!SubagentRaises, Delegates!SubagentEnds
<1>2. ASSUME NEW out, Delegates!Finish(c, j, out) PROVE DelegInv'
  BY <1>1, <1>2, DelegOne DEF Delegates!Finish, Phase
<1>3. CASE Delegates!Acquire(c, j)
  <2>1. job[c].at = "running" /\ Cardinality(Delegates!Running(c)) < Delegates!Permits
    BY <1>3, DelegCounts DEF Delegates!Acquire
  <2>2. Batch(task[c])
    BY <2>1 DEF DelegInv, Started, Permitted
  <2>3. Delegates!Running(c) = Active(task[c])
    BY <2>2 DEF Batch, Active, Delegates!Running
  <2>4. CASE task' = [task EXCEPT ![c][j].at = "running"]
    <3>1. j \in 1..Tasks
      BY <2>2 DEF Batch
    <3>4. ASSUME NEW r, r = [spec |-> r.spec, at |-> r.at, out |-> r.out]
          PROVE  [r EXCEPT !.at = "running"] = [spec |-> r.spec, at |-> "running", out |-> r.out]
      BY <3>4
    <3>2. [task[c][j] EXCEPT !.at = "running"]
            = [spec |-> task[c][j].spec, at |-> "running", out |-> task[c][j].out]
      BY <2>2, <3>1, <3>4 DEF Batch
    <3>3. task' = [task EXCEPT ![c] = [task[c] EXCEPT ![j] =
                     [spec |-> task[c][j].spec, at |-> "running", out |-> task[c][j].out]]]
      BY <2>4, <3>2
    <3> QED
      BY <1>1, <2>1, <2>3, <3>3, DelegOne DEF Phase
  <2> QED
    BY <1>2, <1>3, <2>4 DEF Delegates!Acquire
<1> QED
  BY <1>2, <1>3 DEF Delegates!Refuse, Delegates!SubagentRaises, Delegates!SubagentEnds

\* The gate lets a call through if fewer than MaxGated are within the window, which are the
\* listed ones.
LEMMA DelegGate ==
  ASSUME DelegInv, NEW c \in Calls, NEW specs, Delegates!TaskBatch(c, specs)
  PROVE  DelegInv'
<1> DEFINE recent == Delegates!Recent(window)
           lead(at) == [at |-> at, by |-> "lead"]
<1>1. job[c].at = "unmade" /\ time' = time /\ time \in Nat
  BY DEF Delegates!TaskBatch, DelegInv
<1>2. c \notin DOMAIN ran
  BY <1>1 DEF DelegInv, Listed
<1>3. lead("blocked") \in CallRecords /\ lead("running") \in CallRecords
  BY DEF CallRecords
<1>4. recent = {d \in DOMAIN ran : ran[d] > time - Window} /\ recent \subseteq window
  BY DEF DelegInv, Listed, Delegates!Recent
<1>5. CASE Cardinality(recent) >= MaxGated
  <2>1. /\ window' = recent /\ job' = [job EXCEPT ![c] = lead("blocked")]
        /\ UNCHANGED <<task, ran>>
    BY <1>5, DelegCounts DEF Delegates!TaskBatch, Delegates!Enforce
  <2>2. Listed'
    BY <1>1, <1>2, <1>4, <2>1 DEF DelegInv, Listed
  <2>3. Started'
    BY <2>1 DEF DelegInv, Started
  <2>4. Held'
    BY <1>1, <2>1 DEF DelegInv, Held, Within
  <2> QED
    BY <1>1, <1>3, <2>1, <2>2, <2>3, <2>4 DEF DelegInv
<1>6. CASE ~(Cardinality(recent) >= MaxGated)
  <2>1. /\ window' = recent \union {c} /\ job' = [job EXCEPT ![c] = lead("running")]
        /\ ran' = [d \in DOMAIN ran \union {c} |-> IF d = c THEN time ELSE ran[d]]
        /\ task' = [task EXCEPT ![c] = Delegates!New(specs)]
    BY <1>6, DelegCounts DEF Delegates!TaskBatch, Delegates!Enforce
  <2>2. /\ DOMAIN ran' = DOMAIN ran \union {c} /\ ran'[c] = time
        /\ \A d \in DOMAIN ran : ran'[d] = ran[d]
    BY <1>2, <2>1
  <2>3. Listed'
    <3>1. IsFiniteSet(DOMAIN ran') /\ DOMAIN ran' \subseteq Calls /\ window' \subseteq DOMAIN ran'
      BY <1>4, <2>1, <2>2, FS_AddElement DEF DelegInv, Listed
    <3>2. ASSUME NEW d \in DOMAIN ran'
          PROVE  /\ job'[d].at # "unmade" /\ ran'[d] \in Nat /\ ran'[d] <= time'
                 /\ ran'[d] > time' - Window => d \in window'
      <4>1. CASE d = c
        BY <1>1, <2>1, <2>2, <4>1 DEF DelegInv
      <4>2. CASE d # c
        BY <1>1, <1>4, <2>1, <2>2, <4>2 DEF DelegInv, Listed
      <4> QED
        BY <4>1, <4>2
    <3> QED
      BY <3>1, <3>2 DEF Listed
  <2>4. Started'
    BY <2>1, NewBatch DEF DelegInv, Started
  <2>5. ASSUME NEW t \in 0..time PROVE Cardinality(Within(t)') <= MaxGated
    <3>1. CASE t < time
      <4>1. Within(t)' = Within(t)
        BY <1>1, <2>2, <3>1 DEF Within
      <4> QED
        BY <4>1 DEF DelegInv, Held
    <3>2. CASE t = time
      <4>1. Within(t)' \subseteq recent \union {c}
        BY <1>4, <2>2, <3>2 DEF Within
      <4>2. IsFiniteSet(recent) /\ Cardinality(recent) \in Nat
        BY <1>4, FS_Subset, FS_CardinalityType DEF DelegInv, Listed
      <4> HIDE DEF recent
      <4>3. IsFiniteSet(recent \union {c}) /\ Cardinality(recent \union {c}) <= Cardinality(recent) + 1
        BY <4>2, FS_AddElement
      <4>4. Cardinality(Within(t)') <= Cardinality(recent \union {c})
        BY <4>1, <4>3, FS_Subset
      <4>5. Cardinality(Within(t)') \in Nat /\ Cardinality(recent \union {c}) \in Nat
        BY <4>1, <4>3, FS_Subset, FS_CardinalityType
      <4> QED
        BY <1>6, <4>2, <4>3, <4>4, <4>5, DelegConstants
    <3> QED
      BY <1>1, <3>1, <3>2
  <2>6. Held'
    BY <1>1, <2>5 DEF Held
  <2> QED
    BY <1>1, <1>3, <2>1, <2>3, <2>4, <2>6 DEF DelegInv
<1> QED
  BY <1>5, <1>6

\* What was within the window a tick later was within it.
LEMMA DelegTick == ASSUME DelegInv, Delegates!Tick PROVE DelegInv'
<1>1. time' = time + 1 /\ time \in Nat /\ UNCHANGED <<job, task, window, ran>>
  BY DEF Delegates!Tick, DelegInv
<1>2. Listed'
  BY <1>1, DelegConstants DEF DelegInv, Listed
<1>3. ASSUME NEW t \in 0..(time + 1) PROVE Cardinality(Within(t)) <= MaxGated
  <2>1. CASE t \in 0..time
    BY <2>1 DEF DelegInv, Held
  <2>2. CASE t = time + 1
    <3>1. Within(t) \subseteq Within(time)
      BY <1>1, <2>2, DelegConstants DEF Within, DelegInv, Listed
    <3>2. IsFiniteSet(Within(time)) /\ IsFiniteSet(Within(t))
      BY FS_Subset DEF Within, DelegInv, Listed
    <3>3. Cardinality(Within(t)) <= Cardinality(Within(time))
      BY <3>1, <3>2, FS_Subset
    <3>4. Cardinality(Within(time)) <= MaxGated
      BY <1>1 DEF DelegInv, Held
    <3>5. Cardinality(Within(t)) \in Nat /\ Cardinality(Within(time)) \in Nat
      BY <3>2, FS_CardinalityType
    <3> QED
      BY <3>3, <3>4, <3>5, DelegConstants
  <2> QED
    BY <1>1, <2>1, <2>2
<1>4. Held'
  BY <1>1, <1>3 DEF Held, Within
<1> QED
  BY <1>1, <1>2, <1>4 DEF DelegInv, Started

LEMMA DelegStep == DelegInv /\ [Next]_vars => DelegInv'
<1> SUFFICES ASSUME DelegInv, [Delegates!Next]_jobVars PROVE DelegInv'
  BY DelegMoves
<1>1. CASE UNCHANGED jobVars
  BY <1>1 DEF jobVars, DelegInv, Started, Listed, Held, Within
<1>2. ASSUME NEW c \in Calls,
             \/ \E specs \in [Delegates!Jobs -> Delegates!Specs] :
                  Delegates!TaskBatch(c, specs) \/ Delegates!ManualBatch(c, specs)
             \/ Delegates!BatchReturns(c) \/ Delegates!Cancel(c)
      PROVE  DelegInv'
  BY <1>2, DelegGate, DelegManual, DelegLeaves
<1>3. ASSUME NEW c \in Calls, NEW j \in DOMAIN task[c],
             \/ Delegates!Refuse(c, j) \/ Delegates!Acquire(c, j) \/ Delegates!SubagentRaises(c, j)
             \/ \E msgs \in Delegates!Histories : Delegates!SubagentEnds(c, j, msgs)
      PROVE  DelegInv'
  BY <1>3, DelegTasks
<1> QED
  BY <1>1, <1>2, <1>3, DelegTick DEF Delegates!Next

LEMMA DelegHolds == DelegInv => Delegates!DelegationSound
<1> SUFFICES ASSUME DelegInv PROVE Delegates!WindowHeld /\ Delegates!BatchMoves
  BY DEF Delegates!DelegationSound
<1>1. Delegates!WindowHeld
  BY DelegCounts DEF DelegInv, Held, Within, Delegates!WindowHeld
<1>2. ASSUME NEW c \in Calls, job[c].at = "running"
      PROVE  \/ \A j \in Delegates!Jobs : task[c][j].at = "done"
             \/ /\ Delegates!Running(c) # {}
                /\ Delegates!Cardinality(Delegates!Running(c)) <= Delegates!Max({1, MaxConcurrency})
             \/ \E j \in Delegates!Jobs :
                  /\ task[c][j].at = "queued"
                  /\ Delegates!Cardinality(Delegates!Running(c)) < Delegates!Permits
  <2>1. Permitted(task[c])
    BY <1>2 DEF DelegInv, Started
  <2>2. Delegates!Running(c) = Active(task[c])
    BY <2>1 DEF Permitted, Batch, Active, Delegates!Running
  <2>3. CASE Active(task[c]) # {}
    BY <2>1, <2>2, <2>3, DelegPermits, DelegCounts DEF Permitted
  <2>4. CASE Active(task[c]) = {}
    <3>1. Cardinality(Active(task[c])) = 0
      BY <2>4, FS_EmptySet
    <3>2. \A j \in 1..Tasks : task[c][j].at \in {"queued", "done"}
      BY <2>1, <2>4 DEF Permitted, Batch, Phase, Active
    <3> QED
      BY <2>2, <3>1, <3>2, DelegPermits, DelegCounts DEF Delegates!Jobs
  <2> QED
    BY <2>3, <2>4
<1> QED
  BY <1>1, <1>2 DEF Delegates!BatchMoves

-----------------------------------------------------------------------------
(* The remote scheduler *)

Adds == [action : {"add"}, id : Remote!FullIds, prompt : Prompts, agent : Agents]
Removes == [action : {"remove"}, id : Remote!FullIds]
Commands == Adds \union Removes

\* What becomes of job i when the commands of b are taken: the last about it counts.
About(b, i) == {n \in DOMAIN b : b[n].id = i}
Final(b, js, i) ==
  IF About(b, i) = {} THEN js[i] ELSE Remote!Effect(b[Remote!Max(About(b, i))])

LastAbout(b, i, n) ==
  n \in DOMAIN b /\ b[n].id = i /\ \A m \in DOMAIN b : m > n => b[m].id # i

\* What an agent was told it has, it has, and what it was told is cancelled is gone.
Kept(a, i) ==
  /\ told[a][i].is = "added" =>
       Final(bus, jobs, i) = [is |-> "kept", prompt |-> told[a][i].prompt, agent |-> a]
  /\ told[a][i].is = "removed" => Final(bus, jobs, i) = Remote!Absent

RemoteInv ==
  /\ bus \in Seq(Commands) /\ jobs = [i \in Remote!FullIds |-> jobs[i]]
  /\ told = [a \in Agents |-> [i \in Remote!FullIds |-> told[a][i]]]
  /\ \A a \in Agents, i \in Remote!FullIds :
       told[a][i].is \in {"added", "removed"} => Remote!IsStrictPrefix(a, i)
  /\ Remote!Apart => \A a \in Agents, i \in Remote!FullIds : Kept(a, i)

LEMMA RemoteMoves == [Next]_vars => [Remote!Next]_remoteVars
  BY DEF Next, vars

LEMMA RemoteConstants == Agents \subseteq Seq(Words) \ {<< >>} /\ JobIds \subseteq Seq(Words) \ {<< >>}
  BY RemoteAssumption DEF RemoteAssumption, Remote!RemoteAssumption

LEMMA PrefixAt ==
  ASSUME NEW S, NEW s \in Seq(S), NEW t \in Seq(S)
  PROVE  Remote!IsPrefix(s, t) <=> Len(s) <= Len(t) /\ \A k \in 1..Len(s) : s[k] = t[k]
<1> SUFFICES ASSUME Len(s) <= Len(t)
             PROVE  SubSeq(s, 1, Len(s)) = SubSeq(t, 1, Len(s)) <=> \A k \in 1..Len(s) : s[k] = t[k]
  BY DEF Remote!IsPrefix
<1> DEFINE u == SubSeq(t, 1, Len(s))
<1>1. SubSeq(s, 1, Len(s)) = s
  BY SubSeqFull
<1>2. Len(s) \in Nat /\ Len(t) \in Nat /\ \A k \in 1..Len(s) : t[k] \in S
  OBVIOUS
<1>3. u \in Seq(S) /\ Len(u) = Len(s) /\ \A k \in 1..Len(s) : u[k] = t[k]
  <2>1. /\ u \in Seq(S) /\ Len(u) = (IF 1 <= Len(s) THEN Len(s) - 1 + 1 ELSE 0)
        /\ \A k \in 1..(Len(s) - 1 + 1) : u[k] = t[1 + k - 1]
    BY <1>2, SubSeqProperties
  <2> HIDE DEF u
  <2>2. \A k \in 1..Len(s) : k \in 1..(Len(s) - 1 + 1) /\ 1 + k - 1 = k
    BY <1>2
  <2> QED
    BY <1>2, <2>1, <2>2
<1> HIDE DEF u
<1>4. (\A k \in 1..Len(s) : s[k] = t[k]) => s = u
  <2> SUFFICES ASSUME \A k \in 1..Len(s) : s[k] = t[k] PROVE s = u
    OBVIOUS
  <2>1. \A k \in 1..Len(s) : s[k] = u[k]
    BY <1>3
  <2> QED
    BY <1>3, <2>1, SeqEqual
<1> QED
  BY <1>1, <1>3, <1>4 DEF u

\* Two names that both begin an id are not apart.
LEMMA PrefixesMeet ==
  ASSUME NEW a \in Seq(Words), NEW b \in Seq(Words), NEW i \in Seq(Words), a # b,
         Remote!IsStrictPrefix(a, i), Remote!IsStrictPrefix(b, i)
  PROVE  Remote!IsStrictPrefix(a, b) \/ Remote!IsStrictPrefix(b, a)
<1>1. /\ Len(a) \in Nat /\ Len(b) \in Nat
      /\ \A k \in 1..Len(a) : a[k] = i[k]
      /\ \A k \in 1..Len(b) : b[k] = i[k]
  BY PrefixAt DEF Remote!IsStrictPrefix
<1>2. CASE Len(a) <= Len(b)
  <2>1. \A k \in 1..Len(a) : a[k] = b[k]
    BY <1>1, <1>2
  <2> QED
    BY <1>2, <2>1, PrefixAt DEF Remote!IsStrictPrefix
<1>3. CASE Len(b) <= Len(a)
  <2>1. \A k \in 1..Len(b) : b[k] = a[k]
    BY <1>1, <1>3
  <2> QED
    BY <1>3, <2>1, PrefixAt DEF Remote!IsStrictPrefix
<1> QED
  BY <1>1, <1>2, <1>3

\* An agent's ids begin with its name.
LEMMA IdsBegin ==
  ASSUME NEW a \in Agents, NEW id \in JobIds
  PROVE  /\ Remote!NamespacedId(a, id) \in Seq(Words) /\ Remote!NamespacedId(a, id) \in Remote!FullIds
         /\ Remote!IsStrictPrefix(a, Remote!NamespacedId(a, id))
<1>1. a \in Seq(Words) /\ id \in Seq(Words) /\ id # << >> /\ Len(id) > 0 /\ Len(a) \in Nat /\ Len(id) \in Nat
  BY RemoteConstants
<1>2. a \o id \in Seq(Words) /\ Len(a \o id) = Len(a) + Len(id) /\ \A k \in 1..Len(a) : (a \o id)[k] = a[k]
  <2>1. /\ a \o id \in Seq(Words) /\ Len(a \o id) = Len(a) + Len(id)
        /\ \A k \in 1..(Len(a) + Len(id)) : (a \o id)[k] = IF k <= Len(a) THEN a[k] ELSE id[k - Len(a)]
    BY <1>1, ConcatProperties
  <2>2. \A k \in 1..Len(a) : k \in 1..(Len(a) + Len(id)) /\ k <= Len(a)
    BY <1>1
  <2> QED
    BY <2>1, <2>2
<1>3. Remote!IsPrefix(a, a \o id) /\ a # a \o id
  <2>1. Len(a) <= Len(a \o id) /\ Len(a) # Len(a \o id)
    BY <1>1, <1>2
  <2> QED
    BY <1>1, <1>2, <2>1, PrefixAt
<1> QED
  BY <1>1, <1>2, <1>3 DEF Remote!NamespacedId, Remote!IsStrictPrefix, Remote!FullIds

LEMMA FullIdsAre == Remote!FullIds \subseteq Seq(Words)
  BY IdsBegin DEF Remote!FullIds

LEMMA FinalIs ==
  ASSUME NEW b \in Seq(Commands), NEW js, NEW i, NEW n, LastAbout(b, i, n)
  PROVE  Final(b, js, i) = Remote!Effect(b[n])
<1> DEFINE A == About(b, i)
<1>1. DOMAIN b \subseteq Nat /\ A \subseteq DOMAIN b /\ n \in A
  BY DEF About, LastAbout
<1>2. \A m \in A : n >= m
  BY <1>1 DEF About, LastAbout
<1>3. \A x \in A : (\A m \in A : x >= m) => x = n
  BY <1>1, <1>2
<1> HIDE DEF A
<1>4. Remote!Max(A) = n
  BY <1>1, <1>2, <1>3 DEF Remote!Max
<1> QED
  BY <1>1, <1>4 DEF Final, A

LEMMA FinalCases ==
  ASSUME NEW b \in Seq(Commands), NEW i
  PROVE  (\A n \in DOMAIN b : b[n].id # i) \/ (\E n : LastAbout(b, i, n))
<1> SUFFICES ASSUME NEW k \in DOMAIN b, b[k].id = i PROVE \E n : LastAbout(b, i, n)
  OBVIOUS
<1> DEFINE R == {Len(b) - n : n \in About(b, i)}
<1>1. Len(b) \in Nat /\ DOMAIN b = 1..Len(b)
  OBVIOUS
<1>2. R \in SUBSET Nat /\ Len(b) - k \in R
  BY <1>1 DEF About
<1> HIDE DEF R
<1>3. PICK r \in R : \A q \in R : r <= q
  BY <1>2, LeastMember
<1>4. PICK n \in About(b, i) : r = Len(b) - n
  BY DEF R
<1>5. \A m \in About(b, i) : Len(b) - n <= Len(b) - m
  BY <1>3, <1>4 DEF R
<1>6. \A m \in About(b, i) : m <= n
  BY <1>1, <1>5 DEF About
<1>7. LastAbout(b, i, n)
  BY <1>1, <1>6 DEF About, LastAbout
<1> QED
  BY <1>7

\* Publishing decides the job it is about and no other.
LEMMA FinalAppend ==
  ASSUME NEW b \in Seq(Commands), NEW m \in Commands, NEW js, NEW i
  PROVE  /\ Append(b, m) \in Seq(Commands)
         /\ Final(Append(b, m), js, i) = IF m.id = i THEN Remote!Effect(m) ELSE Final(b, js, i)
<1> DEFINE c == Append(b, m)
<1>1. /\ c \in Seq(Commands) /\ DOMAIN c = 1..(Len(b) + 1) /\ c[Len(b) + 1] = m
      /\ \A n \in 1..Len(b) : c[n] = b[n]
  BY AppendAt
<1>2. Len(b) \in Nat /\ DOMAIN b = 1..Len(b)
  OBVIOUS
<1> HIDE DEF c
<1>3. CASE m.id = i
  <2>1. LastAbout(c, i, Len(b) + 1)
    BY <1>1, <1>2, <1>3 DEF LastAbout
  <2>2. Final(c, js, i) = Remote!Effect(c[Len(b) + 1])
    BY <1>1, <2>1, FinalIs
  <2> QED
    BY <1>1, <1>3, <2>2 DEF c
<1>4. CASE m.id # i
  <2>1. CASE \A n \in DOMAIN b : b[n].id # i
    <3>1. \A n \in DOMAIN c : c[n].id # i
      BY <1>1, <1>2, <1>4, <2>1
    <3>2. About(b, i) = {} /\ About(c, i) = {}
      BY <2>1, <3>1 DEF About
    <3> QED
      BY <1>1, <1>4, <3>2 DEF Final, c
  <2>2. ASSUME NEW n, LastAbout(b, i, n)
        PROVE  Final(c, js, i) = Final(b, js, i)
    <3>1. LastAbout(c, i, n) /\ c[n] = b[n]
      BY <1>1, <1>2, <1>4, <2>2 DEF LastAbout
    <3>3. Final(c, js, i) = Remote!Effect(c[n])
      BY <1>1, <3>1, FinalIs
    <3>4. Final(b, js, i) = Remote!Effect(b[n])
      BY <2>2, FinalIs
    <3> QED
      BY <3>1, <3>3, <3>4
  <2> QED
    BY <1>1, <1>4, <2>1, <2>2, FinalCases DEF c
<1> QED
  BY <1>3, <1>4

\* Taking a command changes no outcome.
LEMMA FinalTail ==
  ASSUME NEW b \in Seq(Commands), b # << >>, NEW js, js = [j \in Remote!FullIds |-> js[j]],
         NEW i \in Remote!FullIds
  PROVE  /\ Tail(b) \in Seq(Commands)
         /\ Final(Tail(b), [js EXCEPT ![Head(b).id] = Remote!Effect(Head(b))], i) = Final(b, js, i)
<1> DEFINE c == Tail(b)
           ks == [js EXCEPT ![Head(b).id] = Remote!Effect(Head(b))]
<1>1. c \in Seq(Commands) /\ Len(c) = Len(b) - 1 /\ \A n \in 1..Len(c) : c[n] = b[n + 1]
  BY HeadTailProperties
<1>2. /\ Len(b) \in Nat \ {0} /\ DOMAIN b = 1..Len(b) /\ Head(b) = b[1]
      /\ Len(c) \in Nat /\ DOMAIN c = 1..Len(c)
  BY <1>1
<1>3. ks[i] = IF Head(b).id = i THEN Remote!Effect(b[1]) ELSE js[i]
  BY <1>2
<1> HIDE DEF c, ks
<1>4. CASE \A n \in DOMAIN b : b[n].id # i
  <2>1. \A n \in DOMAIN c : n + 1 \in DOMAIN b /\ c[n] = b[n + 1]
    BY <1>1, <1>2
  <2>2. About(c, i) = {} /\ About(b, i) = {} /\ Head(b).id # i
    BY <1>2, <1>4, <2>1 DEF About
  <2> QED
    BY <1>1, <1>3, <2>2 DEF Final, c, ks
<1>5. ASSUME NEW n, LastAbout(b, i, n)
      PROVE  Final(c, ks, i) = Final(b, js, i)
  <2>1. Final(b, js, i) = Remote!Effect(b[n])
    BY <1>5, FinalIs
  <2>2. CASE n = 1
    <3>1. \A k \in DOMAIN c : k + 1 \in DOMAIN b /\ k + 1 > n /\ c[k] = b[k + 1]
      BY <1>1, <1>2, <2>2
    <3>2. About(c, i) = {}
      BY <1>5, <3>1 DEF About, LastAbout
    <3> QED
      BY <1>2, <1>3, <1>5, <2>1, <2>2, <3>2 DEF Final, LastAbout
  <2>3. CASE n # 1
    <3>1. n \in DOMAIN b /\ n - 1 \in DOMAIN c /\ c[n - 1] = b[n]
      BY <1>1, <1>2, <1>5, <2>3 DEF LastAbout
    <3>2. \A k \in DOMAIN c : k > n - 1 => c[k].id # i
      <4>1. \A k \in DOMAIN c : k + 1 \in DOMAIN b /\ c[k] = b[k + 1] /\ (k > n - 1 => k + 1 > n)
        BY <1>1, <1>2, <3>1
      <4> QED
        BY <1>5, <4>1 DEF LastAbout
    <3>4. LastAbout(c, i, n - 1)
      BY <1>5, <3>1, <3>2 DEF LastAbout
    <3>3. Final(c, ks, i) = Remote!Effect(c[n - 1])
      BY <1>1, <3>4, FinalIs
    <3> QED
      BY <2>1, <3>1, <3>3
  <2> QED
    BY <2>2, <2>3
<1> QED
  BY <1>1, <1>4, <1>5, FinalCases DEF c, ks

LEMMA RemoteInit == Init => RemoteInv
<1> SUFFICES ASSUME Remote!Init PROVE RemoteInv
  BY DEF Init
<1>1. \A a \in Agents, i \in Remote!FullIds : told[a][i] = [is |-> "nothing"]
  BY DEF Remote!Init, Remote!Nothing
<1>2. bus \in Seq(Commands) /\ jobs = [i \in Remote!FullIds |-> jobs[i]]
  BY DEF Remote!Init
<1>3. told = [a \in Agents |-> [i \in Remote!FullIds |-> told[a][i]]]
  BY DEF Remote!Init
<1> QED
  BY <1>1, <1>2, <1>3 DEF RemoteInv, Kept

\* An agent publishes a command about a job of its own.
LEMMA RemotePublishes ==
  ASSUME RemoteInv, NEW a \in Agents, NEW m \in Commands, NEW answer,
         Remote!IsStrictPrefix(a, m.id), Remote!Publish(m, a, answer), jobs' = jobs,
         answer.is = "added" =>
           Remote!Effect(m) = [is |-> "kept", prompt |-> answer.prompt, agent |-> a],
         answer.is = "removed" => Remote!Effect(m) = Remote!Absent
  PROVE  RemoteInv'
<1>1. m.id \in Remote!FullIds
  BY DEF Commands, Adds, Removes
<1>2. PICK said \in {answer, Remote!Unsure} :
        /\ told' = [told EXCEPT ![a][m.id] = said]
        /\ bus' = Append(bus, m) \/ (bus' = bus /\ said = Remote!Unsure)
  BY DEF Remote!Publish
<1>3. /\ bus' \in Seq(Commands)
      /\ \A i : i # m.id => Final(bus', jobs', i) = Final(bus, jobs, i)
      /\ said # Remote!Unsure => Final(bus', jobs', m.id) = Remote!Effect(m)
  <2>1. bus \in Seq(Commands) /\ jobs' = jobs
    BY DEF RemoteInv
  <2>2. /\ Append(bus, m) \in Seq(Commands)
        /\ \A i : Final(Append(bus, m), jobs, i) = IF m.id = i THEN Remote!Effect(m) ELSE Final(bus, jobs, i)
    BY <2>1, FinalAppend
  <2>3. CASE bus' = Append(bus, m)
    BY <2>1, <2>2, <2>3
  <2>4. CASE bus' = bus /\ said = Remote!Unsure
    BY <2>1, <2>4
  <2> QED
    BY <1>2, <2>3, <2>4
<1>4. \A b \in Agents, i \in Remote!FullIds :
        told'[b][i] = IF b = a /\ i = m.id THEN said ELSE told[b][i]
  BY <1>1, <1>2 DEF RemoteInv
<1>5. told' = [b \in Agents |-> [i \in Remote!FullIds |-> told'[b][i]]]
  BY <1>1, <1>2 DEF RemoteInv
<1>6. \A b \in Agents, i \in Remote!FullIds :
        told'[b][i].is \in {"added", "removed"} => Remote!IsStrictPrefix(b, i)
  BY <1>4 DEF RemoteInv
<1>7. ASSUME Remote!Apart, NEW b \in Agents, NEW i \in Remote!FullIds PROVE Kept(b, i)'
  <2>1. Kept(b, i)
    BY <1>7 DEF RemoteInv
  <2>2. CASE i # m.id
    BY <1>3, <1>4, <2>1, <2>2 DEF Kept
  <2>3. CASE i = m.id /\ b = a
    <3>1. said = Remote!Unsure => said.is = "unsure"
      BY DEF Remote!Unsure
    <3> QED
      BY <1>2, <1>3, <1>4, <2>3, <3>1 DEF Kept
  <2>4. CASE i = m.id /\ b # a
    <3>1. ~Remote!IsStrictPrefix(b, i)
      <4>1. a \in Seq(Words) /\ b \in Seq(Words) /\ i \in Seq(Words)
        BY RemoteConstants, FullIdsAre
      <4> QED
        BY <1>7, <2>4, <4>1, PrefixesMeet DEF Remote!Apart
    <3>2. told'[b][i] = told[b][i] /\ told[b][i].is \notin {"added", "removed"}
      BY <1>4, <2>4, <3>1 DEF RemoteInv
    <3> QED
      BY <3>2 DEF Kept
  <2> QED
    BY <2>2, <2>3, <2>4
<1>8. jobs' = [i \in Remote!FullIds |-> jobs'[i]] /\ (Remote!Apart' <=> Remote!Apart)
  BY DEF RemoteInv, Remote!Apart
<1> QED
  BY <1>3, <1>5, <1>6, <1>7, <1>8 DEF RemoteInv

LEMMA RemoteAdds ==
  ASSUME RemoteInv, NEW a \in Agents, NEW id \in JobIds, NEW p \in Prompts, Remote!AddJob(a, id, p)
  PROVE  RemoteInv'
<1> DEFINE m == [action |-> "add", id |-> Remote!NamespacedId(a, id), prompt |-> p, agent |-> a]
<1>1. m \in Commands
  BY IdsBegin DEF Commands, Adds
<1>2. Remote!Effect(m) = [is |-> "kept", prompt |-> p, agent |-> a] /\ m.id = Remote!NamespacedId(a, id)
  BY DEF Remote!Effect
<1>3. Remote!Added(p).is = "added" /\ Remote!Added(p).prompt = p
  BY DEF Remote!Added
<1>4. Remote!Publish(m, a, Remote!Added(p)) /\ jobs' = jobs
  BY DEF Remote!AddJob
<1> HIDE DEF m
<1> QED
  BY <1>1, <1>2, <1>3, <1>4, IdsBegin, RemotePublishes

LEMMA RemoteCancels ==
  ASSUME RemoteInv, NEW a \in Agents, NEW id \in JobIds, Remote!CancelJob(a, id)
  PROVE  RemoteInv'
<1> DEFINE m == [action |-> "remove", id |-> Remote!NamespacedId(a, id)]
<1>1. m \in Commands
  BY IdsBegin DEF Commands, Removes
<1>2. Remote!Effect(m) = Remote!Absent /\ m.id = Remote!NamespacedId(a, id)
  BY DEF Remote!Effect
<1>3. Remote!Removed.is = "removed"
  BY DEF Remote!Removed
<1>4. Remote!Publish(m, a, Remote!Removed) /\ jobs' = jobs
  BY DEF Remote!CancelJob
<1> HIDE DEF m
<1> QED
  BY <1>1, <1>2, <1>3, <1>4, IdsBegin, RemotePublishes

LEMMA RemoteTakes == ASSUME RemoteInv, Remote!Take PROVE RemoteInv'
<1>1. /\ bus # << >> /\ bus' = Tail(bus) /\ told' = told
      /\ jobs' = [jobs EXCEPT ![Head(bus).id] = Remote!Effect(Head(bus))]
  BY DEF Remote!Take
<1>2. bus' \in Seq(Commands) /\ \A i \in Remote!FullIds : Final(bus', jobs', i) = Final(bus, jobs, i)
  <2>1. bus \in Seq(Commands) /\ jobs = [i \in Remote!FullIds |-> jobs[i]]
    BY DEF RemoteInv
  <2>2. Tail(bus) \in Seq(Commands)
    BY <1>1, <2>1, HeadTailProperties
  <2> QED
    BY <1>1, <2>1, <2>2, FinalTail
<1>3. jobs' = [i \in Remote!FullIds |-> jobs'[i]]
  BY <1>1 DEF RemoteInv
<1> QED
  BY <1>1, <1>2, <1>3 DEF RemoteInv, Kept, Remote!Apart

LEMMA RemoteStep == RemoteInv /\ [Next]_vars => RemoteInv'
<1> SUFFICES ASSUME RemoteInv, [Remote!Next]_remoteVars PROVE RemoteInv'
  BY RemoteMoves
<1>1. CASE UNCHANGED remoteVars
  BY <1>1 DEF remoteVars, RemoteInv, Kept, Remote!Apart
<1> QED
  BY <1>1, RemoteAdds, RemoteCancels, RemoteTakes DEF Remote!Next

LEMMA RemoteKeeps == RemoteInv => Remote!JobsApart
<1>1. \A i : Remote!Settled(i) = Final(bus, jobs, i)
  BY DEF Remote!Settled, Final, About
<1> QED
  BY <1>1 DEF RemoteInv, Kept, Remote!JobsApart

\* For any calls, tasks, concurrency and window: the gate holds its rate and no batch is stuck.
\* For any peer and number of polls: an answer that was there in time is returned.  For any
\* agents whose names are apart, commands and lost answers: a job is as its agent was told.
THEOREM DelegationIsSound == Spec => []DelegationSound
<1>1. DelegInv /\ PeerInv /\ RemoteInv => DelegationSound
  BY DelegHolds, PeerSound, RemoteKeeps DEF DelegationSound
<1> QED
  BY <1>1, DelegInit, DelegStep, PeerInit, PeerStep, RemoteInit, RemoteStep, PTL DEF Spec

-----------------------------------------------------------------------------
(* The skill index *)

LEMMA SkillMoves == [Next]_vars => [Skills!Next]_skillVars
  BY DEF Next, vars

\* A table of skills, none used later than the day d.
Table(r, d) ==
  /\ DOMAIN r \subseteq 1..MaxRow
  /\ \A i \in DOMAIN r : r[i] \in Skills!Skill /\ r[i].used <= d

Ats == {"idle", "judged", "deleting", "updating", "saved"}
CuratorTyped ==
  /\ curator = [at |-> curator.at, run |-> curator.run, loaded |-> curator.loaded,
                kept |-> curator.kept, doomed |-> curator.doomed, quiet |-> curator.quiet]
  /\ curator.at \in Ats /\ curator.quiet \in BOOLEAN /\ curator.doomed \in SUBSET (1..MaxRow)
  /\ curator.at = "idle" => curator.loaded = <<>> /\ curator.kept = <<>>

\* The curator keeps what it read, at another confidence.
KeptFits ==
  /\ Table(curator.loaded, day) /\ Table(curator.kept, day)
  /\ curator.kept = [i \in DOMAIN curator.kept |-> curator.kept[i]]
  /\ DOMAIN curator.kept \subseteq DOMAIN curator.loaded
  /\ \A i \in DOMAIN curator.kept :
       curator.kept[i] = [curator.loaded[i] EXCEPT !.conf = curator.kept[i].conf]
  /\ \A i \in DOMAIN curator.loaded : curator.loaded[i].root = 0
  /\ curator.at = "updating" => curator.doomed \subseteq DOMAIN curator.kept

SkillType ==
  /\ Table(rows, day) /\ day \in Days /\ seeds \in 0..MaxSeeds /\ emitting \in Names \union {Null}
  /\ seeding = Null \/ seeding \subseteq DiskNames \X {1, 2}

\* What is still to be inserted has a name of its own.
Unseeded ==
  seeding # Null =>
    /\ \A s, t \in seeding : s[1] = t[1] => s = t
    /\ \A s \in seeding, i \in DOMAIN rows : rows[i].root # 0 => rows[i].name # s[1]
Unemitted ==
  emitting # Null => \A i \in DOMAIN rows : rows[i].root = 0 => rows[i].name # emitting

\* How far a quiet run has come: the emitted skills are those it read, then those it keeps and
\* has still to delete, then those it keeps, at the old confidence or the new.
As(i, r) == rows[i] = r[i]
Came ==
  LET c == curator
      E == Skills!Emitted(rows)
  IN /\ c.at = "judged" => E = DOMAIN c.loaded /\ \A i \in E : As(i, c.loaded)
     /\ c.at = "deleting" => /\ E = DOMAIN c.kept \union c.doomed
                             /\ E \subseteq DOMAIN c.loaded /\ DOMAIN c.kept \intersect c.doomed = {}
                             /\ \A i \in E : As(i, c.loaded)
     /\ c.at = "updating" => /\ E = DOMAIN c.kept
                             /\ \A i \in c.doomed : As(i, c.loaded)
                             /\ \A i \in DOMAIN c.kept \ c.doomed : As(i, c.kept)
     /\ c.at = "saved" => E = DOMAIN c.kept /\ \A i \in E : As(i, c.kept)
QuietCame == curator.quiet => Came

\* For each skill of table c that is not too faded on day d, one of table k is at least as sure and
\* shares a look-alike with it.
Faded(s, d) == s.conf \div Skills!Divisor(d - s.used)
Stands(i, j, c, k, d) ==
  /\ k[j].conf >= Faded(c[i], d)
  /\ \E s \in DOMAIN c : <<c[s].name, c[i].name>> \in Similar /\ <<c[s].name, c[j].name>> \in Similar
Covers(c, k, d) ==
  \A i \in DOMAIN c : Faded(c[i], d) >= 4 => \E j \in DOMAIN k : Stands(i, j, c, k, d)

SkillInv ==
  /\ SkillType /\ CuratorTyped /\ KeptFits /\ Skills!OnePerName /\ Unseeded /\ Unemitted
  /\ QuietCame /\ Covers(curator.loaded, curator.kept, day)

LEMMA SkillConstants ==
  /\ DiskNames \subseteq Names /\ MaxRow \in Nat \ {0} /\ Days \subseteq Nat /\ 0 \in Days
  /\ MaxSeeds \in Nat /\ MaxCurations \in Nat
  /\ \A n \in Names : <<n, n>> \in Similar
  BY SkillsAssumption DEF SkillsAssumption, Skills!SkillsAssumption

-----------------------------------------------------------------------------
(* Fading *)

LEMMA DivisorIs ==
  ASSUME NEW n \in Nat
  PROVE  /\ Skills!Divisor(n) \in {1, 2, 4, 8, 16, 32}
         /\ n = 0 => Skills!Divisor(n) = 1
         /\ n = 1 => Skills!Divisor(n) = 2
         /\ n = 2 => Skills!Divisor(n) = 4
         /\ n = 3 => Skills!Divisor(n) = 8
         /\ n = 4 => Skills!Divisor(n) = 16
         /\ n >= 5 => Skills!Divisor(n) = 32
<1>1. CASE n >= 5
  BY <1>1 DEF Skills!Divisor
<1>2. CASE n < 5
  <2>1. n = 0 \/ n = 1 \/ n = 2 \/ n = 3 \/ n = 4
    BY <1>2
  <2>2. n = 0 => Skills!Divisor(n) = 1
    BY DEF Skills!Divisor
  <2>3. n = 1 => Skills!Divisor(n) = 2
    BY DEF Skills!Divisor
  <2>4. n = 2 => Skills!Divisor(n) = 4
    BY DEF Skills!Divisor
  <2>5. n = 3 => Skills!Divisor(n) = 8
    BY DEF Skills!Divisor
  <2>6. n = 4 => Skills!Divisor(n) = 16
    BY DEF Skills!Divisor
  <2> QED
    BY <2>1, <2>2, <2>3, <2>4, <2>5, <2>6
<1> QED
  BY <1>1, <1>2

LEMMA FadesOn ==
  ASSUME NEW c \in Nat, NEW m \in Nat, NEW n \in Nat, m <= n
  PROVE  /\ c \div Skills!Divisor(n) <= c \div Skills!Divisor(m)
         /\ c \div Skills!Divisor(n) \in 0..c
<1>1. /\ c \div 1 = c /\ c \div 2 <= c /\ c \div 4 <= c \div 2 /\ c \div 8 <= c \div 4
      /\ c \div 16 <= c \div 8 /\ c \div 32 <= c \div 16
      /\ \A k \in {1, 2, 4, 8, 16, 32} : c \div k \in Nat
  BY SMT
<1>2. /\ (m = 0 /\ Skills!Divisor(m) = 1) \/ (m = 1 /\ Skills!Divisor(m) = 2)
         \/ (m = 2 /\ Skills!Divisor(m) = 4) \/ (m = 3 /\ Skills!Divisor(m) = 8)
         \/ (m = 4 /\ Skills!Divisor(m) = 16) \/ (m >= 5 /\ Skills!Divisor(m) = 32)
  BY DivisorIs
<1>3. /\ (n = 0 /\ Skills!Divisor(n) = 1) \/ (n = 1 /\ Skills!Divisor(n) = 2)
         \/ (n = 2 /\ Skills!Divisor(n) = 4) \/ (n = 3 /\ Skills!Divisor(n) = 8)
         \/ (n = 4 /\ Skills!Divisor(n) = 16) \/ (n >= 5 /\ Skills!Divisor(n) = 32)
  BY DivisorIs
<1> QED
  BY <1>1, <1>2, <1>3, SMT

LEMMA FadedIs ==
  ASSUME NEW s \in Skills!Skill, NEW d \in Nat, NEW e \in Nat, s.used <= d, d <= e
  PROVE  Faded(s, e) <= Faded(s, d) /\ Faded(s, d) \in 0..16
<1>1. s.conf \in Nat /\ s.conf <= 16 /\ s.used \in Nat
  <2>1. s.conf \in 0..16 /\ s.used \in Days
    BY DEF Skills!Skill, Skills!Full
  <2>2. Days \subseteq Nat
    BY SkillConstants
  <2>3. s.used \in Nat
    BY <2>1, <2>2
  <2> QED
    BY <2>1, <2>3
<1>2. d - s.used \in Nat /\ e - s.used \in Nat /\ d - s.used <= e - s.used
  BY <1>1
<1>3. /\ s.conf \div Skills!Divisor(e - s.used) <= s.conf \div Skills!Divisor(d - s.used)
      /\ s.conf \div Skills!Divisor(d - s.used) \in 0..s.conf
  <2> DEFINE c == s.conf
             m == d - s.used
             n == e - s.used
  <2>1. c \in Nat /\ m \in Nat /\ n \in Nat /\ m <= n
    BY <1>1, <1>2
  <2> HIDE DEF c, m, n
  <2>2. /\ c \div Skills!Divisor(n) <= c \div Skills!Divisor(m)
        /\ c \div Skills!Divisor(n) \in 0..c
    BY <2>1, FadesOn
  <2>3. c \div Skills!Divisor(m) \in 0..c
    <3>1. m <= m
      BY <2>1
    <3> QED
      BY <2>1, <3>1, FadesOn
  <2> QED
    BY <2>2, <2>3 DEF c, m, n
<1> QED
  BY <1>1, <1>3 DEF Faded

-----------------------------------------------------------------------------
(* Clusters *)

\* Of a set of places, those that none before them in the choice has taken.
Chosen(L, P, R) == \A i \in P : i \in L <=> ~\E j \in L : j < i /\ <<j, i>> \in R

LEMMA ChoiceGrows ==
  ASSUME NEW b \in Nat, NEW P, NEW Q, NEW R, Q = P \union {b}, \A i \in P : i \in Nat /\ i < b,
         NEW L \in SUBSET P, Chosen(L, P, R)
  PROVE  \E M \in SUBSET Q : Chosen(M, Q, R)
<1>1. CASE \E j \in L : j < b /\ <<j, b>> \in R
  <2>1. b \notin L
    OBVIOUS
  <2>2. Chosen(L, Q, R)
    BY <1>1, <2>1 DEF Chosen
  <2> QED
    BY <2>2
<1>2. CASE ~\E j \in L : j < b /\ <<j, b>> \in R
  <2> DEFINE M == L \union {b}
  <2>1. \A i \in P : ~(b < i) /\ i # b
    OBVIOUS
  <2>2. ~(b < b)
    OBVIOUS
  <2>3. ASSUME NEW i \in P PROVE i \in M <=> ~\E j \in M : j < i /\ <<j, i>> \in R
    BY <2>1, <2>3 DEF Chosen
  <2>4. ~\E j \in M : j < b /\ <<j, b>> \in R
    BY <1>2, <2>2
  <2>5. Chosen(M, Q, R)
    BY <2>3, <2>4 DEF Chosen
  <2> QED
    BY <2>5
<1> QED
  BY <1>1, <1>2

LEMMA ChoiceExists ==
  ASSUME NEW n \in Nat, NEW D \in SUBSET (1..n), NEW R
  PROVE  \E L \in SUBSET D : Chosen(L, D, R)
<1> DEFINE Good(m) == \E L \in SUBSET UpTo(D, m) : Chosen(L, UpTo(D, m), R)
           Bad == {m \in 0..n : ~Good(m)}
<1>1. UpTo(D, n) = D /\ UpTo(D, 0) = {}
  <2>1. \A i \in D : i <= n /\ ~(i <= 0)
    OBVIOUS
  <2> QED
    BY <2>1 DEF UpTo
<1>2. Good(0)
  BY <1>1 DEF Chosen
<1>3. ASSUME NEW b \in Bad, \A m \in Bad : b <= m PROVE FALSE
  <2>1. b \in Nat /\ b <= n /\ ~Good(b)
    OBVIOUS
  <2>2. b # 0
    BY <1>2, <2>1
  <2>3. b - 1 \in 0..n /\ ~(b <= b - 1)
    BY <2>1, <2>2
  <2>4. Good(b - 1)
    BY <1>3, <2>3
  <2>5. \A i \in D : i \in Nat /\ (i <= b <=> i <= b - 1 \/ i = b)
    BY <2>1
  <2>6. CASE b \in D
    <3> DEFINE P == UpTo(D, b - 1)
               Q == UpTo(D, b)
    <3>1. Q = P \union {b}
      BY <2>5, <2>6 DEF UpTo
    <3>2. \A i \in P : i \in Nat /\ i < b
      BY <2>1, <2>5 DEF UpTo
    <3>3. PICK L \in SUBSET P : Chosen(L, P, R)
      BY <2>4
    <3> HIDE DEF P, Q
    <3>4. \E M \in SUBSET Q : Chosen(M, Q, R)
      BY <2>1, <3>1, <3>2, <3>3, ChoiceGrows
    <3> QED
      BY <2>1, <3>4 DEF Q
  <2>7. CASE b \notin D
    <3>1. UpTo(D, b) = UpTo(D, b - 1)
      BY <2>5, <2>7 DEF UpTo
    <3> QED
      BY <2>1, <2>4, <3>1
  <2> QED
    BY <2>6, <2>7
<1>4. Good(n)
  <2>1. Bad \in SUBSET Nat
    OBVIOUS
  <2>2. ASSUME n \in Bad PROVE FALSE
    <3> HIDE DEF Bad
    <3>1. \E b \in Bad : \A m \in Bad : b <= m
      BY <2>1, <2>2, LeastMember
    <3> QED
      BY <1>3, <3>1
  <2> QED
    BY <2>2
<1> QED
  BY <1>1, <1>4

\* The least of some places.
LEMMA LeastIs ==
  ASSUME NEW S \in SUBSET Nat, S # {}
  PROVE  Skills!Min(S) \in S /\ \A m \in S : Skills!Min(S) <= m
<1>1. \E k : k \in S
  OBVIOUS
<1>2. \E m \in S : \A o \in S : m <= o
  BY <1>1, LeastMember
<1> QED
  BY <1>2 DEF Skills!Min

LEMMA LeadersAre ==
  ASSUME NEW c, NEW n \in Nat, DOMAIN c \subseteq 1..n
  PROVE  /\ Skills!Leaders(c) \subseteq DOMAIN c
         /\ \A i \in DOMAIN c :
              i \in Skills!Leaders(c) <=> ~\E j \in Skills!Leaders(c) : Skills!Like(c, j, i)
<1> DEFINE R == {p \in (1..n) \X (1..n) : <<c[p[1]].name, c[p[2]].name>> \in Similar}
           Fits(L) == \A i \in DOMAIN c : i \in L <=> ~\E j \in L : Skills!Like(c, j, i)
<1>1. PICK L \in SUBSET DOMAIN c : Chosen(L, DOMAIN c, R)
  BY ChoiceExists
<1>2. Fits(L)
  <2>1. \A i, j \in DOMAIN c : Skills!Like(c, j, i) <=> j < i /\ <<j, i>> \in R
    BY DEF Skills!Like
  <2> HIDE DEF R
  <2> QED
    BY <1>1, <2>1 DEF Chosen
<1>3. Skills!Leaders(c) = CHOOSE M \in SUBSET DOMAIN c : Fits(M)
  BY DEF Skills!Leaders
<1> HIDE DEF Fits
<1>4. Skills!Leaders(c) \in SUBSET DOMAIN c /\ Fits(Skills!Leaders(c))
  BY <1>2, <1>3
<1> QED
  BY <1>4 DEF Fits

LEMMA LeaderIs ==
  ASSUME NEW c, NEW n \in Nat, DOMAIN c \subseteq 1..n, NEW i \in DOMAIN c
  PROVE  /\ Skills!LeaderOf(c, i) \in Skills!Leaders(c)
         /\ Skills!LeaderOf(c, i) = i \/ Skills!Like(c, Skills!LeaderOf(c, i), i)
         /\ i \in Skills!Leaders(c) => Skills!LeaderOf(c, i) = i
<1>1. CASE i \in Skills!Leaders(c)
  BY <1>1 DEF Skills!LeaderOf
<1>2. CASE i \notin Skills!Leaders(c)
  <2> DEFINE S == {j \in Skills!Leaders(c) : Skills!Like(c, j, i)}
  <2>1. S # {} /\ S \in SUBSET Nat
    BY <1>2, LeadersAre
  <2>2. Skills!LeaderOf(c, i) = Skills!Min(S)
    BY <1>2 DEF Skills!LeaderOf
  <2>3. Skills!Min(S) \in S
    <3> HIDE DEF S
    <3> QED
      BY <2>1, LeastIs
  <2> QED
    BY <1>2, <2>2, <2>3
<1> QED
  BY <1>1, <1>2

\* Of each cluster the best is in it, and none of it is surer.
Sure0(c) == \A i \in DOMAIN c : c[i].conf \in 0..16
LEMMA BestIs ==
  ASSUME NEW c, NEW n \in Nat, DOMAIN c \subseteq 1..n, Sure0(c), NEW k \in SUBSET DOMAIN c, k # {}
  PROVE  Skills!Best(c, k) \in k /\ \A j \in k : c[j].conf <= c[Skills!Best(c, k)].conf
<1> DEFINE Lack == {16 - c[i].conf : i \in k}
           S == {i \in k : \A j \in k : c[j].conf <= c[i].conf}
<1>0. \A i \in k : c[i].conf \in Nat /\ c[i].conf <= 16 /\ i \in Nat
  BY DEF Sure0
<1>1. PICK b \in k : TRUE
  OBVIOUS
<1>2. Lack \in SUBSET Nat /\ 16 - c[b].conf \in Lack
  BY <1>0
<1>3. PICK m \in Lack : \A o \in Lack : m <= o
  <2> HIDE DEF Lack
  <2> QED
    BY <1>2, LeastMember
<1>4. PICK i \in k : m = 16 - c[i].conf
  OBVIOUS
<1>5. \A j \in k : c[j].conf <= c[i].conf
  <2> SUFFICES ASSUME NEW j \in k PROVE c[j].conf <= c[i].conf
    OBVIOUS
  <2>1. m <= 16 - c[j].conf
    BY <1>3
  <2> QED
    BY <1>0, <1>4, <2>1
<1>6. S # {} /\ S \in SUBSET Nat
  BY <1>0, <1>5
<1>7. Skills!Best(c, k) = Skills!Min(S)
  BY DEF Skills!Best
<1>8. Skills!Min(S) \in S
  <2> HIDE DEF S
  <2> QED
    BY <1>6, LeastIs
<1> QED
  BY <1>7, <1>8

\* What a run keeps of what it read: at the confidence faded to that day, and someone for everyone.
LEMMA CurateIs ==
  ASSUME NEW c, Table(c, day), day \in Nat
  PROVE  /\ DOMAIN Skills!Curate(c) \subseteq DOMAIN c
         /\ Skills!Curate(c) = [i \in DOMAIN Skills!Curate(c) |-> Skills!Decayed(c[i])]
         /\ Covers(c, Skills!Curate(c), day)
<1> DEFINE z == [i \in DOMAIN c |-> Skills!Decayed(c[i])]
           y == Skills!Deduplicated(z)
           x == Skills!Curate(c)
<1>0. MaxRow \in Nat /\ DOMAIN c \subseteq 1..MaxRow /\ \A i \in DOMAIN c : c[i] \in Skills!Skill /\ c[i].used <= day
  BY SkillConstants DEF Table
<1>1. /\ DOMAIN z = DOMAIN c /\ \A i \in DOMAIN c : z[i] = Skills!Decayed(c[i])
  OBVIOUS
<1>2. \A i \in DOMAIN c : /\ z[i].conf = Faded(c[i], day) /\ z[i].conf \in 0..16
                          /\ z[i].name = c[i].name /\ c[i].name \in Names
  <2> SUFFICES ASSUME NEW i \in DOMAIN c
               PROVE  /\ z[i].conf = Faded(c[i], day) /\ z[i].conf \in 0..16
                      /\ z[i].name = c[i].name /\ c[i].name \in Names
    OBVIOUS
  <2> DEFINE s == c[i]
  <2>1. s \in Skills!Skill /\ s.used <= day
    BY <1>0
  <2> HIDE DEF s
  <2>2. /\ Skills!Decayed(s).conf = Faded(s, day) /\ Skills!Decayed(s).name = s.name
        /\ s.name \in Names
    BY <2>1 DEF Skills!Decayed, Faded, Skills!Skill
  <2>3. Faded(s, day) \in 0..16
    <3>1. day <= day
      OBVIOUS
    <3> QED
      BY <2>1, <3>1, FadedIs
  <2> QED
    BY <1>1, <2>2, <2>3 DEF s
<1>3. Sure0(z) /\ DOMAIN z \subseteq 1..MaxRow
  BY <1>0, <1>1, <1>2 DEF Sure0
<1>4. y = [i \in {Skills!Best(z, k) : k \in Skills!Clusters(z)} |-> z[i]]
  BY DEF Skills!Deduplicated
<1>5. x = [i \in {j \in DOMAIN y : y[j].conf >= 4} |-> y[i]]
  BY DEF Skills!Curate, Skills!Pruned, Skills!Threshold
<1> DEFINE Led(l) == {i \in DOMAIN z : Skills!LeaderOf(z, i) = l}
<1>6. Skills!Clusters(z) = {Led(l) : l \in Skills!Leaders(z)}
  BY DEF Skills!Clusters
<1> HIDE DEF x, y, z
<1>7. ASSUME NEW l \in Skills!Leaders(z)
      PROVE  /\ Led(l) \in SUBSET DOMAIN z /\ Skills!Best(z, Led(l)) \in Led(l)
             /\ \A j \in Led(l) : z[j].conf <= z[Skills!Best(z, Led(l))].conf
  <2>1. l \in DOMAIN z
    BY <1>0, <1>3, LeadersAre
  <2>2. Skills!LeaderOf(z, l) = l
    BY <1>0, <1>3, <2>1, LeaderIs
  <2>3. Led(l) # {} /\ Led(l) \in SUBSET DOMAIN z
    BY <2>1, <2>2
  <2> DEFINE k == Led(l)
  <2> HIDE DEF k
  <2>4. k \in SUBSET DOMAIN z /\ k # {}
    BY <2>3 DEF k
  <2>5. Skills!Best(z, k) \in k /\ \A j \in k : z[j].conf <= z[Skills!Best(z, k)].conf
    BY <1>0, <1>3, <2>4, BestIs
  <2> QED
    BY <2>4, <2>5 DEF k
<1>8. DOMAIN y = {Skills!Best(z, k) : k \in Skills!Clusters(z)} /\ \A i \in DOMAIN y : y[i] = z[i]
  BY <1>4
<1>9. DOMAIN y \subseteq DOMAIN z
  <2>1. \A k \in Skills!Clusters(z) : Skills!Best(z, k) \in DOMAIN z
    BY <1>6, <1>7
  <2> QED
    BY <1>8, <2>1
<1>10. DOMAIN x = {j \in DOMAIN y : y[j].conf >= 4} /\ \A i \in DOMAIN x : x[i] = y[i]
  BY <1>5
<1>11. DOMAIN x \subseteq DOMAIN c
  BY <1>1, <1>9, <1>10
<1>12. x = [i \in DOMAIN x |-> Skills!Decayed(c[i])]
  <2>1. x = [i \in DOMAIN x |-> x[i]]
    BY <1>5
  <2>2. \A i \in DOMAIN x : x[i] = Skills!Decayed(c[i])
    BY <1>1, <1>8, <1>9, <1>10
  <2> QED
    BY <2>1, <2>2
<1>13. ASSUME NEW i \in DOMAIN c, Faded(c[i], day) >= 4
       PROVE  \E j \in DOMAIN x : Stands(i, j, c, x, day)
  <2> DEFINE l == Skills!LeaderOf(z, i)
             j == Skills!Best(z, Led(l))
  <2>1. l \in Skills!Leaders(z) /\ l \in DOMAIN z /\ (l = i \/ Skills!Like(z, l, i))
    <3>1. i \in DOMAIN z
      BY <1>1
    <3> QED
      BY <1>0, <1>3, <3>1, LeaderIs, LeadersAre
  <2>2. i \in Led(l)
    BY <1>1
  <2> HIDE DEF l
  <2>3. j \in Led(l) /\ Led(l) \in SUBSET DOMAIN z /\ z[i].conf <= z[j].conf
    BY <1>7, <2>1, <2>2
  <2>4. j \in DOMAIN z /\ Skills!LeaderOf(z, j) = l
    BY <2>3
  <2>5. l = j \/ Skills!Like(z, l, j)
    BY <1>0, <1>3, <2>4, LeaderIs
  <2>6. j \in DOMAIN y
    <3>1. Led(l) \in Skills!Clusters(z)
      BY <1>6, <2>1
    <3> HIDE DEF Led
    <3> QED
      BY <1>8, <3>1
  <2> HIDE DEF j, Led
  <2>7. z[i].conf = Faded(c[i], day) /\ z[i].conf \in 0..16 /\ z[j].conf \in 0..16
    BY <1>1, <1>2, <2>4
  <2>8. j \in DOMAIN x /\ x[j].conf >= Faded(c[i], day)
    BY <1>8, <1>10, <1>13, <2>3, <2>6, <2>7
  <2>9. /\ <<c[l].name, c[i].name>> \in Similar /\ <<c[l].name, c[j].name>> \in Similar
    <3>1. z[l].name = c[l].name /\ z[i].name = c[i].name /\ z[j].name = c[j].name
          /\ c[l].name \in Names
      BY <1>1, <1>2, <2>1, <2>4
    <3>2. <<c[l].name, c[l].name>> \in Similar
      BY <3>1, SkillConstants
    <3>3. CASE l = i
      BY <2>5, <3>1, <3>2, <3>3 DEF Skills!Like
    <3>4. CASE Skills!Like(z, l, i)
      BY <2>5, <3>1, <3>2, <3>4 DEF Skills!Like
    <3> QED
      BY <2>1, <3>3, <3>4
  <2>10. l \in DOMAIN c
    BY <1>1, <2>1
  <2>11. Stands(i, j, c, x, day)
    BY <2>8, <2>9, <2>10 DEF Stands
  <2> QED
    BY <2>8, <2>11
<1>14. Covers(c, x, day)
  BY <1>13 DEF Covers
<1> QED
  BY <1>11, <1>12, <1>14 DEF x

-----------------------------------------------------------------------------
(* Steps of the index *)

LEMMA SkillInit == Init => SkillInv
<1> SUFFICES ASSUME Init PROVE SkillInv
  OBVIOUS
<1>1. /\ rows = <<>> /\ day = 0 /\ seeds = 0 /\ seeding = Null /\ emitting = Null
      /\ curator = [at |-> "idle", run |-> 0, loaded |-> <<>>, kept |-> <<>>, doomed |-> {},
                    quiet |-> TRUE]
  BY DEF Init, Skills!Init, Skills!Idle
<1>2. DOMAIN rows = {} /\ DOMAIN curator.loaded = {} /\ DOMAIN curator.kept = {}
  BY <1>1
<1>3. SkillType
  BY <1>1, <1>2, SkillConstants DEF SkillType, Table
<1>4. CuratorTyped /\ KeptFits
  BY <1>1, <1>2 DEF CuratorTyped, KeptFits, Table, Ats
<1>5. Skills!OnePerName /\ Unseeded /\ Unemitted
  BY <1>1, <1>2 DEF Skills!OnePerName, Unseeded, Unemitted
<1>6. QuietCame /\ Covers(curator.loaded, curator.kept, day)
  BY <1>1, <1>2 DEF QuietCame, Came, Covers
<1> QED
  BY <1>3, <1>4, <1>5, <1>6 DEF SkillInv

\* What a step of the server leaves of the curator's run.
RunKept == CuratorTyped /\ KeptFits /\ QuietCame /\ Covers(curator.loaded, curator.kept, day)

LEMMA DisturbedKeeps ==
  ASSUME SkillInv, Skills!Disturbed, day' = day
  PROVE  RunKept'
<1>1. curator' = [curator EXCEPT !.quiet = curator.at = "idle"]
  BY DEF Skills!Disturbed
<1>2. /\ curator'.at = curator.at /\ curator'.run = curator.run /\ curator'.loaded = curator.loaded
      /\ curator'.kept = curator.kept /\ curator'.doomed = curator.doomed
      /\ curator'.quiet = (curator.at = "idle")
      /\ curator' = [at |-> curator.at, run |-> curator.run, loaded |-> curator.loaded,
                     kept |-> curator.kept, doomed |-> curator.doomed,
                     quiet |-> curator.at = "idle"]
  <2> DEFINE c == curator
             q == curator.at = "idle"
  <2>1. c = [at |-> c.at, run |-> c.run, loaded |-> c.loaded, kept |-> c.kept, doomed |-> c.doomed,
             quiet |-> c.quiet]
    BY DEF SkillInv, CuratorTyped
  <2>2. curator' = [c EXCEPT !.quiet = q]
    BY <1>1
  <2> HIDE DEF c, q
  <2>3. curator' = [at |-> c.at, run |-> c.run, loaded |-> c.loaded, kept |-> c.kept,
                    doomed |-> c.doomed, quiet |-> q]
    BY <2>1, <2>2
  <2> QED
    BY <2>3 DEF c, q
<1>3. CuratorTyped'
  <2>1. curator'.quiet \in BOOLEAN
    BY <1>2
  <2>2. curator' = [at |-> curator'.at, run |-> curator'.run, loaded |-> curator'.loaded,
                    kept |-> curator'.kept, doomed |-> curator'.doomed, quiet |-> curator'.quiet]
    BY <1>2
  <2> QED
    BY <1>2, <2>1, <2>2 DEF SkillInv, CuratorTyped
<1>4. KeptFits'
  <2>1. KeptFits
    BY DEF SkillInv
  <2> QED
    BY <1>2, <2>1 DEF KeptFits, Table
<1>5. QuietCame'
  BY <1>2 DEF QuietCame, Came
<1>6. Covers(curator'.loaded, curator'.kept, day')
  BY <1>2 DEF SkillInv
<1> QED
  BY <1>3, <1>4, <1>5, <1>6 DEF RunKept

\* The run of a curator that nothing happens to while the index is left alone.
LEMMA RunQuiet ==
  ASSUME SkillInv, UNCHANGED <<curator, rows, day>>
  PROVE  RunKept'
<1>1. CuratorTyped' /\ KeptFits'
  BY DEF SkillInv, CuratorTyped, KeptFits, Table
<1>2. QuietCame'
  BY DEF SkillInv, QuietCame, Came, As, Skills!Emitted
<1>3. Covers(curator.loaded, curator.kept, day)'
  BY DEF SkillInv
<1> QED
  BY <1>1, <1>2, <1>3 DEF RunKept

LEMMA AddedIs ==
  ASSUME SkillInv, NEW nm \in Names, NEW rt \in {0, 1, 2}, Skills!NextId(rows) \in Skills!Ids,
         rows' = Skills!Added(rows, nm, rt), day' = day
  PROVE  /\ Table(rows', day)
         /\ \A i \in DOMAIN rows' : \/ i \in DOMAIN rows /\ rows'[i] = rows[i]
                                    \/ i = Skills!NextId(rows) /\ rows'[i].name = nm /\ rows'[i].root = rt
<1> DEFINE new == [name |-> nm, root |-> rt, conf |-> 16, used |-> day]
           k == Skills!NextId(rows)
<1>1. rows' = [i \in DOMAIN rows \union {k} |-> IF i \in DOMAIN rows THEN rows[i] ELSE new]
  BY DEF Skills!Added, Skills!Full
<1>2. k \in 1..MaxRow
  BY DEF Skills!Ids
<1>3. new \in Skills!Skill /\ new.used <= day /\ new.name = nm /\ new.root = rt
  <2>1. day \in Days /\ day \in Nat
    BY SkillConstants DEF SkillInv, SkillType
  <2>2. rt \in {0} \union Skills!Roots
    BY DEF Skills!Roots
  <2> QED
    BY <2>1, <2>2 DEF Skills!Skill, Skills!Full
<1> HIDE DEF new, k
<1>4. \A i \in DOMAIN rows' : \/ i \in DOMAIN rows /\ rows'[i] = rows[i]
                              \/ i = k /\ rows'[i] = new
  BY <1>1
<1>5. DOMAIN rows' \subseteq 1..MaxRow
  BY <1>1, <1>2 DEF SkillInv, SkillType, Table
<1>6. Table(rows', day)
  BY <1>3, <1>4, <1>5 DEF SkillInv, SkillType, Table
<1> QED
  BY <1>3, <1>4, <1>6 DEF k

LEMMA WithoutIs ==
  ASSUME SkillInv, NEW dead, rows' = Skills!Without(rows, dead)
  PROVE  /\ Table(rows', day) /\ DOMAIN rows' = DOMAIN rows \ dead
         /\ \A i \in DOMAIN rows' : rows'[i] = rows[i]
         /\ Skills!OnePerName'
<1>1. DOMAIN rows' = DOMAIN rows \ dead /\ \A i \in DOMAIN rows' : rows'[i] = rows[i]
  BY DEF Skills!Without
<1> QED
  BY <1>1 DEF SkillInv, SkillType, Table, Skills!OnePerName

LEMMA SeedKeeps ==
  ASSUME SkillInv, Skills!Seed
  PROVE  SkillInv'
<1>1. /\ seeds < MaxSeeds /\ seeds' = seeds + 1 /\ rows' = Skills!Without(rows, Skills!Disk(rows))
      /\ Skills!Disturbed /\ day' = day /\ emitting' = emitting
  BY DEF Skills!Seed
<1>2. PICK folders \in [{1, 2} -> SUBSET DiskNames] : seeding' = Skills!LoadFromDisk(folders)
  BY DEF Skills!Seed, Skills!Roots
<1> DEFINE Last(n) == Skills!Max({r \in Skills!Roots : n \in folders[r]})
           disk == UNION {folders[r] : r \in Skills!Roots}
<1>3. seeding' = {<<n, Last(n)>> : n \in disk}
  BY <1>2 DEF Skills!LoadFromDisk
<1>4. \A n \in disk : n \in DiskNames /\ Last(n) \in {1, 2}
  <2> SUFFICES ASSUME NEW n \in disk PROVE n \in DiskNames /\ Last(n) \in {1, 2}
    OBVIOUS
  <2>1. n \in folders[1] \/ n \in folders[2]
    BY DEF Skills!Roots
  <2>2. n \in DiskNames
    BY <1>2, <2>1
  <2> DEFINE R == {r \in Skills!Roots : n \in folders[r]}
  <2>3. CASE n \in folders[2]
    <3>1. 2 \in R /\ \A r \in R : 2 >= r
      BY <2>3 DEF Skills!Roots
    <3>2. Skills!Max(R) \in R
      BY <3>1 DEF Skills!Max
    <3> QED
      BY <2>2, <3>2 DEF Skills!Roots
  <2>4. CASE n \notin folders[2]
    <3>1. 1 \in R /\ \A r \in R : 1 >= r
      BY <2>1, <2>4 DEF Skills!Roots
    <3>2. Skills!Max(R) \in R
      BY <3>1 DEF Skills!Max
    <3> QED
      BY <2>2, <3>2 DEF Skills!Roots
  <2> QED
    BY <2>3, <2>4
<1> HIDE DEF Last, disk
<1>5. /\ Table(rows', day) /\ DOMAIN rows' = DOMAIN rows \ Skills!Disk(rows)
      /\ \A i \in DOMAIN rows' : rows'[i] = rows[i]
      /\ Skills!OnePerName'
  BY <1>1, WithoutIs
<1>6. \A i \in DOMAIN rows' : rows'[i].root = 0
  BY <1>5 DEF Skills!Disk
<1>7. Unseeded'
  <2>1. \A s, t \in seeding' : s[1] = t[1] => s = t
    BY <1>3
  <2> QED
    BY <1>6, <2>1 DEF Unseeded
<1>8. Unemitted'
  BY <1>1, <1>5 DEF SkillInv, Unemitted
<1>9. SkillType'
  <2>1. seeding' \subseteq DiskNames \X {1, 2}
    BY <1>3, <1>4
  <2>2. seeds' \in 0..MaxSeeds
    BY <1>1, SkillConstants DEF SkillInv, SkillType
  <2> QED
    BY <1>1, <1>5, <2>1, <2>2 DEF SkillInv, SkillType
<1>10. RunKept'
  BY <1>1, DisturbedKeeps
<1> QED
  BY <1>5, <1>7, <1>8, <1>9, <1>10 DEF SkillInv, RunKept

LEMMA SeedOneKeeps ==
  ASSUME SkillInv, Skills!SeedOne
  PROVE  SkillInv'
<1>1. seeding # Null /\ UNCHANGED <<day, seeds, emitting>>
  BY DEF Skills!SeedOne
<1>2. CASE seeding' = Null /\ UNCHANGED <<rows, curator>>
  <2>1. SkillType' /\ Skills!OnePerName'
    BY <1>1, <1>2 DEF SkillInv, SkillType, Skills!OnePerName
  <2>2. Unseeded' /\ Unemitted'
    BY <1>1, <1>2 DEF SkillInv, Unseeded, Unemitted
  <2>3. RunKept'
    BY <1>1, <1>2, RunQuiet
  <2> QED
    BY <2>1, <2>2, <2>3 DEF SkillInv, RunKept
<1>3. CASE \E s \in seeding : /\ Skills!NextId(rows) \in Skills!Ids
                              /\ rows' = Skills!Added(rows, s[1], s[2])
                              /\ seeding' = seeding \ {s}
                              /\ Skills!Disturbed
  <2>1. PICK s \in seeding : /\ Skills!NextId(rows) \in Skills!Ids
                             /\ rows' = Skills!Added(rows, s[1], s[2])
                             /\ seeding' = seeding \ {s}
                             /\ Skills!Disturbed
    BY <1>3
  <2>2. seeding \subseteq DiskNames \X {1, 2}
    BY <1>1 DEF SkillInv, SkillType
  <2>3. s[1] \in Names /\ s[2] \in {0, 1, 2} /\ s[2] # 0
    BY <2>2, SkillConstants
  <2>4. /\ Table(rows', day)
        /\ \A i \in DOMAIN rows' : \/ i \in DOMAIN rows /\ rows'[i] = rows[i]
                                   \/ i = Skills!NextId(rows) /\ rows'[i].name = s[1] /\ rows'[i].root = s[2]
    BY <1>1, <2>1, <2>3, AddedIs
  <2>5. /\ \A t, u \in seeding : t[1] = u[1] => t = u
        /\ \A t \in seeding, i \in DOMAIN rows : rows[i].root # 0 => rows[i].name # t[1]
    BY <1>1 DEF SkillInv, Unseeded
  <2>6. SkillType'
    BY <1>1, <2>1, <2>2, <2>4 DEF SkillInv, SkillType
  <2>7. Unseeded'
    <3>1. ASSUME NEW t \in seeding', NEW i \in DOMAIN rows', rows'[i].root # 0
          PROVE  rows'[i].name # t[1]
      <4>1. t \in seeding /\ t # s
        BY <2>1
      <4>2. t[1] # s[1]
        BY <2>5, <4>1
      <4> QED
        BY <2>4, <2>5, <3>1, <4>1, <4>2
    <3>2. \A t, u \in seeding' : t[1] = u[1] => t = u
      BY <2>1, <2>5
    <3> QED
      BY <3>1, <3>2 DEF Unseeded
  <2>8. Unemitted'
    BY <1>1, <2>3, <2>4 DEF SkillInv, Unemitted
  <2>9. Skills!OnePerName'
    <3> SUFFICES ASSUME NEW i \in DOMAIN rows', NEW j \in DOMAIN rows', i # j,
                        rows'[i].name = rows'[j].name
                 PROVE  (rows'[i].root = 0) # (rows'[j].root = 0)
      BY DEF Skills!OnePerName
    <3>1. CASE i \in DOMAIN rows /\ rows'[i] = rows[i] /\ j \in DOMAIN rows /\ rows'[j] = rows[j]
      BY <3>1 DEF SkillInv, Skills!OnePerName
    <3>2. CASE i \in DOMAIN rows /\ rows'[i] = rows[i] /\ rows'[j].name = s[1] /\ rows'[j].root = s[2]
      BY <2>3, <2>5, <3>2
    <3>3. CASE rows'[i].name = s[1] /\ rows'[i].root = s[2] /\ j \in DOMAIN rows /\ rows'[j] = rows[j]
      BY <2>3, <2>5, <3>3
    <3> QED
      BY <2>4, <3>1, <3>2, <3>3
  <2>10. RunKept'
    BY <1>1, <2>1, DisturbedKeeps
  <2> QED
    BY <2>6, <2>7, <2>8, <2>9, <2>10 DEF SkillInv, RunKept
<1> QED
  BY <1>2, <1>3 DEF Skills!SeedOne

LEMMA EmitKeeps ==
  ASSUME SkillInv, NEW n \in Names, Skills!Emit(n)
  PROVE  SkillInv'
<1> DEFINE dead == {i \in Skills!Emitted(rows) : rows[i].name = n}
<1>1. /\ rows' = Skills!Without(rows, dead) /\ emitting' = n
      /\ Skills!Disturbed /\ UNCHANGED <<day, seeds, seeding>>
  BY DEF Skills!Emit
<1> HIDE DEF dead
<1>2. /\ Table(rows', day) /\ DOMAIN rows' = DOMAIN rows \ dead
      /\ \A i \in DOMAIN rows' : rows'[i] = rows[i]
      /\ Skills!OnePerName'
  BY <1>1, WithoutIs
<1>3. SkillType'
  BY <1>1, <1>2 DEF SkillInv, SkillType
<1>4. Unseeded'
  BY <1>1, <1>2 DEF SkillInv, Unseeded
<1>5. Unemitted'
  BY <1>1, <1>2 DEF Unemitted, dead, Skills!Emitted
<1>6. RunKept'
  BY <1>1, DisturbedKeeps
<1> QED
  BY <1>2, <1>3, <1>4, <1>5, <1>6 DEF SkillInv, RunKept

LEMMA EmitInsertKeeps ==
  ASSUME SkillInv, Skills!EmitInsert
  PROVE  SkillInv'
<1>1. /\ emitting # Null /\ Skills!NextId(rows) \in Skills!Ids
      /\ rows' = Skills!Added(rows, emitting, 0) /\ emitting' = Null
      /\ Skills!Disturbed /\ UNCHANGED <<day, seeds, seeding>>
  BY DEF Skills!EmitInsert
<1>2. emitting \in Names /\ 0 \in {0, 1, 2}
  BY <1>1 DEF SkillInv, SkillType
<1>3. /\ Table(rows', day)
      /\ \A i \in DOMAIN rows' : \/ i \in DOMAIN rows /\ rows'[i] = rows[i]
                                 \/ i = Skills!NextId(rows) /\ rows'[i].name = emitting /\ rows'[i].root = 0
  BY <1>1, <1>2, AddedIs
<1>4. \A i \in DOMAIN rows : rows[i].root = 0 => rows[i].name # emitting
  BY <1>1 DEF SkillInv, Unemitted
<1>5. SkillType' /\ Unemitted'
  BY <1>1, <1>3 DEF SkillInv, SkillType, Unemitted
<1>6. Unseeded'
  BY <1>1, <1>3 DEF SkillInv, Unseeded
<1>7. Skills!OnePerName'
  <2> SUFFICES ASSUME NEW i \in DOMAIN rows', NEW j \in DOMAIN rows', i # j,
                      rows'[i].name = rows'[j].name
               PROVE  (rows'[i].root = 0) # (rows'[j].root = 0)
    BY DEF Skills!OnePerName
  <2>1. CASE i \in DOMAIN rows /\ rows'[i] = rows[i] /\ j \in DOMAIN rows /\ rows'[j] = rows[j]
    BY <2>1 DEF SkillInv, Skills!OnePerName
  <2>2. CASE i \in DOMAIN rows /\ rows'[i] = rows[i] /\ rows'[j].name = emitting /\ rows'[j].root = 0
    BY <1>4, <2>2
  <2>3. CASE rows'[i].name = emitting /\ rows'[i].root = 0 /\ j \in DOMAIN rows /\ rows'[j] = rows[j]
    BY <1>4, <2>3
  <2> QED
    BY <1>3, <2>1, <2>2, <2>3
<1>8. RunKept'
  BY <1>1, DisturbedKeeps
<1> QED
  BY <1>5, <1>6, <1>7, <1>8 DEF SkillInv, RunKept

LEMMA SkillCrashKeeps ==
  ASSUME SkillInv, Skills!Crash
  PROVE  SkillInv'
<1>1. emitting' = Null /\ seeding' = Null /\ UNCHANGED <<rows, day, seeds, curator>>
  BY DEF Skills!Crash
<1>2. SkillType' /\ Skills!OnePerName' /\ Unseeded' /\ Unemitted'
  BY <1>1 DEF SkillInv, SkillType, Skills!OnePerName, Unseeded, Unemitted
<1>3. RunKept'
  BY <1>1, RunQuiet
<1> QED
  BY <1>2, <1>3 DEF SkillInv, RunKept

LEMMA SkillTickKeeps ==
  ASSUME SkillInv, Skills!Tick
  PROVE  SkillInv'
<1>1. PICK d \in Days : d > day /\ day' = d
  BY DEF Skills!Tick
<1>2. UNCHANGED <<rows, seeds, seeding, emitting, curator>>
  BY DEF Skills!Tick
<1>3. day \in Nat /\ d \in Nat /\ day <= d /\ Days \subseteq Nat
  BY <1>1, SkillConstants DEF SkillInv, SkillType
<1>4. \A r : Table(r, day) => Table(r, d)
  <2>1. \A s \in Skills!Skill : s.used \in Nat
    BY <1>3 DEF Skills!Skill
  <2> QED
    BY <1>1, <1>3, <2>1 DEF Table
<1>5. SkillType'
  BY <1>1, <1>2, <1>4 DEF SkillInv, SkillType
<1>6. CuratorTyped' /\ QuietCame' /\ Skills!OnePerName' /\ Unseeded' /\ Unemitted'
  BY <1>2 DEF SkillInv, CuratorTyped, QuietCame, Came, As, Skills!Emitted, Skills!OnePerName, Unseeded,
              Unemitted
<1>7. KeptFits'
  BY <1>1, <1>2, <1>4 DEF SkillInv, KeptFits
<1>8. Covers(curator.loaded, curator.kept, d)
  <2> DEFINE c == curator.loaded
             k == curator.kept
  <2>1. Covers(c, k, day) /\ Table(c, day) /\ Table(k, day)
    BY DEF SkillInv, KeptFits
  <2> HIDE DEF c, k
  <2>2. ASSUME NEW i \in DOMAIN c, Faded(c[i], d) >= 4
        PROVE  \E j \in DOMAIN k : Stands(i, j, c, k, d)
    <3>1. c[i] \in Skills!Skill /\ c[i].used <= day
      BY <2>1 DEF Table
    <3>2. Faded(c[i], d) <= Faded(c[i], day) /\ Faded(c[i], day) \in 0..16 /\ Faded(c[i], d) \in 0..16
      <4>1. d <= d /\ c[i].used <= d
        <5>1. c[i].used \in Nat
          BY <1>3, <3>1 DEF Skills!Skill
        <5> QED
          BY <1>3, <3>1, <5>1
      <4> QED
        BY <1>3, <3>1, <4>1, FadedIs
    <3>3. PICK j \in DOMAIN k : Stands(i, j, c, k, day)
      BY <2>1, <2>2, <3>2 DEF Covers
    <3>4. k[j].conf \in Nat
      BY <2>1 DEF Table, Skills!Skill, Skills!Full
    <3>5. Stands(i, j, c, k, d)
      BY <3>2, <3>3, <3>4 DEF Stands
    <3> QED
      BY <3>5
  <2> QED
    BY <2>2 DEF Covers, c, k
<1> QED
  BY <1>1, <1>2, <1>5, <1>6, <1>7, <1>8 DEF SkillInv

\* The index without the curator's run: what a step of the curator that writes nothing keeps.
LEMMA IndexQuiet ==
  ASSUME SkillInv, UNCHANGED <<rows, day, seeds, seeding, emitting>>
  PROVE  SkillType' /\ Skills!OnePerName' /\ Unseeded' /\ Unemitted'
  BY DEF SkillInv, SkillType, Skills!OnePerName, Unseeded, Unemitted

LEMMA LoadsKeeps ==
  ASSUME SkillInv, Skills!CuratorLoads
  PROVE  SkillInv'
<1> DEFINE E == Skills!Emitted(rows)
           loaded == [i \in E |-> rows[i]]
           kept == Skills!Curate(loaded)
<1>1. /\ curator' = [at |-> "judged", run |-> curator.run + 1, loaded |-> loaded, kept |-> kept,
                     doomed |-> {}, quiet |-> TRUE]
      /\ UNCHANGED <<rows, day, seeds, seeding, emitting>>
  BY DEF Skills!CuratorLoads, Skills!Idle
<1>2. E \subseteq DOMAIN rows /\ \A i \in E : rows[i].root = 0
  BY DEF Skills!Emitted
<1>3. DOMAIN loaded = E /\ \A i \in E : loaded[i] = rows[i]
  OBVIOUS
<1> HIDE DEF E, loaded
<1>4. Table(loaded, day) /\ day \in Nat
  BY <1>2, <1>3, SkillConstants DEF SkillInv, SkillType, Table
<1>5. /\ DOMAIN kept \subseteq DOMAIN loaded
      /\ kept = [i \in DOMAIN kept |-> Skills!Decayed(loaded[i])]
      /\ Covers(loaded, kept, day)
  BY <1>4, CurateIs
<1> HIDE DEF kept
<1>6. \A i \in DOMAIN kept : /\ kept[i] = [loaded[i] EXCEPT !.conf = Faded(loaded[i], day)]
                             /\ loaded[i] \in Skills!Skill /\ loaded[i].used <= day
  <2>1. \A i \in DOMAIN kept : kept[i] = Skills!Decayed(loaded[i])
    BY <1>5
  <2> QED
    BY <1>4, <1>5, <2>1 DEF Skills!Decayed, Faded, Table
<1>7. \A i \in DOMAIN kept : /\ kept[i] = [loaded[i] EXCEPT !.conf = kept[i].conf]
                             /\ kept[i] \in Skills!Skill /\ kept[i].used <= day
  <2> SUFFICES ASSUME NEW i \in DOMAIN kept
               PROVE  /\ kept[i] = [loaded[i] EXCEPT !.conf = kept[i].conf]
                      /\ kept[i] \in Skills!Skill /\ kept[i].used <= day
    OBVIOUS
  <2> DEFINE s == loaded[i]
             f == Faded(s, day)
  <2>1. s \in Skills!Skill /\ s.used <= day /\ kept[i] = [s EXCEPT !.conf = f]
    BY <1>6
  <2>2. day <= day
    BY <1>4
  <2> HIDE DEF s
  <2>3. f \in 0..16
    BY <1>4, <2>1, <2>2, FadedIs
  <2> HIDE DEF f
  <2>4. kept[i] \in Skills!Skill /\ kept[i].conf = f /\ kept[i].used = s.used
    BY <2>1, <2>3 DEF Skills!Skill, Skills!Full
  <2> QED
    BY <2>1, <2>4 DEF s
<1>8. Table(kept, day)
  BY <1>4, <1>5, <1>7 DEF Table
<1>9. /\ curator'.at = "judged" /\ curator'.loaded = loaded /\ curator'.kept = kept
      /\ curator'.doomed = {} /\ curator'.quiet = TRUE
      /\ curator' = [at |-> curator'.at, run |-> curator'.run, loaded |-> curator'.loaded,
                     kept |-> curator'.kept, doomed |-> curator'.doomed, quiet |-> curator'.quiet]
  BY <1>1
<1>10. CuratorTyped'
  BY <1>9 DEF CuratorTyped, Ats
<1>11. KeptFits'
  <2>1. kept = [i \in DOMAIN kept |-> kept[i]]
    BY <1>5
  <2> QED
    BY <1>1, <1>2, <1>3, <1>4, <1>5, <1>7, <1>8, <1>9, <2>1 DEF KeptFits
<1>12. QuietCame'
  <2>1. Skills!Emitted(rows') = E
    BY <1>1 DEF E
  <2> QED
    BY <1>1, <1>3, <1>9, <2>1 DEF QuietCame, Came, As
<1>13. Covers(curator'.loaded, curator'.kept, day')
  BY <1>1, <1>5, <1>9
<1> QED
  BY <1>1, <1>10, <1>11, <1>12, <1>13, IndexQuiet DEF SkillInv

\* What a step that moves the curator on leaves of its record.
LEMMA CuratorFields ==
  ASSUME NEW c, NEW r, NEW a, NEW d,
         c = [at |-> c.at, run |-> c.run, loaded |-> c.loaded, kept |-> c.kept, doomed |-> c.doomed,
              quiet |-> c.quiet],
         r = [c EXCEPT !.at = a, !.doomed = d]
  PROVE  /\ r = [at |-> a, run |-> c.run, loaded |-> c.loaded, kept |-> c.kept, doomed |-> d,
                 quiet |-> c.quiet]
         /\ r.at = a /\ r.run = c.run /\ r.loaded = c.loaded /\ r.kept = c.kept
         /\ r.doomed = d /\ r.quiet = c.quiet
<1>1. r = [at |-> a, run |-> c.run, loaded |-> c.loaded, kept |-> c.kept, doomed |-> d,
           quiet |-> c.quiet]
  OBVIOUS
<1> QED
  BY <1>1

\* A step of the curator that only moves on.
LEMMA CuratorMoves ==
  ASSUME SkillInv, NEW at \in Ats \ {"idle"}, NEW dead \in SUBSET (1..MaxRow), curator.at # "idle",
         curator' = [curator EXCEPT !.at = at, !.doomed = dead], day' = day,
         at = "updating" => dead \subseteq DOMAIN curator.kept
  PROVE  /\ CuratorTyped' /\ KeptFits' /\ Covers(curator.loaded, curator.kept, day)'
         /\ curator'.at = at /\ curator'.doomed = dead /\ curator'.kept = curator.kept
         /\ curator'.loaded = curator.loaded /\ curator'.quiet = curator.quiet
<1>0. PICK c : c = curator
  OBVIOUS
<1>1. c = [at |-> c.at, run |-> c.run, loaded |-> c.loaded, kept |-> c.kept, doomed |-> c.doomed,
           quiet |-> c.quiet]
  BY <1>0 DEF SkillInv, CuratorTyped
<1>2. curator' = [c EXCEPT !.at = at, !.doomed = dead]
  BY <1>0
<1>3. curator' = [at |-> at, run |-> c.run, loaded |-> c.loaded, kept |-> c.kept, doomed |-> dead,
                  quiet |-> c.quiet]
  BY <1>1, <1>2, CuratorFields
<1>4. /\ curator'.at = at /\ curator'.run = c.run /\ curator'.loaded = c.loaded /\ curator'.kept = c.kept
      /\ curator'.doomed = dead /\ curator'.quiet = c.quiet
  BY <1>1, <1>2, CuratorFields
<1>5. CuratorTyped'
  <2>1. curator' = [at |-> curator'.at, run |-> curator'.run, loaded |-> curator'.loaded,
                    kept |-> curator'.kept, doomed |-> curator'.doomed, quiet |-> curator'.quiet]
    BY <1>3, <1>4
  <2>2. c.quiet \in BOOLEAN
    BY <1>0 DEF SkillInv, CuratorTyped
  <2> QED
    BY <1>4, <2>1, <2>2 DEF CuratorTyped
<1>6. KeptFits'
  <2>1. KeptFits
    BY DEF SkillInv
  <2> QED
    BY <1>0, <1>4, <2>1 DEF KeptFits, Table
<1>7. Covers(curator.loaded, curator.kept, day)'
  BY <1>0, <1>4 DEF SkillInv
<1> QED
  BY <1>0, <1>4, <1>5, <1>6, <1>7

LEMMA CuratorRecord ==
  ASSUME SkillInv
  PROVE  /\ \A at, dead : [curator EXCEPT !.at = at, !.doomed = dead].doomed = dead
         /\ \A at : [curator EXCEPT !.at = at] = [curator EXCEPT !.at = at, !.doomed = curator.doomed]
         /\ \A dead : [curator EXCEPT !.doomed = dead] = [curator EXCEPT !.at = curator.at, !.doomed = dead]
<1> DEFINE c == curator
<1>1. c = [at |-> c.at, run |-> c.run, loaded |-> c.loaded, kept |-> c.kept, doomed |-> c.doomed,
           quiet |-> c.quiet]
  BY DEF SkillInv, CuratorTyped
<1> HIDE DEF c
<1>2. /\ \A at, dead : [c EXCEPT !.at = at, !.doomed = dead].doomed = dead
      /\ \A at : [c EXCEPT !.at = at] = [c EXCEPT !.at = at, !.doomed = c.doomed]
      /\ \A dead : [c EXCEPT !.doomed = dead] = [c EXCEPT !.at = c.at, !.doomed = dead]
  BY <1>1
<1> QED
  BY <1>2 DEF c

LEMMA RescanKeeps ==
  ASSUME SkillInv, Skills!CuratorRescans
  PROVE  SkillInv'
<1>1. /\ curator.at = "judged" /\ curator' = [curator EXCEPT !.at = "deleting", !.doomed = Skills!Doomed]
      /\ UNCHANGED <<rows, day, seeds, seeding, emitting>>
  BY DEF Skills!CuratorRescans
<1>2. Skills!Doomed = Skills!Emitted(rows) \ DOMAIN curator.kept
  BY DEF Skills!Doomed
<1>3. Skills!Emitted(rows) \subseteq DOMAIN rows /\ DOMAIN rows \subseteq 1..MaxRow
  BY DEF Skills!Emitted, SkillInv, SkillType, Table
<1>4. "deleting" \in Ats \ {"idle"} /\ Skills!Doomed \in SUBSET (1..MaxRow)
  BY <1>2, <1>3 DEF Ats
<1>5. /\ CuratorTyped' /\ KeptFits' /\ Covers(curator.loaded, curator.kept, day)'
      /\ curator'.at = "deleting" /\ curator'.doomed = Skills!Doomed /\ curator'.kept = curator.kept
      /\ curator'.loaded = curator.loaded /\ curator'.quiet = curator.quiet
  BY <1>1, <1>4, CuratorMoves
<1>6. QuietCame'
  <2> SUFFICES ASSUME curator.quiet PROVE Came'
    BY <1>5 DEF QuietCame
  <2>1. Skills!Emitted(rows) = DOMAIN curator.loaded
        /\ \A i \in Skills!Emitted(rows) : As(i, curator.loaded)
    BY <1>1 DEF SkillInv, QuietCame, Came
  <2>2. DOMAIN curator.kept \subseteq DOMAIN curator.loaded
    BY DEF SkillInv, KeptFits
  <2>3. Skills!Emitted(rows)' = Skills!Emitted(rows)
    BY <1>1 DEF Skills!Emitted
  <2> QED
    BY <1>1, <1>2, <1>5, <2>1, <2>2, <2>3 DEF Came, As
<1> QED
  BY <1>1, <1>5, <1>6, IndexQuiet DEF SkillInv

\* The least of what is doomed is.
LEMMA DoomedIs ==
  ASSUME SkillInv, curator.doomed # {}
  PROVE  Skills!Min(curator.doomed) \in curator.doomed
<1>1. curator.doomed \in SUBSET Nat
  BY SkillConstants DEF SkillInv, CuratorTyped
<1> QED
  BY <1>1, LeastIs

LEMMA DeletesKeeps ==
  ASSUME SkillInv, Skills!CuratorDeletes
  PROVE  SkillInv'
<1>1. curator.at = "deleting" /\ UNCHANGED <<day, seeds, seeding, emitting>>
  BY DEF Skills!CuratorDeletes
<1>2. /\ DOMAIN curator.kept \subseteq DOMAIN curator.loaded /\ DOMAIN curator.loaded \subseteq 1..MaxRow
      /\ curator.doomed \in SUBSET (1..MaxRow)
  BY DEF SkillInv, KeptFits, Table, CuratorTyped
<1>3. CASE curator.doomed = {}
  <2>1. curator' = [curator EXCEPT !.at = "updating", !.doomed = DOMAIN curator.kept] /\ rows' = rows
    BY <1>3 DEF Skills!CuratorDeletes
  <2>2. "updating" \in Ats \ {"idle"} /\ DOMAIN curator.kept \in SUBSET (1..MaxRow)
    BY <1>2 DEF Ats
  <2>3. /\ CuratorTyped' /\ KeptFits' /\ Covers(curator.loaded, curator.kept, day)'
        /\ curator'.at = "updating" /\ curator'.doomed = DOMAIN curator.kept /\ curator'.kept = curator.kept
        /\ curator'.loaded = curator.loaded /\ curator'.quiet = curator.quiet
    BY <1>1, <2>1, <2>2, CuratorMoves
  <2>4. QuietCame'
    <3> SUFFICES ASSUME curator.quiet PROVE Came'
      BY <2>3 DEF QuietCame
    <3>1. /\ Skills!Emitted(rows) = DOMAIN curator.kept
          /\ \A i \in Skills!Emitted(rows) : As(i, curator.loaded)
      BY <1>1, <1>3 DEF SkillInv, QuietCame, Came
    <3>2. Skills!Emitted(rows)' = Skills!Emitted(rows)
      BY <2>1 DEF Skills!Emitted
    <3> QED
      BY <2>1, <2>3, <3>1, <3>2 DEF Came, As
  <2> QED
    BY <1>1, <2>1, <2>3, <2>4, IndexQuiet DEF SkillInv
<1>4. CASE curator.doomed # {}
  <2> DEFINE x == Skills!Min(curator.doomed)
             rest == curator.doomed \ {x}
  <2>1. rows' = Skills!Without(rows, {x}) /\ curator' = [curator EXCEPT !.doomed = rest]
    BY <1>1, <1>4 DEF Skills!CuratorDeletes
  <2>2. x \in curator.doomed
    BY <1>4, DoomedIs
  <2> HIDE DEF x
  <2>3. curator' = [curator EXCEPT !.at = "deleting", !.doomed = rest]
    BY <1>1, <2>1, CuratorRecord
  <2>4. rest \in SUBSET (1..MaxRow) /\ "deleting" \in Ats \ {"idle"}
    BY <1>2 DEF Ats
  <2>5. rest = curator.doomed \ {x}
    OBVIOUS
  <2> HIDE DEF rest
  <2>6. /\ CuratorTyped' /\ KeptFits' /\ Covers(curator.loaded, curator.kept, day)'
        /\ curator'.at = "deleting" /\ curator'.doomed = rest /\ curator'.kept = curator.kept
        /\ curator'.loaded = curator.loaded /\ curator'.quiet = curator.quiet
    BY <1>1, <2>3, <2>4, CuratorMoves
  <2>7. /\ Table(rows', day) /\ DOMAIN rows' = DOMAIN rows \ {x}
        /\ \A i \in DOMAIN rows' : rows'[i] = rows[i]
        /\ Skills!OnePerName'
    BY <2>1, WithoutIs
  <2>8. SkillType' /\ Unseeded' /\ Unemitted'
    BY <1>1, <2>7 DEF SkillInv, SkillType, Unseeded, Unemitted
  <2>9. QuietCame'
    <3> SUFFICES ASSUME curator.quiet PROVE Came'
      BY <2>6 DEF QuietCame
    <3>1. /\ Skills!Emitted(rows) = DOMAIN curator.kept \union curator.doomed
          /\ Skills!Emitted(rows) \subseteq DOMAIN curator.loaded
          /\ DOMAIN curator.kept \intersect curator.doomed = {}
          /\ \A i \in Skills!Emitted(rows) : As(i, curator.loaded)
      BY <1>1 DEF SkillInv, QuietCame, Came
    <3>2. Skills!Emitted(rows)' = Skills!Emitted(rows) \ {x}
      BY <2>7 DEF Skills!Emitted
    <3>3. \A i \in Skills!Emitted(rows) \ {x} : rows'[i] = rows[i]
      BY <2>7 DEF Skills!Emitted
    <3>4. Skills!Emitted(rows)' = DOMAIN curator.kept \union rest
      BY <2>2, <2>5, <3>1, <3>2
    <3>5. DOMAIN curator.kept \intersect rest = {}
      BY <2>5, <3>1
    <3>6. \A i \in Skills!Emitted(rows)' : rows'[i] = curator.loaded[i]
      BY <3>1, <3>2, <3>3 DEF As
    <3>7. Skills!Emitted(rows)' \subseteq DOMAIN curator.loaded
      BY <3>1, <3>2
    <3> QED
      BY <2>6, <3>4, <3>5, <3>6, <3>7 DEF Came, As
  <2> QED
    BY <2>6, <2>7, <2>8, <2>9 DEF SkillInv
<1> QED
  BY <1>3, <1>4

LEMMA UpdatesKeeps ==
  ASSUME SkillInv, Skills!CuratorUpdates
  PROVE  SkillInv'
<1>1. curator.at = "updating" /\ UNCHANGED <<day, seeds, seeding, emitting>>
  BY DEF Skills!CuratorUpdates
<1>2. /\ DOMAIN curator.kept \subseteq DOMAIN curator.loaded /\ DOMAIN curator.loaded \subseteq 1..MaxRow
      /\ curator.doomed \in SUBSET (1..MaxRow) /\ curator.doomed \subseteq DOMAIN curator.kept
  BY <1>1 DEF SkillInv, KeptFits, Table, CuratorTyped
<1>3. CASE curator.doomed = {}
  <2>1. curator' = [curator EXCEPT !.at = "saved"] /\ rows' = rows
    BY <1>3 DEF Skills!CuratorUpdates
  <2>2. curator' = [curator EXCEPT !.at = "saved", !.doomed = curator.doomed]
    BY <2>1, CuratorRecord
  <2>3. "saved" \in Ats \ {"idle"}
    BY DEF Ats
  <2>4. /\ CuratorTyped' /\ KeptFits' /\ Covers(curator.loaded, curator.kept, day)'
        /\ curator'.at = "saved" /\ curator'.doomed = curator.doomed /\ curator'.kept = curator.kept
        /\ curator'.loaded = curator.loaded /\ curator'.quiet = curator.quiet
    BY <1>1, <1>2, <2>2, <2>3, CuratorMoves
  <2>5. QuietCame'
    <3> SUFFICES ASSUME curator.quiet PROVE Came'
      BY <2>4 DEF QuietCame
    <3>1. /\ Skills!Emitted(rows) = DOMAIN curator.kept
          /\ \A i \in DOMAIN curator.kept : As(i, curator.kept)
      BY <1>1, <1>3 DEF SkillInv, QuietCame, Came
    <3>2. Skills!Emitted(rows)' = Skills!Emitted(rows)
      BY <2>1 DEF Skills!Emitted
    <3> QED
      BY <2>1, <2>4, <3>1, <3>2 DEF Came, As
  <2> QED
    BY <1>1, <2>1, <2>4, <2>5, IndexQuiet DEF SkillInv
<1>4. CASE curator.doomed # {}
  <2> DEFINE x == Skills!Min(curator.doomed)
             rest == curator.doomed \ {x}
  <2>1. /\ rows' = IF x \in DOMAIN rows THEN [rows EXCEPT ![x].conf = curator.kept[x].conf] ELSE rows
        /\ curator' = [curator EXCEPT !.doomed = rest]
    BY <1>1, <1>4 DEF Skills!CuratorUpdates
  <2>2. x \in curator.doomed
    BY <1>4, DoomedIs
  <2> HIDE DEF x
  <2>3. curator' = [curator EXCEPT !.at = "updating", !.doomed = rest]
    BY <1>1, <2>1, CuratorRecord
  <2>4. rest \in SUBSET (1..MaxRow) /\ "updating" \in Ats \ {"idle"} /\ rest \subseteq DOMAIN curator.kept
    BY <1>2 DEF Ats
  <2>5. rest = curator.doomed \ {x}
    OBVIOUS
  <2> HIDE DEF rest
  <2>6. /\ CuratorTyped' /\ KeptFits' /\ Covers(curator.loaded, curator.kept, day)'
        /\ curator'.at = "updating" /\ curator'.doomed = rest /\ curator'.kept = curator.kept
        /\ curator'.loaded = curator.loaded /\ curator'.quiet = curator.quiet
    BY <1>1, <2>3, <2>4, CuratorMoves
  <2>7. /\ DOMAIN rows' = DOMAIN rows /\ \A i \in DOMAIN rows : i # x => rows'[i] = rows[i]
        /\ x \in DOMAIN rows => rows'[x] = [rows[x] EXCEPT !.conf = curator.kept[x].conf]
    BY <2>1
  <2>8. curator.kept[x] \in Skills!Skill
    BY <1>2, <2>2 DEF SkillInv, KeptFits, Table
  <2>9. \A i \in DOMAIN rows : /\ rows'[i] \in Skills!Skill /\ rows'[i].used = rows[i].used
                               /\ rows'[i].name = rows[i].name /\ rows'[i].root = rows[i].root
    <3> SUFFICES ASSUME NEW i \in DOMAIN rows
                 PROVE  /\ rows'[i] \in Skills!Skill /\ rows'[i].used = rows[i].used
                        /\ rows'[i].name = rows[i].name /\ rows'[i].root = rows[i].root
      OBVIOUS
    <3>1. rows[i] \in Skills!Skill
      BY DEF SkillInv, SkillType, Table
    <3>2. CASE i # x
      BY <2>7, <3>1, <3>2
    <3>3. CASE i = x
      <4>1. rows'[i] = [rows[i] EXCEPT !.conf = curator.kept[x].conf]
        BY <2>7, <3>3
      <4>2. \A s, k \in Skills!Skill :
               /\ [s EXCEPT !.conf = k.conf] \in Skills!Skill
               /\ [s EXCEPT !.conf = k.conf].used = s.used
               /\ [s EXCEPT !.conf = k.conf].name = s.name
               /\ [s EXCEPT !.conf = k.conf].root = s.root
        BY DEF Skills!Skill
      <4> QED
        BY <2>8, <3>1, <4>1, <4>2
    <3> QED
      BY <3>2, <3>3
  <2>10. Table(rows', day) /\ Skills!OnePerName'
    <3>1. DOMAIN rows' = DOMAIN rows
      BY <2>7
    <3> QED
      BY <2>9, <3>1 DEF SkillInv, SkillType, Table, Skills!OnePerName
  <2>11. SkillType' /\ Unseeded' /\ Unemitted'
    BY <1>1, <2>7, <2>9, <2>10 DEF SkillInv, SkillType, Unseeded, Unemitted
  <2>12. QuietCame'
    <3> SUFFICES ASSUME curator.quiet PROVE Came'
      BY <2>6 DEF QuietCame
    <3>1. /\ Skills!Emitted(rows) = DOMAIN curator.kept
          /\ \A i \in curator.doomed : rows[i] = curator.loaded[i]
          /\ \A i \in DOMAIN curator.kept \ curator.doomed : rows[i] = curator.kept[i]
      BY <1>1 DEF SkillInv, QuietCame, Came, As
    <3>2. Skills!Emitted(rows)' = Skills!Emitted(rows)
      BY <2>7, <2>9 DEF Skills!Emitted
    <3>3. x \in DOMAIN curator.kept /\ x \in DOMAIN rows
      BY <1>2, <2>2, <3>1 DEF Skills!Emitted
    <3>4. rows'[x] = curator.kept[x]
      <4>1. curator.kept[x] = [curator.loaded[x] EXCEPT !.conf = curator.kept[x].conf]
        BY <3>3 DEF SkillInv, KeptFits
      <4>2. rows[x] = curator.loaded[x]
        BY <2>2, <3>1
      <4> QED
        BY <2>7, <3>3, <4>1, <4>2
    <3>5. \A i \in DOMAIN curator.kept : i \in DOMAIN rows
      BY <3>1 DEF Skills!Emitted
    <3>6. \A i \in rest : rows'[i] = curator.loaded[i]
      BY <1>2, <2>5, <2>7, <3>1, <3>5
    <3>7. \A i \in DOMAIN curator.kept \ rest : rows'[i] = curator.kept[i]
      BY <2>5, <2>7, <3>1, <3>4, <3>5
    <3> QED
      BY <2>6, <3>1, <3>2, <3>6, <3>7 DEF Came, As
  <2> QED
    BY <2>6, <2>10, <2>11, <2>12 DEF SkillInv
<1> QED
  BY <1>3, <1>4

LEMMA AuditKeeps ==
  ASSUME SkillInv, Skills!CuratorAudits
  PROVE  SkillInv'
<1>1. /\ curator' = [at |-> "idle", run |-> curator.run, loaded |-> <<>>, kept |-> <<>>, doomed |-> {},
                     quiet |-> TRUE]
      /\ UNCHANGED <<rows, day, seeds, seeding, emitting>>
  BY DEF Skills!CuratorAudits, Skills!Idle
<1>2. /\ curator'.at = "idle" /\ curator'.loaded = <<>> /\ curator'.kept = <<>> /\ curator'.doomed = {}
      /\ curator'.quiet = TRUE /\ DOMAIN curator'.loaded = {} /\ DOMAIN curator'.kept = {}
      /\ curator' = [at |-> curator'.at, run |-> curator'.run, loaded |-> curator'.loaded,
                     kept |-> curator'.kept, doomed |-> curator'.doomed, quiet |-> curator'.quiet]
      /\ <<>> = [i \in DOMAIN <<>> |-> <<>>[i]]
  BY <1>1
<1>3. CuratorTyped'
  BY <1>2 DEF CuratorTyped, Ats
<1>4. KeptFits'
  BY <1>2 DEF KeptFits, Table
<1>5. QuietCame' /\ Covers(curator.loaded, curator.kept, day)'
  BY <1>2 DEF QuietCame, Came, Covers
<1> QED
  BY <1>1, <1>3, <1>4, <1>5, IndexQuiet DEF SkillInv

LEMMA SkillStep ==
  ASSUME SkillInv, [Skills!Next]_skillVars
  PROVE  SkillInv'
<1>1. CASE Skills!Seed \/ Skills!SeedOne \/ Skills!Crash \/ Skills!Tick \/ Skills!EmitInsert
  BY <1>1, SeedKeeps, SeedOneKeeps, SkillCrashKeeps, SkillTickKeeps, EmitInsertKeeps
<1>2. ASSUME NEW n \in Names, Skills!Emit(n) PROVE SkillInv'
  BY <1>2, EmitKeeps
<1>3. CASE Skills!CuratorLoads \/ Skills!CuratorRescans
  BY <1>3, LoadsKeeps, RescanKeeps
<1>4. CASE Skills!CuratorDeletes \/ Skills!CuratorUpdates \/ Skills!CuratorAudits
  BY <1>4, DeletesKeeps, UpdatesKeeps, AuditKeeps
<1>5. CASE UNCHANGED skillVars
  <2>1. UNCHANGED <<rows, day, seeds, seeding, emitting, curator>>
    BY <1>5 DEF skillVars
  <2>2. RunKept'
    BY <2>1, RunQuiet
  <2> QED
    BY <2>1, <2>2, IndexQuiet DEF SkillInv, RunKept
<1> QED
  BY <1>1, <1>2, <1>3, <1>4, <1>5 DEF Skills!Next

LEMMA SkillInvShows == SkillInv => Skills!IndexSound
<1> SUFFICES ASSUME SkillInv PROVE Skills!IndexSound
  OBVIOUS
<1>1. Skills!OnePerName
  BY DEF SkillInv
<1>2. ASSUME curator.at = "saved", curator.quiet
      PROVE  [i \in Skills!Emitted(rows) |-> rows[i]] = curator.kept
  <2>1. /\ Skills!Emitted(rows) = DOMAIN curator.kept
        /\ \A i \in DOMAIN curator.kept : rows[i] = curator.kept[i]
    BY <1>2 DEF SkillInv, QuietCame, Came, As
  <2>2. curator.kept = [i \in DOMAIN curator.kept |-> curator.kept[i]]
    BY DEF SkillInv, KeptFits
  <2> QED
    BY <2>1, <2>2
<1> DEFINE judged == [i \in DOMAIN curator.loaded |-> Skills!Decayed(curator.loaded[i])]
<1>3. ASSUME NEW i \in DOMAIN judged, judged[i].conf >= 4
      PROVE  \E j \in DOMAIN curator.kept :
               /\ curator.kept[j].conf >= judged[i].conf
               /\ \E s \in DOMAIN judged : /\ <<judged[s].name, judged[i].name>> \in Similar
                                           /\ <<judged[s].name, judged[j].name>> \in Similar
  <2>1. \A k \in DOMAIN curator.loaded : /\ judged[k].name = curator.loaded[k].name
                                         /\ judged[k].conf = Faded(curator.loaded[k], day)
    <3>1. \A s \in Skills!Skill : /\ Skills!Decayed(s).name = s.name
                                  /\ Skills!Decayed(s).conf = Faded(s, day)
      BY DEF Skills!Skill, Skills!Decayed, Faded
    <3>2. \A k \in DOMAIN curator.loaded : curator.loaded[k] \in Skills!Skill
      BY DEF SkillInv, KeptFits, Table
    <3> QED
      BY <3>1, <3>2
  <2>2. DOMAIN judged = DOMAIN curator.loaded
    OBVIOUS
  <2> HIDE DEF judged
  <2>3. PICK j \in DOMAIN curator.kept : Stands(i, j, curator.loaded, curator.kept, day)
    BY <1>3, <2>1, <2>2 DEF SkillInv, Covers
  <2>4. j \in DOMAIN curator.loaded
    BY DEF SkillInv, KeptFits
  <2> QED
    BY <2>1, <2>2, <2>3, <2>4 DEF Stands
<1>4. Skills!QuietRunExact
  BY <1>2, <1>3 DEF Skills!QuietRunExact, Skills!Threshold
<1> QED
  BY <1>1, <1>4 DEF Skills!IndexSound

\* For any names, likeness of names, days, boots and curator runs: no two emitted skills and no
\* two SKILL.md skills have one name, whatever crashes and curator runs come between; and after
\* a curator run that was alone the emitted skills are those it kept, among them one for each it read.
THEOREM IndexIsSound == Spec => []IndexSound
<1>1. SkillInv /\ [Next]_vars => SkillInv'
  BY SkillMoves, SkillStep
<1>2. SkillInv => IndexSound
  BY SkillInvShows DEF IndexSound
<1> QED
  BY <1>1, <1>2, SkillInit, PTL DEF Spec

=============================================================================
