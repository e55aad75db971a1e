----------------------------- MODULE PluginHost -----------------------------
(***************************************************************************)
(* Plugins from git: graph/plugins/installer.py (install, uninstall, sync, *)
(* plugins.lock), plugin discovery and loading (loader.py, manifest.py),   *)
(* and the operator's plugins.enabled / disabled.                          *)
(*                                                                         *)
(* The command line and the server (on its event loop) run the installer    *)
(* side by side, either may be killed at any step, and nothing locks the   *)
(* files.  A repository is its id and the commit its branch is at.  What a *)
(* plugin registers, its configuration section and pip are left out.       *)
(***************************************************************************)
EXTENDS Naturals, FiniteSets

CONSTANTS
  Plugins,    \* ids of plugins that are in some repository
  Builtin,    \* those that are bundled
  SelfOn,     \* those whose manifest says enabled: true
  Commits,    \* commits of a repository
  Actors,     \* processes that run the installer
  Syncers,    \* those that run the command line, which alone has sync
  Switched,   \* plugins the operator turns on and off
  None

PluginAssumption ==
  /\ Builtin \subseteq Plugins /\ SelfOn \union Switched \subseteq Plugins
  /\ Syncers \subseteq Actors
  /\ None \notin Commits

VARIABLES
  code,       \* the live plugins directory: the commit of each plugin's code
  lock,       \* the entries of plugins.lock
  enabled,    \* plugins.enabled without plugins.disabled
  actor,      \* the installer runs
  \* History, read by the properties only.
  trusted,    \* plugins the operator enabled since they were last uninstalled
  broken      \* plugins an installer run of which was killed or overtaken

history == <<trusted, broken>>
vars == <<code, lock, enabled, actor, history>>

Entry == [id : Plugins, sha : Commits]
Idle == [pc |-> "idle", id |-> None, sha |-> None, copy |-> {}, todo |-> {}]

TypeOK ==
  /\ code \in [Plugins -> Commits \union {None}]
  /\ lock \subseteq Entry
  /\ enabled \union trusted \union broken \subseteq Plugins
  /\ \A a \in Actors :
       /\ actor[a].pc \in {"idle", "cleared", "moved", "record", "gone", "forget",
                           "unref", "sync"}
       /\ actor[a].copy \subseteq Entry /\ actor[a].todo \subseteq Entry

Init ==
  /\ code = [p \in Plugins |-> None]
  /\ lock = {} /\ enabled = {}
  /\ actor = [a \in Actors |-> Idle]
  /\ trusted = {} /\ broken = {}
-----------------------------------------------------------------------------
(* install *)

\* Between its first change and its last, a run owns nothing: others that work on the
\* same plugin, or rewrite the lock, meanwhile overtake it.
Busy(a) == actor[a].pc \notin {"idle", "sync"}
OvertakenBy(a, p) ==
  LET others == {b \in Actors \ {a} : Busy(b)}
  IN IF others = {} THEN {} ELSE {p} \union {actor[b].id : b \in others}
Overtaken(a) == OvertakenBy(a, actor[a].id)

Set(a, r) == actor' = [actor EXCEPT ![a] = r]
To(a, pc) == Set(a, [actor[a] EXCEPT !.pc = pc])

\* A run ends; one of a sync goes on with the next entry.
After(a) == [Idle EXCEPT !.pc = IF actor[a].todo = {} THEN "idle" ELSE "sync",
                         !.todo = actor[a].todo]

\* The run may bring a broken plugin back in order, if nothing comes in between.
Begins(a, p) == broken' = (broken \ {p}) \union OvertakenBy(a, p)

\* The repository is cloned into a temporary directory. A bundled id, or one that is
\* there without --force, is then refused; else what is there goes.
Install(a, p, c) ==
  /\ actor[a].pc = "idle" /\ p \notin Builtin
  /\ Set(a, [Idle EXCEPT !.pc = "cleared", !.id = p, !.sha = c])
  /\ code' = [code EXCEPT ![p] = None]
  /\ Begins(a, p)
  /\ UNCHANGED <<lock, enabled, trusted>>

\* shutil.move: into the directory, if another run has put one there.
Move(a) ==
  LET p == actor[a].id
  IN /\ actor[a].pc = "cleared"
     /\ code' = IF code[p] = None THEN [code EXCEPT ![p] = actor[a].sha] ELSE code
     /\ To(a, "moved")
     /\ broken' = broken \union Overtaken(a)
     /\ UNCHANGED <<lock, enabled, trusted>>

ReadLock(a) ==
  /\ actor[a].pc \in {"moved", "gone"}
  /\ Set(a, [actor[a] EXCEPT !.pc = IF @ = "moved" THEN "record" ELSE "forget", !.copy = lock])
  /\ broken' = broken \union Overtaken(a)
  /\ UNCHANGED <<code, lock, enabled, trusted>>

\* Mutation: the plugin's old entry stays.
RecordBug(a) ==
  /\ actor[a].pc = "record"
  /\ lock' = actor[a].copy \union {[id |-> actor[a].id, sha |-> actor[a].sha]}
  /\ Set(a, After(a))
  /\ broken' = broken \union Overtaken(a)
  /\ UNCHANGED <<code, enabled, trusted>>

\* The lock is written as it was read, with the plugin's entry replaced.
Record(a) ==
  /\ actor[a].pc = "record"
  /\ lock' = {e \in actor[a].copy : e.id # actor[a].id}
               \union {[id |-> actor[a].id, sha |-> actor[a].sha]}
  /\ Set(a, After(a))
  /\ broken' = broken \union Overtaken(a)
  /\ UNCHANGED <<code, enabled, trusted>>
-----------------------------------------------------------------------------
(* uninstall *)

Remove(a, p) ==
  /\ actor[a].pc = "idle" /\ p \notin Builtin
  /\ code' = [code EXCEPT ![p] = None]
  /\ Set(a, [Idle EXCEPT !.pc = "gone", !.id = p])
  /\ Begins(a, p)
  /\ UNCHANGED <<lock, enabled, trusted>>

Forget(a) ==
  LET kept == {e \in actor[a].copy : e.id # actor[a].id}
  IN /\ actor[a].pc = "forget"
     /\ lock' = IF kept = actor[a].copy THEN lock ELSE kept
     /\ To(a, "unref")
     /\ broken' = broken \union Overtaken(a)
     /\ UNCHANGED <<code, enabled, trusted>>

\* Its entries in plugins.enabled and plugins.disabled go always.
Unref(a) ==
  LET p == actor[a].id
  IN /\ actor[a].pc = "unref"
     /\ enabled' = enabled \ {p}
     /\ Set(a, Idle)
     /\ trusted' = trusted \ {p}
     /\ broken' = broken \union Overtaken(a)
     /\ UNCHANGED <<code, lock>>
-----------------------------------------------------------------------------
(* sync *)

\* The entries whose code is missing are fetched at their commit, one by one.
Sync(a) ==
  /\ a \in Syncers /\ actor[a].pc = "idle" /\ lock # {}
  /\ Set(a, [Idle EXCEPT !.pc = "sync", !.todo = lock])
  /\ UNCHANGED <<code, lock, enabled, history>>

SyncNext(a, e) ==
  /\ actor[a].pc = "sync" /\ e \in actor[a].todo
  /\ Set(a, LET rest == actor[a].todo \ {e}
            IN [Idle EXCEPT !.pc = IF rest = {} THEN "idle" ELSE "sync", !.todo = rest])
  /\ UNCHANGED <<code, lock, enabled, history>>

SyncFetch(a, e) ==
  /\ actor[a].pc = "sync" /\ e \in actor[a].todo /\ code[e.id] = None
  /\ Set(a, [actor[a] EXCEPT !.pc = "cleared", !.id = e.id, !.sha = e.sha, !.todo = @ \ {e}])
  /\ Begins(a, e.id)
  /\ UNCHANGED <<code, lock, enabled, trusted>>

\* The run is killed, or a file operation raises: it leaves things as they are.
Fail(a) ==
  /\ Busy(a)
  /\ Set(a, Idle)
  /\ broken' = broken \union {actor[a].id} \union Overtaken(a)
  /\ UNCHANGED <<code, lock, enabled, trusted>>
-----------------------------------------------------------------------------
(* The operator, and the loader *)

\* In plugins.enabled and not in plugins.disabled.
Enable(p) ==
  /\ p \notin enabled
  /\ enabled' = enabled \union {p} /\ trusted' = trusted \union {p}
  /\ UNCHANGED <<code, lock, actor, broken>>

Disable(p) ==
  /\ p \in enabled
  /\ enabled' = enabled \ {p}
  /\ UNCHANGED <<code, lock, actor, history>>

\* What load_plugins imports at the next start.
Discovered == Builtin \union {p \in Plugins : code[p] # None}
Active == {p \in Discovered : p \in SelfOn \union enabled}
-----------------------------------------------------------------------------
Next ==
  \/ \E a \in Actors :
       \/ Move(a) \/ ReadLock(a) \/ Record(a) \/ Forget(a) \/ Unref(a)
       \/ Sync(a) \/ Fail(a)
       \/ \E p \in Plugins : Remove(a, p)
       \/ \E p \in Plugins, c \in Commits : Install(a, p, c)
       \/ \E e \in Entry : SyncNext(a, e) \/ SyncFetch(a, e)
  \/ \E p \in Switched : Enable(p) \/ Disable(p)

Spec == Init /\ [][Next]_vars
-----------------------------------------------------------------------------
(* Safety *)

AtWork(p) == \E a \in Actors : Busy(a) /\ actor[a].id = p

\* Code and lock agree on every plugin: what is there is at the commit of its one
\* entry, and every entry's code is there; unless a run of it is under way, was
\* killed, or was overtaken by another run.
LockAgrees ==
  \A p \in Plugins \ broken : ~AtWork(p) =>
    {e \in lock : e.id = p}
      = IF code[p] = None THEN {} ELSE {[id |-> p, sha |-> code[p]]}

\* Installing is not enabling: the server runs only what the operator enabled after
\* it was last uninstalled, what its author enabled, and what it had imported before.
EnabledByHand == Active \subseteq trusted \union SelfOn

\* No plugin from a repository hides a bundled one.
NoShadow == \A p \in Builtin : code[p] = None

PluginsSound == LockAgrees /\ EnabledByHand /\ NoShadow
=============================================================================
