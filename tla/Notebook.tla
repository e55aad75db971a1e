------------------------------ MODULE Notebook ------------------------------
(***************************************************************************)
(* The notebook that the agent and the operator share                      *)
(* (operator_api/notes.py, tools/notes_tools.py, the Notes panel of        *)
(* apps/web).                                                              *)
(*                                                                         *)
(* It is one JSON file.  A console posts the whole of its copy, and the    *)
(* save runs in a worker thread; the agent's tools load, change and save   *)
(* on the server's loop.  Every save writes the same .json.tmp and renames *)
(* it.  A saver has a file open, not a name: another may have emptied,     *)
(* renamed or replaced it since.                                           *)
(***************************************************************************)
EXTENDS Integers, Sequences

CONSTANTS
  Consoles, Agent,
  Tabs, First,   \* names of tabs; the one of the default workspace
  Pieces,        \* what is written at a time
  MaxHistory,    \* _MAX_NOTE_HISTORY
  MaxVersion, MaxLength,   \* bounds on changes and on a text
  Absent, Empty, Torn      \* no file, an empty one, one that is no JSON

Savers == Consoles \union {Agent}
Texts == UNION {[1..n -> Pieces] : n \in 0..MaxLength}
Histories == UNION {[1..n -> Texts] : n \in 0..MaxHistory}
Tab == [text : Texts, write : BOOLEAN, history : Histories]
Blank == [text |-> <<>>, write |-> TRUE, history |-> <<>>]

Workspace == [version : 0..MaxVersion, tabs : UNION {[D -> Tab] : D \in SUBSET Tabs}]

NotebookAssumption ==
  /\ Agent \notin Consoles /\ First \in Tabs
  /\ {MaxHistory, MaxVersion, MaxLength} \subseteq Nat /\ MaxHistory > 0
  /\ Absent \notin {Empty, Torn} /\ {Absent, Empty, Torn} \cap Workspace = {}

(* create_default_workspace: one blank tab, version 0.                     *)
Default == [version |-> 0, tabs |-> [t \in {First} |-> Blank]]

VARIABLES
  file, tmp,    \* contents of workspace.json and workspace.json.tmp
  view, dirty,  \* a console's copy, and that it has an edit it did not save
  op,           \* what a saver is doing
  posted,       \* history: the tabs of the last console save and who may write them
  held,         \* history: texts a tab had before each agent write since then
  mixed         \* history: operations overlapped since a console save that ran alone
                \* (posted and held then tell nothing)

vars == <<file, tmp, view, dirty, op, posted, held, mixed>>

Idle == [pc |-> "idle"]
Nothing == [t \in Tabs |-> <<>>]
Shares(ws) == [t \in DOMAIN ws.tabs |-> ws.tabs[t].write]
IsWorkspace(f) == f \notin {Absent, Empty, Torn}

TypeOK ==
  /\ \A f \in {file, tmp} : IsWorkspace(f) => \A t \in DOMAIN f.tabs : f.tabs[t] \in Tab
  /\ \A c \in Consoles : view[c].version \in 0..MaxVersion /\ dirty[c] \in BOOLEAN
  /\ \A p \in Savers : op[p].pc \in {"idle", "loaded", "open", "written"}
  /\ mixed \in BOOLEAN

Init ==
  /\ file = Absent /\ tmp = Absent
  /\ view = [c \in Consoles |-> Default] /\ dirty = [c \in Consoles |-> FALSE]
  /\ op = [p \in Savers |-> Idle]
  /\ posted = Shares(Default) /\ held = Nothing /\ mixed = FALSE
-----------------------------------------------------------------------------
(* The file.                                                               *)

(* load_workspace: whatever cannot be read is a new workspace.             *)
Loaded == IF IsWorkspace(file) THEN file ELSE Default

(* An operation begins, and those under way are alone no more; "then" is   *)
(* what the history variable held is to be when it is done.                *)
Begin(p, pc, ws, then) ==
  op' = [q \in Savers |->
           IF q = p THEN [pc |-> pc, ws |-> ws, at |-> "tmp", then |-> then,
                          alone |-> \A r \in Savers : op[r] = Idle]
           ELSE IF op[q] = Idle THEN Idle ELSE [op[q] EXCEPT !.alone = FALSE]]

(* save_workspace opens the .tmp, which empties it, writes it from the     *)
(* start, over what another wrote, whose end may stay behind, ...          *)
Over(old, new) == IF old = Empty THEN {new} ELSE {new, Torn}
WriteTmp(p) ==
  /\ op[p].pc = "open"
  /\ \/ op[p].at = "tmp" /\ tmp' \in Over(tmp, op[p].ws) /\ UNCHANGED file
     \/ op[p].at = "file" /\ file' \in Over(file, op[p].ws) /\ UNCHANGED tmp
     \/ op[p].at = "gone" /\ UNCHANGED <<file, tmp>>
  /\ op' = [op EXCEPT ![p].pc = "written"]
  /\ UNCHANGED <<view, dirty, posted, held, mixed>>

(* ... and renames what now has the name .tmp.  A console save that met no *)
(* other operation starts the ledger anew.                                 *)
Replace(p) ==
  /\ op[p].pc = "written" /\ tmp # Absent
  /\ file' = tmp /\ tmp' = Absent
  /\ op' = [q \in Savers |->
              IF q = p THEN Idle
              ELSE IF op[q].pc \notin {"open", "written"} THEN op[q]
              ELSE [op[q] EXCEPT !.at = IF @ = "tmp" THEN "file" ELSE "gone"]]
  /\ dirty' = [c \in Consoles |-> dirty[c] /\ c # p]
  /\ mixed' = (~op[p].alone \/ (mixed /\ p = Agent))
  /\ posted' = IF mixed' THEN Shares(Default) ELSE IF p = Agent THEN posted ELSE Shares(op[p].ws)
  /\ held' = IF mixed' THEN Nothing ELSE op[p].then
  /\ UNCHANGED view

(* A write that fails, or a rename that finds no .tmp, ends the operation: *)
(* the agent is told, the console keeps its edit for the next attempt.     *)
SaveFails(p) ==
  /\ \/ op[p].pc \in {"loaded", "open"}
     \/ op[p].pc = "written" /\ tmp = Absent
  /\ op' = [op EXCEPT ![p] = Idle]
  /\ UNCHANGED <<file, tmp, view, dirty, posted, held, mixed>>

(* The server dies.  What it leaves of a .tmp is never read: the next save *)
(* empties it.                                                             *)
Crash ==
  /\ op' = [p \in Savers |-> Idle] /\ tmp' = Absent
  /\ UNCHANGED <<file, view, dirty, posted, held, mixed>>
-----------------------------------------------------------------------------
(* The agent's tools.  A tab that is not there or not agent-writable is    *)
(* left alone.                                                             *)

Least(m, n) == IF m < n THEN m ELSE n
Suffix(s, n) == SubSeq(s, Len(s) - n + 1, Len(s))
ButLast(s, n) == SubSeq(s, 1, Len(s) - Least(n, Len(s)))
With(ws, t, tab) == [version |-> ws.version + 1, tabs |-> [ws.tabs EXCEPT ![t] = tab]]
Writable(t) == t \in DOMAIN Loaded.tabs /\ Loaded.tabs[t].write /\ Loaded.version < MaxVersion

\* Mutation: a full history takes no more.
PushedBug(tab) ==
  LET h == Append(tab.history, tab.text)
  IN SubSeq(h, 1, Least(MaxHistory, Len(h)))

(* _push_history: the newest MaxHistory.                                   *)
Pushed(tab) ==
  LET h == Append(tab.history, tab.text)
  IN Suffix(h, Least(MaxHistory, Len(h)))

NotesWrite(t) ==
  /\ op[Agent] = Idle /\ Writable(t)
  /\ LET tab == Loaded.tabs[t] IN
     \E piece \in Pieces : \E text \in {<<piece>>, Append(tab.text, piece)} \cap Texts :
       Begin(Agent, "loaded",
             With(Loaded, t, [tab EXCEPT !.text = text, !.history = Pushed(tab)]),
             [held EXCEPT ![t] = Append(@, tab.text)])
  /\ UNCHANGED <<file, tmp, view, dirty, posted, held, mixed>>

(* steps is cut to what the history has; the versions rolled past go.      *)
NotesRevert(t) ==
  /\ op[Agent] = Idle /\ Writable(t)
  /\ LET tab == Loaded.tabs[t]
         n == Len(tab.history) IN
     \E steps \in 1..n :
       Begin(Agent, "loaded",
             With(Loaded, t, [tab EXCEPT !.text = tab.history[n - steps + 1],
                                         !.history = ButLast(@, steps)]),
             [held EXCEPT ![t] = ButLast(@, steps)])
  /\ UNCHANGED <<file, tmp, view, dirty, posted, held, mixed>>

AgentSave ==
  /\ op[Agent].pc = "loaded"
  /\ tmp' = Empty /\ op' = [op EXCEPT ![Agent].pc = "open"]
  /\ UNCHANGED <<file, view, dirty, posted, held, mixed>>
-----------------------------------------------------------------------------
(* The Notes panel.                                                        *)

(* The page is loaded; later a poll adopts what is newer, but never over   *)
(* an edit that is not saved.                                              *)
Fetch(c) ==
  /\ op[c] = Idle
  /\ \/ dirty' = [dirty EXCEPT ![c] = FALSE]
     \/ ~dirty[c] /\ Loaded.version > view[c].version /\ UNCHANGED dirty
  /\ view' = [view EXCEPT ![c] = Loaded]
  /\ UNCHANGED <<file, tmp, op, posted, held, mixed>>

Undone(tab) ==
  [tab EXCEPT !.text = tab.history[Len(tab.history)], !.history = ButLast(@, 1)]

Retyped(ws) ==
  {With(ws, t, [ws.tabs[t] EXCEPT !.text = text]) : t \in DOMAIN ws.tabs, text \in Texts}
Toggled(ws) == {With(ws, t, [ws.tabs[t] EXCEPT !.write = ~@]) : t \in DOMAIN ws.tabs}
Reverted(ws) ==
  {With(ws, t, Undone(ws.tabs[t])) : t \in {u \in DOMAIN ws.tabs : ws.tabs[u].history # <<>>}}
Grown(ws) ==
  {[version |-> ws.version + 1,
    tabs |-> [u \in DOMAIN ws.tabs \union {t} |-> IF u = t THEN Blank ELSE ws.tabs[u]]] :
     t \in Tabs \ DOMAIN ws.tabs}
Shrunk(ws) ==
  {[version |-> ws.version + 1, tabs |-> [u \in DOMAIN ws.tabs \ {t} |-> ws.tabs[u]]] :
     t \in {u \in DOMAIN ws.tabs : DOMAIN ws.tabs # {u}}}

(* Typing, a permission, undo, a new note, a deleted one.                  *)
Edit(c) ==
  /\ view[c].version < MaxVersion
  /\ \E ws \in Retyped(view[c]) \union Toggled(view[c]) \union Reverted(view[c])
               \union Grown(view[c]) \union Shrunk(view[c]) :
       view' = [view EXCEPT ![c] = ws]
  /\ dirty' = [dirty EXCEPT ![c] = TRUE]
  /\ UNCHANGED <<file, tmp, op, posted, held, mixed>>

(* The debounced save posts the whole copy; no version is compared.  It    *)
(* clears the mark, of an edit made meanwhile too (Replace).               *)
ConsoleSave(c) ==
  /\ op[c] = Idle /\ dirty[c]
  /\ tmp' = Empty
  /\ Begin(c, "open", view[c], Nothing)
  /\ UNCHANGED <<file, view, dirty, posted, held, mixed>>

Next ==
  \/ \E t \in Tabs : NotesWrite(t) \/ NotesRevert(t)
  \/ AgentSave \/ Crash
  \/ \E p \in Savers : WriteTmp(p) \/ Replace(p) \/ SaveFails(p)
  \/ \E c \in Consoles : Fetch(c) \/ Edit(c) \/ ConsoleSave(c)

Spec == Init /\ [][Next]_vars
-----------------------------------------------------------------------------
(* Unless saves overlapped, the notebook is whole, at every step and after *)
(* every crash; its tabs and permissions are the operator's last; and its  *)
(* undo leads back through the texts the agent's writes replaced since.    *)
NotesKept ==
  ~mixed =>
    /\ file \notin {Empty, Torn}
    /\ DOMAIN Loaded.tabs = DOMAIN posted
    /\ \A t \in DOMAIN posted :
         LET n == Least(Len(held[t]), Len(Loaded.tabs[t].history))
         IN /\ Loaded.tabs[t].write = posted[t]
            /\ Suffix(Loaded.tabs[t].history, n) = Suffix(held[t], n)
=============================================================================
