--------------------------- MODULE NotebookProofs ---------------------------
(* What the notebook keeps, for any number of consoles, tabs and versions. *)
EXTENDS Notebook, TLAPS

Op == [pc : {"loaded", "open", "written"}, ws : Workspace, at : {"tmp", "file", "gone"},
       then : [Tabs -> Seq(Texts)], alone : BOOLEAN]

Types ==
  /\ file \in {Absent, Empty, Torn} \union Workspace
  /\ tmp \in {Absent, Empty, Torn} \union Workspace
  /\ view \in [Consoles -> Workspace] /\ dirty \in [Consoles -> BOOLEAN]
  /\ op \in [Savers -> {Idle} \union Op]
  /\ posted \in UNION {[D -> BOOLEAN] : D \in SUBSET Tabs}
  /\ held \in [Tabs -> Seq(Texts)] /\ mixed \in BOOLEAN

\* An operation that met no other has the .tmp to itself.
AloneHolds ==
  \A p \in Savers : op[p] # Idle =>
    /\ op[p].pc = "loaded" => op[p].at = "tmp"
    /\ op[p].alone =>
         /\ \A q \in Savers : q # p => op[q] = Idle
         /\ op[p].at = "tmp"
         /\ op[p].pc = "open" => tmp = Empty
         /\ op[p].pc = "written" => tmp = op[p].ws

EndsAgree(s, r) ==
  LET n == Least(Len(r), Len(s)) IN Suffix(s, n) = Suffix(r, n)
Agree(ws, shares, texts) ==
  /\ DOMAIN ws.tabs = DOMAIN shares
  /\ \A t \in DOMAIN shares : /\ ws.tabs[t].write = shares[t]
                              /\ EndsAgree(ws.tabs[t].history, texts[t])

FileAgrees == file \notin {Empty, Torn} /\ Agree(Loaded, posted, held)
SaversAtTmp == \A p \in Savers : op[p] # Idle => op[p].at = "tmp"
AgentAgrees == op[Agent] # Idle /\ op[Agent].alone => Agree(op[Agent].ws, posted, op[Agent].then)
Kept == ~mixed => FileAgrees /\ SaversAtTmp /\ AgentAgrees
ConsolesStartAnew == \A c \in Consoles : op[c] # Idle => op[c].then = Nothing

NotesInv == Types /\ AloneHolds /\ Kept /\ ConsolesStartAnew

-----------------------------------------------------------------------------
(* Texts and histories. *)

LEMMA TextFacts ==
  ASSUME NotebookAssumption
  PROVE  /\ <<>> \in Texts /\ <<>> \in Histories
         /\ Histories \subseteq Seq(Texts)
         /\ \A h \in Histories : Len(h) <= MaxHistory
<1> USE DEF NotebookAssumption
<1>1. <<>> \in Texts
  <2>1. <<>> \in [1..0 -> Pieces] /\ 0 \in 0..MaxLength
    OBVIOUS
  <2> QED
    BY <2>1 DEF Texts
<1>2. <<>> \in Histories
  <2>1. <<>> \in [1..0 -> Texts] /\ 0 \in 0..MaxHistory
    OBVIOUS
  <2> QED
    BY <2>1 DEF Histories
<1>3. ASSUME NEW h \in Histories PROVE h \in Seq(Texts) /\ Len(h) <= MaxHistory
  <2>1. PICK n \in 0..MaxHistory : h \in [1..n -> Texts]
    BY DEF Histories
  <2>2. h \in Seq(Texts) /\ Len(h) = n
    BY <2>1
  <2> QED
    BY <2>2
<1> QED
  BY <1>1, <1>2, <1>3

LEMMA HistoryIs ==
  ASSUME NEW h \in Seq(Texts), Len(h) <= MaxHistory, NotebookAssumption
  PROVE  h \in Histories
<1>1. h \in [1..Len(h) -> Texts] /\ Len(h) \in 0..MaxHistory
  BY DEF NotebookAssumption
<1> QED
  BY <1>1 DEF Histories

LEMMA SuffixAt ==
  ASSUME NEW S, NEW s \in Seq(S), NEW n \in 0..Len(s)
  PROVE  /\ Suffix(s, n) \in Seq(S) /\ Len(Suffix(s, n)) = n
         /\ \A i \in 1..n : Suffix(s, n)[i] = s[Len(s) - n + i]
<1> DEFINE m == Len(s)
<1>1. m \in Nat /\ n \in 0..m
  OBVIOUS
<1>2. \A k \in (m - n + 1)..m : k \in 1..m
  BY <1>1
<1>3. /\ Suffix(s, n) \in Seq(S)
      /\ Len(Suffix(s, n)) = IF m - n + 1 <= m THEN m - (m - n + 1) + 1 ELSE 0
  BY <1>1, <1>2 DEF Suffix
<1>4. Len(Suffix(s, n)) = n
  BY <1>1, <1>3
<1>5. ASSUME NEW i \in 1..n PROVE Suffix(s, n)[i] = s[m - n + i]
  <2>1. i \in 1..(m + 1 - (m - n + 1)) /\ (m - n + 1) + i - 1 = m - n + i
    BY <1>1
  <2> QED
    BY <1>1, <1>2, <2>1 DEF Suffix
<1> QED
  BY <1>3, <1>4, <1>5

LEMMA ButLastAt ==
  ASSUME NEW S, NEW s \in Seq(S), NEW n \in Nat
  PROVE  /\ ButLast(s, n) \in Seq(S)
         /\ Len(ButLast(s, n)) = IF n < Len(s) THEN Len(s) - n ELSE 0
         /\ \A i \in 1..Len(ButLast(s, n)) : ButLast(s, n)[i] = s[i]
<1> DEFINE m == Len(s) - Least(n, Len(s))
<1>1. m \in 0..Len(s) /\ m = IF n < Len(s) THEN Len(s) - n ELSE 0
  BY DEF Least
<1>2. ButLast(s, n) = SubSeq(s, 1, m)
  BY DEF ButLast
<1>3. \A k \in 1..m : k \in 1..Len(s)
  BY <1>1
<1>4. SubSeq(s, 1, m) \in Seq(S) /\ Len(SubSeq(s, 1, m)) = m
  BY <1>1, <1>3
<1>5. \A i \in 1..m : SubSeq(s, 1, m)[i] = s[i]
  BY <1>1, <1>3
<1> QED
  BY <1>1, <1>2, <1>4, <1>5

\* EndsAgree, place by place from the end.
LEMMA EndsAgreeIff ==
  ASSUME NEW s \in Seq(Texts), NEW r \in Seq(Texts)
  PROVE  EndsAgree(s, r) <=>
           \A i \in Nat : 1 <= i /\ i <= Len(s) /\ i <= Len(r) => s[Len(s) + 1 - i] = r[Len(r) + 1 - i]
<1> DEFINE n == Least(Len(r), Len(s))
<1>1. n \in 0..Len(s) /\ n \in 0..Len(r) /\ (n = Len(s) \/ n = Len(r))
  BY DEF Least
<1>2. /\ Suffix(s, n) \in Seq(Texts) /\ Len(Suffix(s, n)) = n
      /\ \A i \in 1..n : Suffix(s, n)[i] = s[Len(s) - n + i]
  BY <1>1, SuffixAt
<1>3. /\ Suffix(r, n) \in Seq(Texts) /\ Len(Suffix(r, n)) = n
      /\ \A i \in 1..n : Suffix(r, n)[i] = r[Len(r) - n + i]
  BY <1>1, SuffixAt
<1>4. EndsAgree(s, r) <=> Suffix(s, n) = Suffix(r, n)
  BY DEF EndsAgree
<1>5. Suffix(s, n) = Suffix(r, n) <=> \A i \in 1..n : Suffix(s, n)[i] = Suffix(r, n)[i]
  BY <1>2, <1>3
<1>6. Suffix(s, n) = Suffix(r, n) <=> \A i \in 1..n : s[Len(s) - n + i] = r[Len(r) - n + i]
  BY <1>2, <1>3, <1>5
<1> HIDE DEF n
<1>7. ASSUME \A i \in 1..n : s[Len(s) - n + i] = r[Len(r) - n + i],
             NEW i \in Nat, 1 <= i, i <= Len(s), i <= Len(r)
      PROVE  s[Len(s) + 1 - i] = r[Len(r) + 1 - i]
  <2>1. n + 1 - i \in 1..n
    BY <1>1, <1>7
  <2>2. s[Len(s) - n + (n + 1 - i)] = r[Len(r) - n + (n + 1 - i)]
    BY <1>7, <2>1
  <2> QED
    BY <1>1, <2>2
<1>8. ASSUME \A i \in Nat : 1 <= i /\ i <= Len(s) /\ i <= Len(r)
                              => s[Len(s) + 1 - i] = r[Len(r) + 1 - i],
             NEW i \in 1..n
      PROVE  s[Len(s) - n + i] = r[Len(r) - n + i]
  <2>1. n + 1 - i \in Nat /\ 1 <= n + 1 - i /\ n + 1 - i <= Len(s) /\ n + 1 - i <= Len(r)
    BY <1>1
  <2>2. s[Len(s) + 1 - (n + 1 - i)] = r[Len(r) + 1 - (n + 1 - i)]
    BY <1>8, <2>1
  <2> QED
    BY <1>1, <2>2
<1> QED
  BY <1>4, <1>6, <1>7, <1>8

\* A write puts the same text on both, a revert takes as many from both.
LEMMA EndsStayWritten ==
  ASSUME NEW s \in Seq(Texts), NEW r \in Seq(Texts), NEW x \in Texts, EndsAgree(s, r),
         NotebookAssumption
  PROVE  EndsAgree(Suffix(Append(s, x), Least(MaxHistory, Len(Append(s, x)))), Append(r, x))
<1> DEFINE a == Append(s, x)
           m == Least(MaxHistory, Len(a))
           b == Append(r, x)
<1>1. /\ a \in Seq(Texts) /\ Len(a) = Len(s) + 1 /\ a[Len(s) + 1] = x
      /\ \A i \in 1..Len(s) : a[i] = s[i]
  OBVIOUS
<1>2. /\ b \in Seq(Texts) /\ Len(b) = Len(r) + 1 /\ b[Len(r) + 1] = x
      /\ \A i \in 1..Len(r) : b[i] = r[i]
  OBVIOUS
<1> HIDE DEF a, b
<1>3. m \in 0..Len(a)
  BY <1>1 DEF Least, NotebookAssumption
<1> HIDE DEF m
<1>4. /\ Suffix(a, m) \in Seq(Texts) /\ Len(Suffix(a, m)) = m
      /\ \A i \in 1..m : Suffix(a, m)[i] = a[Len(a) - m + i]
  BY <1>1, <1>3, SuffixAt
<1>5. ASSUME NEW i \in Nat, 1 <= i, i <= m, i <= Len(b)
      PROVE  Suffix(a, m)[m + 1 - i] = b[Len(b) + 1 - i]
  <2>1. m + 1 - i \in 1..m /\ Len(a) - m + (m + 1 - i) = Len(a) + 1 - i
    BY <1>1, <1>3, <1>5
  <2>2. Suffix(a, m)[m + 1 - i] = a[Len(a) + 1 - i]
    BY <1>4, <2>1
  <2>3. CASE i = 1
    BY <1>1, <1>2, <2>2, <2>3
  <2>4. CASE i # 1
    <3> DEFINE k == i - 1
    <3>1. k \in Nat /\ 1 <= k /\ k <= Len(s) /\ k <= Len(r)
      BY <1>1, <1>2, <1>3, <1>5, <2>4
    <3>2. s[Len(s) + 1 - k] = r[Len(r) + 1 - k]
      BY <3>1, EndsAgreeIff
    <3>3. Len(s) + 1 - k \in 1..Len(s) /\ Len(r) + 1 - k \in 1..Len(r)
      BY <3>1
    <3>4. Len(a) + 1 - i = Len(s) + 1 - k /\ Len(b) + 1 - i = Len(r) + 1 - k
      BY <1>1, <1>2, <3>1
    <3> QED
      BY <1>1, <1>2, <2>2, <3>2, <3>3, <3>4
  <2> QED
    BY <2>3, <2>4
<1>6. EndsAgree(Suffix(a, m), b)
  BY <1>2, <1>4, <1>5, EndsAgreeIff
<1> QED
  BY <1>6 DEF a, b, m

LEMMA EndsStayReverted ==
  ASSUME NEW s \in Seq(Texts), NEW r \in Seq(Texts), NEW n \in Nat, EndsAgree(s, r)
  PROVE  EndsAgree(ButLast(s, n), ButLast(r, n))
<1> DEFINE a == ButLast(s, n)
           b == ButLast(r, n)
<1>1. /\ a \in Seq(Texts) /\ Len(a) = (IF n < Len(s) THEN Len(s) - n ELSE 0)
      /\ \A i \in 1..Len(a) : a[i] = s[i]
  BY ButLastAt
<1>2. /\ b \in Seq(Texts) /\ Len(b) = (IF n < Len(r) THEN Len(r) - n ELSE 0)
      /\ \A i \in 1..Len(b) : b[i] = r[i]
  BY ButLastAt
<1> HIDE DEF a, b
<1>3. ASSUME NEW i \in Nat, 1 <= i, i <= Len(a), i <= Len(b)
      PROVE  a[Len(a) + 1 - i] = b[Len(b) + 1 - i]
  <2>1. Len(a) = Len(s) - n /\ Len(b) = Len(r) - n
    BY <1>1, <1>2, <1>3
  <2>2. i + n \in Nat /\ 1 <= i + n /\ i + n <= Len(s) /\ i + n <= Len(r)
    BY <1>3, <2>1
  <2>3. s[Len(s) + 1 - (i + n)] = r[Len(r) + 1 - (i + n)]
    BY <2>2, EndsAgreeIff
  <2>4. Len(a) + 1 - i \in 1..Len(a) /\ Len(b) + 1 - i \in 1..Len(b)
    BY <1>1, <1>2, <1>3
  <2>5. Len(a) + 1 - i = Len(s) + 1 - (i + n) /\ Len(b) + 1 - i = Len(r) + 1 - (i + n)
    BY <2>1
  <2> QED
    BY <1>1, <1>2, <2>3, <2>4, <2>5
<1>4. EndsAgree(a, b)
  BY <1>1, <1>2, <1>3, EndsAgreeIff
<1> QED
  BY <1>4 DEF a, b

-----------------------------------------------------------------------------
(* Workspaces. *)

LEMMA WorkspaceIs ==
  ASSUME NEW v \in 0..MaxVersion, NEW D \in SUBSET Tabs, NEW f \in [D -> Tab]
  PROVE  [version |-> v, tabs |-> f] \in Workspace
  BY DEF Workspace

LEMMA WorkspaceHas ==
  ASSUME NEW ws \in Workspace
  PROVE  /\ ws.version \in 0..MaxVersion /\ ws.tabs \in [DOMAIN ws.tabs -> Tab]
         /\ DOMAIN ws.tabs \subseteq Tabs
         /\ ws = [version |-> ws.version, tabs |-> ws.tabs]
  BY DEF Workspace

LEMMA TabHas ==
  ASSUME NEW tab \in Tab, NotebookAssumption
  PROVE  /\ tab.text \in Texts /\ tab.write \in BOOLEAN /\ tab.history \in Seq(Texts)
         /\ Len(tab.history) <= MaxHistory
  BY TextFacts DEF Tab

LEMMA DefaultIsWorkspace ==
  ASSUME NotebookAssumption
  PROVE  /\ Default \in Workspace /\ Blank \in Tab
         /\ Default.tabs[First] = Blank /\ DOMAIN Default.tabs = {First}
<1>1. Blank \in Tab
  BY TextFacts DEF Blank, Tab
<1>2. [t \in {First} |-> Blank] \in [{First} -> Tab] /\ {First} \in SUBSET Tabs
  BY <1>1 DEF NotebookAssumption
<1>3. 0 \in 0..MaxVersion
  BY DEF NotebookAssumption
<1> QED
  BY <1>1, <1>2, <1>3, WorkspaceIs DEF Default

LEMMA LoadedIsWorkspace ==
  ASSUME NotebookAssumption, Types
  PROVE  Loaded \in Workspace
  BY DefaultIsWorkspace DEF Types, Loaded, IsWorkspace

LEMMA WithIsWorkspace ==
  ASSUME NEW ws \in Workspace, NEW t \in DOMAIN ws.tabs, NEW tab \in Tab,
         ws.version < MaxVersion, NotebookAssumption
  PROVE  /\ With(ws, t, tab) \in Workspace
         /\ DOMAIN With(ws, t, tab).tabs = DOMAIN ws.tabs
         /\ With(ws, t, tab).tabs[t] = tab
         /\ \A u \in DOMAIN ws.tabs : u # t => With(ws, t, tab).tabs[u] = ws.tabs[u]
<1> DEFINE f == [ws.tabs EXCEPT ![t] = tab]
<1>1. f \in [DOMAIN ws.tabs -> Tab] /\ DOMAIN ws.tabs \in SUBSET Tabs
  BY WorkspaceHas
<1>2. ws.version + 1 \in 0..MaxVersion
  BY WorkspaceHas DEF NotebookAssumption
<1>3. With(ws, t, tab) \in Workspace
  BY <1>1, <1>2, WorkspaceIs DEF With
<1>4. With(ws, t, tab).tabs = f
  BY DEF With
<1> QED
  BY <1>1, <1>3, <1>4, WorkspaceHas

LEMMA EditIsWorkspace ==
  ASSUME NEW ws \in Workspace, ws.version < MaxVersion, NotebookAssumption
  PROVE  Retyped(ws) \union Toggled(ws) \union Reverted(ws) \union Grown(ws) \union Shrunk(ws)
           \subseteq Workspace
<1>0. \A t \in DOMAIN ws.tabs : ws.tabs[t] \in Tab
  BY WorkspaceHas
<1>1. Retyped(ws) \subseteq Workspace
  <2> SUFFICES ASSUME NEW new \in Retyped(ws) PROVE new \in Workspace
    OBVIOUS
  <2>1. PICK t \in DOMAIN ws.tabs, text \in Texts :
          new = With(ws, t, [ws.tabs[t] EXCEPT !.text = text])
    BY DEF Retyped
  <2>2. [ws.tabs[t] EXCEPT !.text = text] \in Tab
    BY <1>0 DEF Tab
  <2> QED
    BY <2>1, <2>2, WithIsWorkspace
<1>2. Toggled(ws) \subseteq Workspace
  <2> SUFFICES ASSUME NEW t \in DOMAIN ws.tabs
               PROVE  With(ws, t, [ws.tabs[t] EXCEPT !.write = ~@]) \in Workspace
    BY DEF Toggled
  <2>1. [ws.tabs[t] EXCEPT !.write = ~@] \in Tab
    BY <1>0 DEF Tab
  <2> QED
    BY <2>1, WithIsWorkspace
<1>3. Reverted(ws) \subseteq Workspace
  <2> SUFFICES ASSUME NEW t \in DOMAIN ws.tabs, ws.tabs[t].history # <<>>
               PROVE  With(ws, t, Undone(ws.tabs[t])) \in Workspace
    BY DEF Reverted
  <2> DEFINE tab == ws.tabs[t]
             h == ButLast(tab.history, 1)
  <2>1. tab.history \in Seq(Texts) /\ Len(tab.history) <= MaxHistory /\ tab \in Tab
    BY <1>0, TabHas
  <2>2. h \in Seq(Texts) /\ Len(h) <= MaxHistory
    <3>1. h \in Seq(Texts) /\ Len(h) = IF 1 < Len(tab.history) THEN Len(tab.history) - 1 ELSE 0
      BY <2>1, ButLastAt
    <3> HIDE DEF h
    <3> QED
      BY <2>1, <3>1 DEF NotebookAssumption
  <2>3. h \in Histories
    BY <2>2, HistoryIs
  <2>4. tab.history[Len(tab.history)] \in Texts
    BY <2>1
  <2>5. Undone(tab) \in Tab
    BY <2>1, <2>3, <2>4 DEF Undone, Tab
  <2> QED
    BY <2>5, WithIsWorkspace
<1>4. ws.version + 1 \in 0..MaxVersion
  BY WorkspaceHas DEF NotebookAssumption
<1>5. Grown(ws) \subseteq Workspace
  <2> SUFFICES ASSUME NEW t \in Tabs \ DOMAIN ws.tabs
               PROVE  [version |-> ws.version + 1,
                       tabs |-> [u \in DOMAIN ws.tabs \union {t} |->
                                   IF u = t THEN Blank ELSE ws.tabs[u]]] \in Workspace
    BY DEF Grown
  <2>1. [u \in DOMAIN ws.tabs \union {t} |-> IF u = t THEN Blank ELSE ws.tabs[u]]
          \in [DOMAIN ws.tabs \union {t} -> Tab]
    BY <1>0, DefaultIsWorkspace
  <2>2. DOMAIN ws.tabs \union {t} \in SUBSET Tabs
    BY WorkspaceHas
  <2> QED
    BY <1>4, <2>1, <2>2, WorkspaceIs
<1>6. Shrunk(ws) \subseteq Workspace
  <2> SUFFICES ASSUME NEW t \in DOMAIN ws.tabs
               PROVE  [version |-> ws.version + 1,
                       tabs |-> [u \in DOMAIN ws.tabs \ {t} |-> ws.tabs[u]]] \in Workspace
    BY DEF Shrunk
  <2>1. [u \in DOMAIN ws.tabs \ {t} |-> ws.tabs[u]] \in [DOMAIN ws.tabs \ {t} -> Tab]
    BY <1>0
  <2>2. DOMAIN ws.tabs \ {t} \in SUBSET Tabs
    BY WorkspaceHas
  <2> QED
    BY <1>4, <2>1, <2>2, WorkspaceIs
<1> QED
  BY <1>1, <1>2, <1>3, <1>5, <1>6

-----------------------------------------------------------------------------
(* The invariant. *)

LEMMA NotesInvInit ==
  ASSUME NotebookAssumption, Init
  PROVE  NotesInv
<1> USE DEF Init
<1>1. Shares(Default) = [t \in {First} |-> TRUE]
  BY DEF Shares, Default, Blank
<1>2. Nothing \in [Tabs -> Seq(Texts)]
  BY DEF Nothing
<1>3. Types
  <2>1. Shares(Default) \in [{First} -> BOOLEAN] /\ {First} \in SUBSET Tabs
    BY <1>1 DEF NotebookAssumption
  <2> QED
    BY <1>2, <2>1, DefaultIsWorkspace DEF Types
<1>4. AloneHolds /\ ConsolesStartAnew /\ SaversAtTmp /\ AgentAgrees
  BY DEF AloneHolds, ConsolesStartAnew, SaversAtTmp, AgentAgrees, Savers
<1>5. FileAgrees
  <2>1. Loaded = Default
    BY DEF Loaded, IsWorkspace
  <2>2. EndsAgree(Blank.history, Nothing[First])
    <3>1. Blank.history = <<>> /\ Nothing[First] = <<>>
      BY DEF Blank, Nothing, NotebookAssumption
    <3> QED
      BY <3>1 DEF EndsAgree
  <2>3. Agree(Default, Shares(Default), Nothing)
    <3>1. DOMAIN Default.tabs = {First} /\ DOMAIN Shares(Default) = {First}
      BY <1>1, DefaultIsWorkspace
    <3>2. Default.tabs[First].write = Shares(Default)[First]
      <4>1. Blank.write = TRUE
        BY DEF Blank
      <4> QED
        BY <1>1, <4>1, DefaultIsWorkspace
    <3>3. EndsAgree(Default.tabs[First].history, Nothing[First])
      BY <2>2, DefaultIsWorkspace
    <3> QED
      BY <3>1, <3>2, <3>3 DEF Agree
  <2> QED
    BY <2>1, <2>3 DEF FileAgrees, NotebookAssumption
<1> QED
  BY <1>3, <1>4, <1>5 DEF NotesInv, Kept

LEMMA BeginStep ==
  ASSUME NotesInv, NEW p \in Savers, op[p] = Idle, NEW pc \in {"loaded", "open"},
         NEW ws \in Workspace, NEW then \in [Tabs -> Seq(Texts)], Begin(p, pc, ws, then)
  PROVE  /\ op' \in [Savers -> {Idle} \union Op]
         /\ op'[p] # Idle /\ op'[p].pc = pc /\ op'[p].ws = ws /\ op'[p].at = "tmp"
         /\ op'[p].then = then
         /\ op'[p].alone => \A q \in Savers : op[q] = Idle
         /\ \A q \in Savers : q # p /\ op'[q] # Idle =>
              /\ op[q] # Idle /\ ~op'[q].alone /\ op'[q].at = op[q].at
              /\ op'[q].pc = op[q].pc /\ op'[q].then = op[q].then
         /\ \A q \in Savers : op[q] = Idle /\ q # p => op'[q] = Idle
<1> DEFINE mine == [pc |-> pc, ws |-> ws, at |-> "tmp", then |-> then,
                    alone |-> \A r \in Savers : op[r] = Idle]
<1>1. op \in [Savers -> {Idle} \union Op]
  BY DEF NotesInv, Types
<1>2. op' = [q \in Savers |-> IF q = p THEN mine
                              ELSE IF op[q] = Idle THEN Idle ELSE [op[q] EXCEPT !.alone = FALSE]]
  BY DEF Begin
<1>3. mine \in Op /\ (mine.alone <=> \A r \in Savers : op[r] = Idle)
  BY DEF Op
<1>4. mine # Idle
  <2>1. mine.pc \in {"loaded", "open"} /\ Idle.pc = "idle"
    BY DEF Idle
  <2> QED
    BY <2>1
<1>5. ASSUME NEW q \in Savers, op[q] # Idle
      PROVE  /\ [op[q] EXCEPT !.alone = FALSE] \in Op
             /\ ~[op[q] EXCEPT !.alone = FALSE].alone
             /\ [op[q] EXCEPT !.alone = FALSE].at = op[q].at
             /\ [op[q] EXCEPT !.alone = FALSE].pc = op[q].pc
             /\ [op[q] EXCEPT !.alone = FALSE].then = op[q].then
  <2>1. op[q] \in Op
    BY <1>1, <1>5
  <2> QED
    BY <2>1 DEF Op
<1>6. op'[p] = mine
  BY <1>2
<1>7. \A q \in Savers : q # p => op'[q] = IF op[q] = Idle THEN Idle ELSE [op[q] EXCEPT !.alone = FALSE]
  BY <1>2
<1>8. op' \in [Savers -> {Idle} \union Op]
  BY <1>2, <1>3, <1>5
<1>9. mine.pc = pc /\ mine.ws = ws /\ mine.at = "tmp" /\ mine.then = then
  OBVIOUS
<1> HIDE DEF mine
<1> QED
  BY <1>3, <1>4, <1>5, <1>6, <1>7, <1>8, <1>9

LEMMA AgentLoads ==
  ASSUME NotebookAssumption, NotesInv, op[Agent] = Idle,
         NEW t \in DOMAIN Loaded.tabs, Loaded.version < MaxVersion,
         NEW tab \in Tab, tab.write = Loaded.tabs[t].write,
         NEW then \in [Tabs -> Seq(Texts)], \A u \in Tabs : u # t => then[u] = held[u],
         EndsAgree(Loaded.tabs[t].history, held[t]) => EndsAgree(tab.history, then[t]),
         Begin(Agent, "loaded", With(Loaded, t, tab), then),
         UNCHANGED <<file, tmp, view, dirty, posted, held, mixed>>
  PROVE  NotesInv'
<1> DEFINE ws == With(Loaded, t, tab)
<1>0. Loaded \in Workspace
  BY LoadedIsWorkspace DEF NotesInv
<1>1. /\ ws \in Workspace /\ DOMAIN ws.tabs = DOMAIN Loaded.tabs
      /\ ws.tabs[t] = tab
      /\ \A u \in DOMAIN Loaded.tabs : u # t => ws.tabs[u] = Loaded.tabs[u]
  BY <1>0, WithIsWorkspace
<1> HIDE DEF ws
<1>2. Agent \in Savers /\ Begin(Agent, "loaded", ws, then)
  BY DEF Savers, ws
<1>3. /\ op' \in [Savers -> {Idle} \union Op]
      /\ op'[Agent] # Idle /\ op'[Agent].pc = "loaded" /\ op'[Agent].ws = ws
      /\ op'[Agent].at = "tmp" /\ op'[Agent].then = then
      /\ op'[Agent].alone => \A q \in Savers : op[q] = Idle
      /\ \A q \in Savers : q # Agent /\ op'[q] # Idle =>
           /\ op[q] # Idle /\ ~op'[q].alone /\ op'[q].at = op[q].at
           /\ op'[q].pc = op[q].pc /\ op'[q].then = op[q].then
      /\ \A q \in Savers : op[q] = Idle /\ q # Agent => op'[q] = Idle
  BY <1>1, <1>2, BeginStep
<1>4. Types'
  BY <1>3 DEF NotesInv, Types
<1>5. AloneHolds'
  BY <1>2, <1>3 DEF NotesInv, AloneHolds
<1>6. ConsolesStartAnew'
  BY <1>3 DEF NotesInv, ConsolesStartAnew, Savers, NotebookAssumption
<1>7. ASSUME ~mixed PROVE FileAgrees' /\ SaversAtTmp' /\ AgentAgrees'
  <2>1. FileAgrees /\ SaversAtTmp
    BY <1>7 DEF NotesInv, Kept
  <2>2. FileAgrees'
    BY <2>1 DEF FileAgrees, Loaded
  <2>3. SaversAtTmp'
    BY <1>3, <2>1 DEF SaversAtTmp
  <2>4. Agree(Loaded, posted, held)
    BY <2>1 DEF FileAgrees
  <2>5. DOMAIN Loaded.tabs \subseteq Tabs
    BY <1>0, WorkspaceHas
  <2>6. Agree(ws, posted, then)
    <3>1. DOMAIN ws.tabs = DOMAIN posted /\ DOMAIN posted = DOMAIN Loaded.tabs
      BY <1>1, <2>4 DEF Agree
    <3>2. ASSUME NEW u \in DOMAIN posted
          PROVE  ws.tabs[u].write = posted[u] /\ EndsAgree(ws.tabs[u].history, then[u])
      BY <1>1, <2>4, <2>5, <3>1 DEF Agree
    <3> QED
      BY <3>1, <3>2 DEF Agree
  <2>7. AgentAgrees'
    BY <1>3, <2>6 DEF AgentAgrees
  <2> QED
    BY <2>2, <2>3, <2>7
<1>8. Kept'
  BY <1>7 DEF Kept
<1> QED
  BY <1>4, <1>5, <1>6, <1>8 DEF NotesInv

LEMMA NotesWriteKeeps ==
  ASSUME NotebookAssumption, NotesInv, NEW t \in Tabs, NotesWrite(t)
  PROVE  NotesInv'
<1> DEFINE tab == Loaded.tabs[t]
<1>0. Loaded \in Workspace /\ t \in DOMAIN Loaded.tabs /\ Loaded.version < MaxVersion
  BY LoadedIsWorkspace DEF NotesInv, NotesWrite, Writable
<1>1. tab \in Tab
  BY <1>0, WorkspaceHas
<1>2. tab.text \in Texts /\ tab.history \in Seq(Texts) /\ Len(tab.history) <= MaxHistory
  BY <1>1, TabHas
<1>3. PICK text \in Texts :
        Begin(Agent, "loaded",
              With(Loaded, t, [tab EXCEPT !.text = text, !.history = Pushed(tab)]),
              [held EXCEPT ![t] = Append(@, tab.text)])
  BY DEF NotesWrite
<1> DEFINE a == Append(tab.history, tab.text)
           new == [tab EXCEPT !.text = text, !.history = Pushed(tab)]
           then == [held EXCEPT ![t] = Append(@, tab.text)]
<1>4. Pushed(tab) = Suffix(a, Least(MaxHistory, Len(a)))
  BY DEF Pushed
<1>5. a \in Seq(Texts) /\ Least(MaxHistory, Len(a)) \in 0..Len(a)
      /\ Least(MaxHistory, Len(a)) <= MaxHistory
  <2>1. a \in Seq(Texts)
    BY <1>2
  <2> HIDE DEF a
  <2>2. Len(a) \in Nat /\ MaxHistory \in Nat
    BY <2>1 DEF NotebookAssumption
  <2> QED
    BY <2>1, <2>2 DEF Least
<1>6. Pushed(tab) \in Histories
  <2>1. Pushed(tab) \in Seq(Texts) /\ Len(Pushed(tab)) <= MaxHistory
    BY <1>4, <1>5, SuffixAt
  <2> QED
    BY <2>1, HistoryIs
<1>7. new \in Tab /\ new.write = tab.write /\ new.history = Pushed(tab)
  BY <1>1, <1>6 DEF Tab
<1>8. held \in [Tabs -> Seq(Texts)]
  BY DEF NotesInv, Types
<1>9. then \in [Tabs -> Seq(Texts)] /\ then[t] = Append(held[t], tab.text)
      /\ \A u \in Tabs : u # t => then[u] = held[u]
  BY <1>2, <1>8
<1>10. EndsAgree(tab.history, held[t]) => EndsAgree(new.history, then[t])
  <2>1. held[t] \in Seq(Texts)
    BY <1>8
  <2> QED
    BY <1>2, <1>4, <1>7, <1>9, <2>1, EndsStayWritten
<1>11. Begin(Agent, "loaded", With(Loaded, t, new), then)
  BY <1>3
<1>12. op[Agent] = Idle /\ UNCHANGED <<file, tmp, view, dirty, posted, held, mixed>>
  BY DEF NotesWrite
<1> HIDE DEF new, then, tab
<1> QED
  BY <1>0, <1>7, <1>9, <1>10, <1>11, <1>12, AgentLoads DEF tab

LEMMA NotesRevertKeeps ==
  ASSUME NotebookAssumption, NotesInv, NEW t \in Tabs, NotesRevert(t)
  PROVE  NotesInv'
<1> DEFINE tab == Loaded.tabs[t]
<1>0. Loaded \in Workspace /\ t \in DOMAIN Loaded.tabs /\ Loaded.version < MaxVersion
  BY LoadedIsWorkspace DEF NotesInv, NotesRevert, Writable
<1>1. tab \in Tab
  BY <1>0, WorkspaceHas
<1>2. tab.text \in Texts /\ tab.history \in Seq(Texts) /\ Len(tab.history) <= MaxHistory
  BY <1>1, TabHas
<1>3. PICK steps \in 1..Len(tab.history) :
        Begin(Agent, "loaded",
              With(Loaded, t, [tab EXCEPT !.text = tab.history[Len(tab.history) - steps + 1],
                                          !.history = ButLast(@, steps)]),
              [held EXCEPT ![t] = ButLast(@, steps)])
  BY DEF NotesRevert
<1> DEFINE text == tab.history[Len(tab.history) - steps + 1]
           new == [tab EXCEPT !.text = text, !.history = ButLast(@, steps)]
           then == [held EXCEPT ![t] = ButLast(@, steps)]
<1>4. text \in Texts
  <2>1. Len(tab.history) - steps + 1 \in 1..Len(tab.history)
    BY <1>2
  <2> QED
    BY <1>2, <2>1
<1>5. ButLast(tab.history, steps) \in Histories
  <2>1. /\ ButLast(tab.history, steps) \in Seq(Texts)
        /\ Len(ButLast(tab.history, steps)) =
             IF steps < Len(tab.history) THEN Len(tab.history) - steps ELSE 0
    BY <1>2, ButLastAt
  <2>2. Len(ButLast(tab.history, steps)) <= MaxHistory
    BY <1>2, <2>1 DEF NotebookAssumption
  <2> QED
    BY <2>1, <2>2, HistoryIs
<1> HIDE DEF text
<1>6. new \in Tab /\ new.write = tab.write /\ new.history = ButLast(tab.history, steps)
  BY <1>1, <1>4, <1>5 DEF Tab
<1>7. held \in [Tabs -> Seq(Texts)]
  BY DEF NotesInv, Types
<1>8. ButLast(held[t], steps) \in Seq(Texts)
  BY <1>7, ButLastAt
<1>9. then \in [Tabs -> Seq(Texts)] /\ then[t] = ButLast(held[t], steps)
      /\ \A u \in Tabs : u # t => then[u] = held[u]
  BY <1>7, <1>8
<1>10. EndsAgree(tab.history, held[t]) => EndsAgree(new.history, then[t])
  <2>1. held[t] \in Seq(Texts) /\ steps \in Nat
    BY <1>7
  <2> QED
    BY <1>2, <1>6, <1>9, <2>1, EndsStayReverted
<1>11. Begin(Agent, "loaded", With(Loaded, t, new), then)
  BY <1>3 DEF text
<1>12. op[Agent] = Idle /\ UNCHANGED <<file, tmp, view, dirty, posted, held, mixed>>
  BY DEF NotesRevert
<1> HIDE DEF new, then, tab
<1> QED
  BY <1>0, <1>6, <1>9, <1>10, <1>11, <1>12, AgentLoads DEF tab

LEMMA ConsoleSaveKeeps ==
  ASSUME NotebookAssumption, NotesInv, NEW c \in Consoles, ConsoleSave(c)
  PROVE  NotesInv'
<1>1. c \in Savers /\ op[c] = Idle /\ view[c] \in Workspace /\ Begin(c, "open", view[c], Nothing)
  BY DEF Savers, ConsoleSave, NotesInv, Types
<1>2. Nothing \in [Tabs -> Seq(Texts)]
  BY DEF Nothing
<1>3. /\ op' \in [Savers -> {Idle} \union Op]
      /\ op'[c] # Idle /\ op'[c].pc = "open" /\ op'[c].at = "tmp" /\ op'[c].then = Nothing
      /\ op'[c].alone => \A q \in Savers : op[q] = Idle
      /\ \A q \in Savers : q # c /\ op'[q] # Idle =>
           /\ op[q] # Idle /\ ~op'[q].alone /\ op'[q].at = op[q].at
           /\ op'[q].pc = op[q].pc /\ op'[q].then = op[q].then
      /\ \A q \in Savers : op[q] = Idle /\ q # c => op'[q] = Idle
  BY <1>1, <1>2, BeginStep
<1>4. tmp' = Empty /\ UNCHANGED <<file, view, dirty, posted, held, mixed>>
  BY DEF ConsoleSave
<1>5. Types'
  BY <1>3, <1>4 DEF NotesInv, Types
<1>6. AloneHolds'
  BY <1>1, <1>3, <1>4 DEF NotesInv, AloneHolds
<1>7. ConsolesStartAnew'
  BY <1>3 DEF NotesInv, ConsolesStartAnew, Savers
<1>8. Agent \in Savers /\ Agent # c
  BY DEF Savers, NotebookAssumption
<1>9. Kept'
  <2> SUFFICES ASSUME ~mixed PROVE FileAgrees' /\ SaversAtTmp' /\ AgentAgrees'
    BY <1>4 DEF Kept
  <2>1. FileAgrees /\ SaversAtTmp
    BY DEF NotesInv, Kept
  <2>2. FileAgrees'
    BY <1>4, <2>1 DEF FileAgrees, Loaded
  <2>3. SaversAtTmp'
    BY <1>3, <2>1 DEF SaversAtTmp
  <2>4. AgentAgrees'
    BY <1>3, <1>8 DEF AgentAgrees
  <2> QED
    BY <2>2, <2>3, <2>4
<1> QED
  BY <1>5, <1>6, <1>7, <1>9 DEF NotesInv

\* The console's own steps: a poll, an edit.
LEMMA ConsoleKeeps ==
  ASSUME NotebookAssumption, NotesInv, NEW c \in Consoles, Fetch(c) \/ Edit(c)
  PROVE  NotesInv'
<1>1. UNCHANGED <<file, tmp, op, posted, held, mixed>>
  BY DEF Fetch, Edit
<1>2. view \in [Consoles -> Workspace] /\ dirty \in [Consoles -> BOOLEAN] /\ Types
  BY DEF NotesInv, Types
<1>3. view' \in [Consoles -> Workspace] /\ dirty' \in [Consoles -> BOOLEAN]
  <2>1. CASE Fetch(c)
    BY <1>2, <2>1, LoadedIsWorkspace DEF Fetch
  <2>2. CASE Edit(c)
    <3>1. view[c] \in Workspace /\ view[c].version < MaxVersion
      BY <1>2, <2>2 DEF Edit
    <3>2. PICK ws \in Workspace : view' = [view EXCEPT ![c] = ws]
      BY <2>2, <3>1, EditIsWorkspace DEF Edit
    <3> QED
      BY <1>2, <2>2, <3>2 DEF Edit
  <2> QED
    BY <2>1, <2>2
<1>4. Types'
  BY <1>1, <1>2, <1>3 DEF Types
<1> QED
  BY <1>1, <1>4 DEF NotesInv, AloneHolds, ConsolesStartAnew, Kept, FileAgrees, Loaded, SaversAtTmp,
                    AgentAgrees

LEMMA AgentSaveKeeps ==
  ASSUME NotebookAssumption, NotesInv, AgentSave
  PROVE  NotesInv'
<1>1. Agent \in Savers /\ op[Agent].pc = "loaded" /\ op \in [Savers -> {Idle} \union Op]
  BY DEF Savers, AgentSave, NotesInv, Types
<1>2. op[Agent] # Idle /\ op[Agent] \in Op
  <2>1. op[Agent].pc # Idle.pc
    BY <1>1 DEF Idle
  <2> QED
    BY <1>1, <2>1
<1>3. /\ op'[Agent] \in Op /\ op'[Agent].pc = "open" /\ op'[Agent].at = op[Agent].at
      /\ op'[Agent].ws = op[Agent].ws /\ op'[Agent].then = op[Agent].then
      /\ op'[Agent].alone = op[Agent].alone /\ op[Agent].at = "tmp"
      /\ \A q \in Savers : q # Agent => op'[q] = op[q]
  BY <1>1, <1>2 DEF AgentSave, Op, NotesInv, AloneHolds
<1>4. op' \in [Savers -> {Idle} \union Op]
  BY <1>1, <1>3 DEF AgentSave
<1>5. tmp' = Empty /\ UNCHANGED <<file, view, dirty, posted, held, mixed>>
  BY DEF AgentSave
<1>6. Types'
  BY <1>4, <1>5 DEF NotesInv, Types
<1>7. AloneHolds'
  BY <1>1, <1>2, <1>3, <1>5 DEF NotesInv, AloneHolds
<1>8. ConsolesStartAnew'
  BY <1>3 DEF NotesInv, ConsolesStartAnew, Savers, NotebookAssumption
<1>9. Kept'
  <2> SUFFICES ASSUME ~mixed PROVE FileAgrees' /\ SaversAtTmp' /\ AgentAgrees'
    BY <1>5 DEF Kept
  <2>1. FileAgrees /\ SaversAtTmp /\ AgentAgrees
    BY DEF NotesInv, Kept
  <2>2. FileAgrees'
    BY <1>5, <2>1 DEF FileAgrees, Loaded
  <2>3. SaversAtTmp'
    BY <1>3, <2>1 DEF SaversAtTmp
  <2>4. AgentAgrees'
    BY <1>2, <1>3, <1>5, <2>1 DEF AgentAgrees
  <2> QED
    BY <2>2, <2>3, <2>4
<1> QED
  BY <1>6, <1>7, <1>8, <1>9 DEF NotesInv

LEMMA WriteTmpKeeps ==
  ASSUME NotebookAssumption, NotesInv, NEW p \in Savers, WriteTmp(p)
  PROVE  NotesInv'
<1>1. op[p].pc = "open" /\ op \in [Savers -> {Idle} \union Op]
  BY DEF WriteTmp, NotesInv, Types
<1>2. op[p] # Idle /\ op[p] \in Op
  <2>1. op[p].pc # Idle.pc
    BY <1>1 DEF Idle
  <2> QED
    BY <1>1, <2>1
<1>3. /\ op'[p] \in Op /\ op'[p].pc = "written" /\ op'[p].at = op[p].at /\ op'[p].ws = op[p].ws
      /\ op'[p].then = op[p].then /\ op'[p].alone = op[p].alone
      /\ \A q \in Savers : q # p => op'[q] = op[q]
  BY <1>1, <1>2 DEF WriteTmp, Op
<1>4. op' \in [Savers -> {Idle} \union Op]
  BY <1>1, <1>3 DEF WriteTmp
<1>5. UNCHANGED <<view, dirty, posted, held, mixed>>
  BY DEF WriteTmp
<1>6. /\ op[p].at = "tmp" => tmp' \in Over(tmp, op[p].ws) /\ file' = file
      /\ op[p].at = "file" => file' \in Over(file, op[p].ws) /\ tmp' = tmp
      /\ op[p].at = "gone" => file' = file /\ tmp' = tmp
      /\ op[p].at \in {"tmp", "file", "gone"} /\ op[p].ws \in Workspace
  BY <1>2 DEF WriteTmp, Op
<1>7. Types'
  BY <1>4, <1>5, <1>6 DEF NotesInv, Types, Over
<1>8. AloneHolds'
  <2> SUFFICES ASSUME NEW q \in Savers, op'[q] # Idle
               PROVE  /\ op'[q].pc = "loaded" => op'[q].at = "tmp"
                      /\ op'[q].alone =>
                           /\ \A r \in Savers : r # q => op'[r] = Idle
                           /\ op'[q].at = "tmp"
                           /\ op'[q].pc = "open" => tmp' = Empty
                           /\ op'[q].pc = "written" => tmp' = op'[q].ws
    BY DEF AloneHolds
  <2>1. CASE q = p
    <3>1. ASSUME op[p].alone
          PROVE  /\ \A r \in Savers : r # p => op[r] = Idle
                 /\ op[p].at = "tmp" /\ tmp = Empty
      BY <1>1, <1>2, <3>1 DEF NotesInv, AloneHolds
    <3>2. ASSUME op[p].alone PROVE tmp' = op[p].ws
      BY <1>6, <3>1, <3>2 DEF Over
    <3> QED
      BY <1>3, <2>1, <3>1, <3>2
  <2>2. CASE q # p
    BY <1>2, <1>3, <2>2 DEF NotesInv, AloneHolds
  <2> QED
    BY <2>1, <2>2
<1>9. ConsolesStartAnew'
  BY <1>2, <1>3 DEF NotesInv, ConsolesStartAnew, Savers
<1>10. Kept'
  <2> SUFFICES ASSUME ~mixed PROVE FileAgrees' /\ SaversAtTmp' /\ AgentAgrees'
    BY <1>5 DEF Kept
  <2>1. FileAgrees /\ SaversAtTmp /\ AgentAgrees
    BY DEF NotesInv, Kept
  <2>2. op[p].at = "tmp"
    BY <1>2, <2>1 DEF SaversAtTmp
  <2>3. FileAgrees'
    BY <1>5, <1>6, <2>1, <2>2 DEF FileAgrees, Loaded
  <2>4. SaversAtTmp'
    BY <1>3, <2>1, <2>2 DEF SaversAtTmp
  <2>5. AgentAgrees'
    BY <1>2, <1>3, <1>5, <2>1 DEF AgentAgrees, Savers
  <2> QED
    BY <2>3, <2>4, <2>5
<1> QED
  BY <1>7, <1>8, <1>9, <1>10 DEF NotesInv

\* What an operation that ends, or the server's death, leaves.
LEMMA EndingKeeps ==
  ASSUME NotebookAssumption, NotesInv,
         op' \in [Savers -> {Idle} \union Op],
         \A q \in Savers : op'[q] # Idle => op'[q] = op[q],
         tmp' = tmp \/ (tmp' = Absent /\ \A q \in Savers : op'[q] = Idle),
         UNCHANGED <<file, view, dirty, posted, held, mixed>>
  PROVE  NotesInv'
<1>1. Types'
  BY DEF NotesInv, Types
<1>2. AloneHolds'
  BY DEF NotesInv, AloneHolds
<1>3. ConsolesStartAnew'
  BY DEF NotesInv, ConsolesStartAnew, Savers
<1>4. ASSUME ~mixed PROVE FileAgrees' /\ SaversAtTmp' /\ AgentAgrees'
  <2>1. FileAgrees /\ SaversAtTmp /\ AgentAgrees
    BY <1>4 DEF NotesInv, Kept
  <2>2. FileAgrees'
    BY <2>1 DEF FileAgrees, Loaded
  <2>3. SaversAtTmp'
    BY <2>1 DEF SaversAtTmp
  <2>4. Agent \in Savers
    BY DEF Savers
  <2>5. AgentAgrees'
    BY <2>1, <2>4 DEF AgentAgrees
  <2> QED
    BY <2>2, <2>3, <2>5
<1> QED
  BY <1>1, <1>2, <1>3, <1>4 DEF NotesInv, Kept

LEMMA SaveFailsKeeps ==
  ASSUME NotebookAssumption, NotesInv, NEW p \in Savers, SaveFails(p)
  PROVE  NotesInv'
<1>1. op \in [Savers -> {Idle} \union Op] /\ op' = [op EXCEPT ![p] = Idle]
  BY DEF SaveFails, NotesInv, Types
<1>2. op' \in [Savers -> {Idle} \union Op] /\ \A q \in Savers : op'[q] # Idle => op'[q] = op[q]
  BY <1>1
<1>3. UNCHANGED <<file, tmp, view, dirty, posted, held, mixed>>
  BY DEF SaveFails
<1> QED
  BY <1>2, <1>3, EndingKeeps

LEMMA CrashKeeps ==
  ASSUME NotebookAssumption, NotesInv, Crash
  PROVE  NotesInv'
  BY EndingKeeps DEF Crash

LEMMA ReplaceKeeps ==
  ASSUME NotebookAssumption, NotesInv, NEW p \in Savers, Replace(p)
  PROVE  NotesInv'
<1>1. op[p].pc = "written" /\ op \in [Savers -> {Idle} \union Op] /\ Types
  BY DEF Replace, NotesInv, Types
<1>2. op[p] # Idle /\ op[p] \in Op
  <2>1. op[p].pc # Idle.pc
    BY <1>1 DEF Idle
  <2> QED
    BY <1>1, <2>1
<1> DEFINE Moved(q) == [op[q] EXCEPT !.at = IF @ = "tmp" THEN "file" ELSE "gone"]
<1>3. op' = [q \in Savers |-> IF q = p THEN Idle
                              ELSE IF op[q].pc \notin {"open", "written"} THEN op[q] ELSE Moved(q)]
  BY DEF Replace
<1>4. ASSUME NEW q \in Savers, op[q].pc \in {"open", "written"}
      PROVE  /\ Moved(q) \in Op /\ op[q] # Idle
             /\ Moved(q).pc = op[q].pc /\ Moved(q).alone = op[q].alone
             /\ Moved(q).then = op[q].then
  <2>1. op[q] # Idle
    BY <1>4 DEF Idle
  <2>2. op[q] \in Op
    BY <1>1, <2>1
  <2> QED
    BY <2>1, <2>2 DEF Op
<1> HIDE DEF Moved
<1>5. /\ op'[p] = Idle
      /\ \A q \in Savers : q # p /\ op[q].pc \notin {"open", "written"} => op'[q] = op[q]
      /\ \A q \in Savers : q # p /\ op[q].pc \in {"open", "written"} => op'[q] = Moved(q)
  BY <1>3
<1>6. op' \in [Savers -> {Idle} \union Op]
  BY <1>1, <1>3, <1>4
<1>7. /\ file' = tmp /\ tmp' = Absent /\ view' = view
      /\ dirty' = [c \in Consoles |-> dirty[c] /\ c # p]
      /\ mixed' = (~op[p].alone \/ (mixed /\ p = Agent))
      /\ posted' = IF mixed' THEN Shares(Default)
                   ELSE IF p = Agent THEN posted ELSE Shares(op[p].ws)
      /\ held' = IF mixed' THEN Nothing ELSE op[p].then
  BY DEF Replace
<1>8. op[p].ws \in Workspace /\ op[p].then \in [Tabs -> Seq(Texts)] /\ op[p].alone \in BOOLEAN
  BY <1>2 DEF Op
<1>9. \A ws \in Workspace : Shares(ws) \in UNION {[D -> BOOLEAN] : D \in SUBSET Tabs}
  <2> TAKE ws \in Workspace
  <2>1. Shares(ws) \in [DOMAIN ws.tabs -> BOOLEAN] /\ DOMAIN ws.tabs \in SUBSET Tabs
    <3>1. \A t \in DOMAIN ws.tabs : ws.tabs[t].write \in BOOLEAN
      BY WorkspaceHas, TabHas
    <3> QED
      BY <3>1, WorkspaceHas DEF Shares
  <2> QED
    BY <2>1
<1>10. Types'
  <2>1. Nothing \in [Tabs -> Seq(Texts)]
    BY DEF Nothing
  <2>2. mixed' \in BOOLEAN /\ dirty' \in [Consoles -> BOOLEAN]
    BY <1>1, <1>7, <1>8 DEF Types
  <2>3. posted' \in UNION {[D -> BOOLEAN] : D \in SUBSET Tabs}
    <3>1. CASE mixed'
      BY <1>7, <1>9, <3>1, DefaultIsWorkspace
    <3>2. CASE ~mixed' /\ p = Agent
      <4>1. posted' = posted
        BY <1>7, <3>2
      <4> QED
        BY <1>1, <4>1 DEF Types
    <3>3. CASE ~mixed' /\ p # Agent
      <4>1. posted' = Shares(op[p].ws)
        BY <1>7, <3>3
      <4> QED
        BY <1>8, <1>9, <4>1
    <3> QED
      BY <3>1, <3>2, <3>3
  <2>4. held' \in [Tabs -> Seq(Texts)]
    BY <1>7, <1>8, <2>1
  <2>5. file' \in {Absent, Empty, Torn} \union Workspace /\ tmp' = Absent
        /\ view' \in [Consoles -> Workspace]
    BY <1>1, <1>7 DEF Types
  <2> QED
    BY <1>6, <2>2, <2>3, <2>4, <2>5 DEF Types
<1>11. \A q \in Savers : op'[q] # Idle /\ op'[q].alone => FALSE
  <2> SUFFICES ASSUME NEW q \in Savers, op'[q] # Idle, op'[q].alone PROVE FALSE
    OBVIOUS
  <2>1. q # p
    BY <1>5
  <2>2. op[q] # Idle /\ op[q].alone
    BY <1>4, <1>5, <2>1
  <2>3. op[p] = Idle
    BY <2>1, <2>2 DEF NotesInv, AloneHolds
  <2> QED
    BY <1>2, <2>3
<1>12. AloneHolds'
  <2>1. ASSUME NEW q \in Savers, op'[q] # Idle, op'[q].pc = "loaded" PROVE op'[q].at = "tmp"
    <3>1. q # p
      BY <1>5, <2>1
    <3>2. op[q].pc \notin {"open", "written"}
      BY <1>4, <1>5, <2>1, <3>1
    <3>3. op'[q] = op[q]
      BY <1>5, <3>1, <3>2
    <3> QED
      BY <2>1, <3>3 DEF NotesInv, AloneHolds
  <2> QED
    BY <1>11, <2>1 DEF AloneHolds
<1>13. ConsolesStartAnew'
  <2> SUFFICES ASSUME NEW c \in Consoles, op'[c] # Idle PROVE op'[c].then = Nothing
    BY DEF ConsolesStartAnew
  <2>1. c \in Savers /\ c # p
    BY <1>5 DEF Savers
  <2>2. op[c] # Idle /\ op'[c].then = op[c].then
    BY <1>4, <1>5, <2>1
  <2> QED
    BY <2>2 DEF NotesInv, ConsolesStartAnew
<1>14. Kept'
  <2> SUFFICES ASSUME ~mixed' PROVE FileAgrees' /\ SaversAtTmp' /\ AgentAgrees'
    BY DEF Kept
  <2>1. op[p].alone /\ (mixed => p # Agent)
    BY <1>1, <1>7, <1>8 DEF Types
  <2>2. tmp = op[p].ws /\ \A q \in Savers : q # p => op[q] = Idle
    BY <1>1, <1>2, <2>1 DEF NotesInv, AloneHolds
  <2>3. \A q \in Savers : op'[q] = Idle
    BY <1>5, <2>2 DEF Idle
  <2>4. SaversAtTmp' /\ AgentAgrees'
    BY <2>3 DEF SaversAtTmp, AgentAgrees, Savers
  <2>5. /\ file' = op[p].ws /\ file' \notin {Absent, Empty, Torn}
    BY <1>7, <1>8, <2>2 DEF NotebookAssumption
  <2>6. (Loaded)' = op[p].ws
    BY <2>5 DEF Loaded, IsWorkspace
  <2>7. CASE p = Agent
    <3>1. ~mixed /\ posted' = posted /\ held' = op[p].then
      BY <1>1, <1>7, <2>1, <2>7 DEF Types
    <3>2. Agree(op[p].ws, posted, op[p].then)
      BY <1>2, <2>1, <2>7, <3>1 DEF NotesInv, Kept, AgentAgrees
    <3>3. FileAgrees'
      BY <2>5, <2>6, <3>1, <3>2 DEF FileAgrees
    <3> QED
      BY <2>4, <3>3
  <2>8. CASE p # Agent
    <3>1. posted' = Shares(op[p].ws) /\ held' = op[p].then
      BY <1>7, <2>8
    <3>2. p \in Consoles
      BY <2>8 DEF Savers
    <3>3. op[p].then = Nothing
      BY <1>2, <3>2 DEF NotesInv, ConsolesStartAnew
    <3>4. Agree(op[p].ws, Shares(op[p].ws), Nothing)
      <4> DEFINE ws == op[p].ws
      <4>1. DOMAIN ws.tabs \subseteq Tabs /\ \A t \in DOMAIN ws.tabs : ws.tabs[t].history \in Seq(Texts)
        BY <1>8, WorkspaceHas, TabHas
      <4>2. ASSUME NEW t \in DOMAIN ws.tabs PROVE EndsAgree(ws.tabs[t].history, Nothing[t])
        <5>1. Nothing[t] \in Seq(Texts) /\ Len(Nothing[t]) = 0
          BY <4>1 DEF Nothing
        <5> QED
          BY <4>1, <5>1, EndsAgreeIff
      <4> HIDE DEF ws
      <4>3. DOMAIN Shares(ws) = DOMAIN ws.tabs /\ \A t \in DOMAIN ws.tabs : Shares(ws)[t] = ws.tabs[t].write
        BY DEF Shares
      <4>4. Agree(ws, Shares(ws), Nothing)
        BY <4>2, <4>3 DEF Agree
      <4> QED
        BY <4>4 DEF ws
    <3>5. FileAgrees'
      BY <2>5, <2>6, <3>1, <3>3, <3>4 DEF FileAgrees
    <3> QED
      BY <2>4, <3>5
  <2> QED
    BY <2>7, <2>8
<1> QED
  BY <1>10, <1>12, <1>13, <1>14 DEF NotesInv

-----------------------------------------------------------------------------

LEMMA NotesInvStep ==
  ASSUME NotebookAssumption, NotesInv, Next
  PROVE  NotesInv'
<1>1. CASE \E t \in Tabs : NotesWrite(t) \/ NotesRevert(t)
  BY <1>1, NotesWriteKeeps, NotesRevertKeeps
<1>2. CASE AgentSave \/ Crash
  BY <1>2, AgentSaveKeeps, CrashKeeps
<1>3. CASE \E p \in Savers : WriteTmp(p) \/ Replace(p) \/ SaveFails(p)
  BY <1>3, WriteTmpKeeps, ReplaceKeeps, SaveFailsKeeps
<1>4. CASE \E c \in Consoles : Fetch(c) \/ Edit(c) \/ ConsoleSave(c)
  BY <1>4, ConsoleKeeps, ConsoleSaveKeeps
<1> QED
  BY <1>1, <1>2, <1>3, <1>4 DEF Next

LEMMA NotesInvStutters ==
  ASSUME NotesInv, UNCHANGED vars
  PROVE  NotesInv'
  BY DEF vars, NotesInv, Types, AloneHolds, ConsolesStartAnew, Kept, FileAgrees, Loaded,
         SaversAtTmp, AgentAgrees

\* The invariant has the file's types, and what the notebook promises.
LEMMA NotesInvShows ==
  ASSUME NotebookAssumption, NotesInv
  PROVE  TypeOK /\ NotesKept
<1>1. NotesKept
  <2> SUFFICES ASSUME ~mixed PROVE FileAgrees => NotesKept
    BY DEF NotesInv, Kept, NotesKept
  <2> SUFFICES ASSUME FileAgrees PROVE NotesKept
    OBVIOUS
  <2> QED
    BY DEF FileAgrees, Agree, EndsAgree, NotesKept
<1>2. TypeOK
  <2>1. \A f \in {file, tmp} : IsWorkspace(f) => \A t \in DOMAIN f.tabs : f.tabs[t] \in Tab
    BY WorkspaceHas DEF NotesInv, Types, IsWorkspace
  <2>2. \A c \in Consoles : view[c].version \in 0..MaxVersion /\ dirty[c] \in BOOLEAN
    BY WorkspaceHas DEF NotesInv, Types
  <2>3. \A p \in Savers : op[p].pc \in {"idle", "loaded", "open", "written"}
    BY DEF NotesInv, Types, Op, Idle
  <2> QED
    BY <2>1, <2>2, <2>3 DEF TypeOK, NotesInv, Types
<1> QED
  BY <1>1, <1>2

\* The notebook on its own: unless saves overlapped it is whole at every step and after every
\* crash, its tabs and permissions are the operator's last, and undo leads back through the
\* texts that the agent's writes replaced.
THEOREM NotebookKept == ASSUME NotebookAssumption PROVE Spec => []NotesKept
<1>1. Init => NotesInv
  BY NotesInvInit
<1>2. NotesInv /\ [Next]_vars => NotesInv'
  BY NotesInvStep, NotesInvStutters
<1>3. NotesInv => NotesKept
  BY NotesInvShows
<1> QED
  BY <1>1, <1>2, <1>3, PTL DEF Spec

=============================================================================
