------------------------------- MODULE Inbox --------------------------------
(***************************************************************************)
(* The inbound inbox: inbox/store.py (the table and the storm guard),      *)
(* POST /api/inbox with its now-fire (operator_api/console_handlers.py),   *)
(* and the check_inbox tool (tools/lg_tools.py).                           *)
(*                                                                         *)
(* An item is known by its row id, its tier, its dedup key and the time it *)
(* was created; its text and source are left out.  One clock stands for    *)
(* the wall clock of the table and the monotonic clock of the guard.       *)
(***************************************************************************)
EXTENDS Naturals, Sequences, FiniteSetsExt

CONSTANTS
  Keys,          \* dedup keys
  NoKey,         \* the empty dedup key
  DedupWindow,   \* dedup_window_s
  MaxFires,      \* max_fires of the storm guard
  StormWindow,   \* window_s of the storm guard
  Limits,        \* limits check_inbox is called with
  MaxItems,      \* bound on the rows
  MaxTime        \* bound on the clock

InboxAssumption ==
  /\ NoKey \notin Keys
  /\ DedupWindow \in Nat /\ StormWindow \in Nat
  /\ MaxFires \in Nat \ {0}
  /\ Limits \subseteq Nat \ {0}
  /\ MaxItems \in Nat /\ MaxTime \in Nat

VARIABLES
  now,
  rows,       \* the table: row i is the item with id i
  fires,      \* the guard's deque of fire times
  posting,    \* items whose now-fire is awaited
  carried,    \* items check_inbox has returned to a turn that still runs
  \* History, read by the properties only.
  fired,      \* items a turn of their own was started for
  read,       \* items a turn got from check_inbox
  gone,       \* items the operator dismissed, or that were lost with a turn
  allowed     \* times of the fires the guard of this process allowed

history == <<fired, read, gone, allowed>>
vars == <<now, rows, fires, posting, carried, history>>

Tier == {"now", "next", "later"}
Rank == [now |-> 0, next |-> 1, later |-> 2]
Ids == DOMAIN rows
Item == [tier : Tier, key : Keys \union {NoKey}, at : 0..MaxTime, delivered : BOOLEAN]

TypeOK ==
  /\ now \in 0..MaxTime
  /\ rows \in Seq(Item) /\ Len(rows) <= MaxItems
  /\ fires \in Seq(0..MaxTime) /\ Len(fires) <= MaxFires
  /\ posting \subseteq Ids /\ carried \subseteq Ids
  /\ fired \subseteq Ids /\ read \subseteq Ids /\ gone \subseteq Ids
  /\ allowed \in Seq(0..MaxTime)

Init ==
  /\ now = 0
  /\ rows = <<>> /\ fires = <<>>
  /\ posting = {} /\ carried = {}
  /\ fired = {} /\ read = {} /\ gone = {}
  /\ allowed = <<>>

Tick ==
  /\ now < MaxTime
  /\ now' = now + 1
  /\ UNCHANGED <<rows, fires, posting, carried, history>>
-----------------------------------------------------------------------------
(* Intake *)

\* Mutation: the window is open at its older end.
DuplicateBug(key) ==
  /\ key # NoKey
  /\ \E i \in Ids : rows[i].key = key /\ ~rows[i].delivered /\ rows[i].at + DedupWindow > now

\* add(): the post repeats an item that is pending and recent.
Duplicate(key) ==
  /\ key # NoKey
  /\ \E i \in Ids : rows[i].key = key /\ ~rows[i].delivered /\ rows[i].at + DedupWindow >= now

\* allow(): what is left of the deque when the old fires at its head are popped.
Recent ==
  LET young == {n \in DOMAIN fires : fires[n] + StormWindow >= now}
  IN IF young = {} THEN <<>> ELSE SubSeq(fires, Min(young), Len(fires))

\* The guard refuses the fire: the item stays pending.
Suppress(i) ==
  /\ Len(Recent) >= MaxFires
  /\ fires' = Recent
  /\ UNCHANGED <<posting, allowed>>

\* The guard lets it pass: the message to system:activity is posted.
Fire(i) ==
  /\ Len(Recent) < MaxFires
  /\ fires' = Append(Recent, now)
  /\ posting' = posting \union {i}
  /\ allowed' = Append(allowed, now)

\* POST /api/inbox. All of it runs before the first await, the POST of a now-fire.
Add(tier, key) ==
  /\ Len(rows) < MaxItems
  /\ ~Duplicate(key)
  /\ rows' = Append(rows, [tier |-> tier, key |-> key, at |-> now, delivered |-> FALSE])
  /\ IF tier = "now" THEN Suppress(Len(rows) + 1) \/ Fire(Len(rows) + 1)
     ELSE UNCHANGED <<fires, posting, allowed>>
  /\ UNCHANGED <<now, carried, fired, read, gone>>

\* The agent accepts the message (and may answer late), or refuses it, or cannot be
\* reached. The row is left as it is either way.
FireEnds(i) ==
  /\ i \in posting
  /\ posting' = posting \ {i}
  /\ fired' \in {fired, fired \union {i}}
  /\ UNCHANGED <<now, rows, fires, carried, read, gone, allowed>>
-----------------------------------------------------------------------------
(* Delivery *)

Pending(floor) == {i \in Ids : ~rows[i].delivered /\ Rank[rows[i].tier] <= Rank[floor]}

\* ORDER BY tier, created_at (rows of one instant: by id).
Before(i, j) ==
  \/ Rank[rows[i].tier] < Rank[rows[j].tier]
  \/ Rank[rows[i].tier] = Rank[rows[j].tier] /\ i < j

\* list()
Batch(floor, limit) ==
  {i \in Pending(floor) : Cardinality({j \in Pending(floor) : Before(j, i)}) < limit}

\* mark_delivered()
Marked(ids) ==
  [i \in Ids |-> IF i \in ids THEN [rows[i] EXCEPT !.delivered = TRUE] ELSE rows[i]]

\* check_inbox lists and marks without an await in between.
CheckInbox(floor, limit) ==
  /\ Batch(floor, limit) # {}
  /\ rows' = Marked(Batch(floor, limit))
  /\ carried' = carried \union Batch(floor, limit)
  /\ UNCHANGED <<now, fires, posting, history>>

\* The tool's result is in the thread: the agent has it.
Surface ==
  /\ carried # {}
  /\ read' = read \union carried
  /\ carried' = {}
  /\ UNCHANGED <<now, rows, fires, posting, fired, gone, allowed>>

\* POST /api/inbox/{id}/deliver
Dismiss(i) ==
  /\ i \in Ids /\ ~rows[i].delivered
  /\ rows' = Marked({i})
  /\ gone' = gone \union {i}
  /\ UNCHANGED <<now, fires, posting, carried, fired, read, allowed>>

\* A restart: the table stays, the guard is new, turns and posts are gone. A turn
\* whose message had arrived may have been started.
Restart ==
  /\ fires # <<>> \/ carried # {} \/ posting # {}
  /\ fires' = <<>> /\ allowed' = <<>>
  /\ gone' = gone \union carried
  /\ carried' = {} /\ posting' = {}
  /\ \E started \in SUBSET posting : fired' = fired \union started
  /\ UNCHANGED <<now, rows, read>>
-----------------------------------------------------------------------------
Next ==
  \/ Tick
  \/ \E tier \in Tier, key \in Keys \union {NoKey} : Add(tier, key)
  \/ \E i \in Ids : FireEnds(i) \/ Dismiss(i)
  \/ \E floor \in Tier, limit \in Limits : CheckInbox(floor, limit)
  \/ Surface
  \/ Restart

Spec == Init /\ [][Next]_vars
-----------------------------------------------------------------------------
(* Safety *)

\* An item is never marked delivered without somebody having it: it is pending, or
\* a turn carries it, or got it, or the operator dismissed it, or a crash took the
\* turn that carried it.
NothingVanishes ==
  \A i \in Ids : rows[i].delivered => i \in carried \union read \union gone

\* No more than MaxFires turns in any window, whichever instant it starts at
\* (store.py:161-166), as long as the process lives.
NoStorm ==
  \A i \in DOMAIN allowed :
    i + MaxFires \in DOMAIN allowed => allowed[i + MaxFires] - allowed[i] > StormWindow

\* Pending items with one key were posted more than a window apart.
DedupHolds ==
  \A i, j \in Ids :
    (i < j /\ rows[i].key = rows[j].key /\ rows[i].key # NoKey
           /\ ~rows[i].delivered /\ ~rows[j].delivered) =>
      rows[j].at - rows[i].at > DedupWindow

\* What is posted is read, and neither doubles nor floods.
InboxSound == NothingVanishes /\ NoStorm /\ DedupHolds
=============================================================================
