------------------------------ MODULE JobLedger ------------------------------
(***************************************************************************)
(* What a scheduler backend promises about the fires of its jobs, without  *)
(* lock, poll loop, HTTP or database.  An occurrence (one fire of one job) *)
(* is owed from the moment it is stored; it may land, any number of times, *)
(* once it is due; it stops being owed only after it landed, or because it *)
(* was waived: the job was cancelled, or its fire was missed by more than  *)
(* the recovery window while nobody was polling.                           *)
(***************************************************************************)
EXTENDS Naturals

CONSTANT Occurrence      \* one fire of one job: a record with fields id, next

VARIABLES owed,          \* the occurrences the backend still has to deliver
          landed,        \* those whose turn the agent started
          waived,        \* those withdrawn before they were delivered
          now            \* the clock

ledgerVars == <<owed, landed, waived, now>>

Init ==
  /\ owed = {}
  /\ landed = {}
  /\ waived = {}
  /\ now = 0

Gone == owed \ owed'
Fresh == owed' \ owed

Store ==
  /\ \E o \in Fresh : o \in Occurrence /\ owed' = owed \union {o}
  /\ UNCHANGED <<landed, waived, now>>

\* A withdrawn occurrence may still land: its delivery was already under way.
Land ==
  /\ \E o \in owed \union waived : o.next <= now /\ landed' = landed \union {o}
  /\ UNCHANGED <<owed, waived, now>>

\* A delivered occurrence leaves; a repeating job owes a later one instead.
Settle ==
  /\ \E o \in owed \intersect landed :
       /\ Gone = {o}
       /\ \A n \in Fresh : n.id = o.id /\ n.next > o.next
  /\ UNCHANGED <<landed, waived, now>>

\* Withdrawn occurrences leave; a repeating job owes one in the future instead.
Waive ==
  /\ Gone # {}
  /\ waived' = waived \union Gone
  /\ \A n \in Fresh : n.next > now /\ \E o \in Gone : o.id = n.id
  /\ UNCHANGED <<landed, now>>

Pass ==
  /\ now' = now + 1
  /\ UNCHANGED <<owed, landed, waived>>

Next == Store \/ Land \/ Settle \/ Waive \/ Pass

Spec == Init /\ [][Next]_ledgerVars
=============================================================================
