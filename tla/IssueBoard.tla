------------------------------ MODULE IssueBoard ----------------------------
(***************************************************************************)
(* The issue board that the agent's tools and the console share            *)
(* (beads/store.py behind tools/lg_tools.py and operator_api/routes.py):   *)
(* one process, one connection, writes under one lock, ids given by        *)
(* counting up from the highest on the board.                              *)
(***************************************************************************)
EXTENDS Naturals

CONSTANTS MaxIssue, MaxMade   \* bounds on ids and on issues ever made
BoardAssumption == MaxIssue \in Nat /\ MaxMade \in Nat

VARIABLES
  issues,       \* issue of each id
  made,         \* issues ever made
  known,        \* ids a user has been shown, with the issue they meant
  refused       \* history: an insert met a row with its id

vars == <<issues, made, known, refused>>

Statuses == {"open", "in_progress", "blocked", "deferred", "closed"}

TypeOK ==
  /\ DOMAIN issues \subseteq 1..MaxIssue
  /\ \A i \in DOMAIN issues : issues[i] \in [n : 1..MaxMade, status : Statuses, stamped : BOOLEAN]
  /\ known \subseteq (1..MaxIssue) \X (1..MaxMade)
  /\ made \in 0..MaxMade /\ refused \in BOOLEAN

Init == issues = <<>> /\ made = 0 /\ known = {} /\ refused = FALSE

(* _next_id: one more than the highest there is.                           *)
NextId == CHOOSE i \in 1..MaxIssue + 1 :
  /\ \A j \in DOMAIN issues : j < i
  /\ i = 1 \/ i - 1 \in DOMAIN issues

New(n) == [n |-> n, status |-> "open", stamped |-> FALSE]
Create ==
  /\ made < MaxMade /\ NextId <= MaxIssue
  /\ issues' = [i \in DOMAIN issues \union {NextId} |->
                  IF i = NextId THEN New(made + 1) ELSE issues[i]]
  /\ refused' = (refused \/ NextId \in DOMAIN issues)
  /\ made' = made + 1
  /\ UNCHANGED known

(* beads_list, and what create, update and close answer.                   *)
See ==
  /\ known' = {<<i, issues[i].n>> : i \in DOMAIN issues}
  /\ UNCHANGED <<issues, made, refused>>

(* An unknown status is "open"; closed_at is set by close only, and no     *)
(* update takes it back.                                                   *)
UpdateIssue(i) ==
  /\ i \in DOMAIN issues
  /\ \E status \in Statuses : issues' = [issues EXCEPT ![i].status = status]
  /\ UNCHANGED <<made, known, refused>>

Close(i) ==
  /\ i \in DOMAIN issues
  /\ issues' = [issues EXCEPT ![i].status = "closed", ![i].stamped = TRUE]
  /\ UNCHANGED <<made, known, refused>>

Delete(i) ==
  /\ i \in DOMAIN issues
  /\ issues' = [j \in DOMAIN issues \ {i} |-> issues[j]]
  /\ UNCHANGED <<made, known, refused>>

Next == Create \/ See \/ \E i \in 1..MaxIssue : UpdateIssue(i) \/ Close(i) \/ Delete(i)

Spec == Init /\ [][Next]_vars
-----------------------------------------------------------------------------
(* An id that was shown means that issue or none, for good: it is given    *)
(* anew only when that issue and all with higher ids are gone.  No insert  *)
(* meets a row with its id.                                                *)
IdsHold ==
  /\ ~refused
  /\ \A k \in known : k[1] \in DOMAIN issues /\ issues[k[1]].n # k[2] =>
       \A j \in DOMAIN issues : j > k[1] => issues[j].n \notin k[2]..issues[k[1]].n - 1
=============================================================================
