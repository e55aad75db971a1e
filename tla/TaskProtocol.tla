---------------------------- MODULE TaskProtocol ----------------------------
(***************************************************************************)
(* The life of an A2A task as its callers may see it in the task store:    *)
(* the edges along which the state of a row may move, whatever the executor*)
(* the event queue and restarts do behind it.  A task that has ended stays *)
(* as it ended; only a boot's sweep removes it.                            *)
(***************************************************************************)
CONSTANT Tasks

VARIABLE store           \* the stored state of each task, "absent" if it has no row

TaskState ==
  {"absent", "submitted", "working", "input_required", "completed", "failed", "canceled"}

Terminal == {"completed", "failed", "canceled"}

\* A paused task works again when its caller answers; what a restart interrupted
\* fails; a row may expire.
Edges ==
  {<<"absent", "submitted">>, <<"submitted", "working">>,
   <<"working", "input_required">>, <<"input_required", "working">>,
   <<"working", "completed">>, <<"working", "failed">>, <<"working", "canceled">>,
   <<"submitted", "failed">>, <<"submitted", "canceled">>,
   <<"input_required", "canceled">>}
  \union {<<s, "absent">> : s \in TaskState}

Init == store = [t \in Tasks |-> "absent"]

Next ==
  /\ store' \in [Tasks -> TaskState]
  /\ \A t \in Tasks : store'[t] # store[t] => <<store[t], store'[t]>> \in Edges

Spec == Init /\ [][Next]_store
=============================================================================
