------------------------------ MODULE JobStates ------------------------------
(***************************************************************************)
(* The job state machine's tables (app/core/job_states.py) and the diagram *)
(* of every legal status change, the user's and the worker's, that heads   *)
(* the control endpoints of app/routers/jobs.py.                           *)
(***************************************************************************)

Statuses == { "pending", "enumerating", "running", "paused",
              "completed", "failed", "rolling_back", "rolled_back" }

TerminalStatuses == { "completed", "failed", "rolled_back" }

UserActions == { "start", "pause", "resume", "cancel", "rollback" }

\* The statuses from which the endpoint accepts a user's action.
TransitionFrom ==
  [ start    |-> { "pending" },
    pause    |-> { "enumerating", "running" },
    resume   |-> { "paused" },
    cancel   |-> { "pending", "enumerating", "running", "paused" },
    rollback |-> { "completed", "failed", "paused" } ]

\* The statuses an action may lead to; only resume has two, and the latest
\* checkpoint chooses between them.
TransitionTo ==
  [ start    |-> { "enumerating" },
    pause    |-> { "paused" },
    resume   |-> { "enumerating", "running" },
    cancel   |-> { "failed" },
    rollback |-> { "rolling_back" } ]

\* The worker's own edges: enumeration_complete, all_files_done,
\* unrecoverable_error, rollback_complete and rollback_failed.
WorkerEdges ==
  { <<"enumerating", "running">>, <<"running", "completed">>,
    <<"enumerating", "failed">>, <<"running", "failed">>,
    <<"rolling_back", "rolled_back">>, <<"rolling_back", "failed">> }

UserEdges ==
  UNION { TransitionFrom[a] \X TransitionTo[a] : a \in UserActions }

\* Every arrow of the diagram.
DiagramEdges == UserEdges \cup WorkerEdges
=============================================================================
