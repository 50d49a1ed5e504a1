----------------------------- MODULE JobAdmission ------------------------------
(***************************************************************************)
(* The jobs of one tenant: what app/routers/jobs.py lets concurrent        *)
(* requests do to them.  job_action locks the row of its job and, for a    *)
(* start, counts the tenant's active jobs before it commits; update_job    *)
(* takes no lock.  What a job does once it is started is in JobSystem;     *)
(* here its worker only moves the status.                                  *)
(***************************************************************************)
EXTENDS Integers, FiniteSets, JobStates

CONSTANTS
  Request,   \* requests that may be in progress at the same time
  Nobody,    \* no request
  Limit,     \* _MAX_ACTIVE_JOBS_PER_TENANT
  MaxRows,   \* bound: jobs created
  MaxEdits   \* bound: updates of a job's config

ASSUME AdmissionAssumption ==
  /\ IsFiniteSet(Request)
  /\ Nobody \notin Request
  /\ Limit \in Nat \ {0}
  /\ MaxRows \in Nat
  /\ MaxEdits \in Nat

Job == 1 .. MaxRows

VARIABLES
  rows,     \* the number of jobs
  status,   \* of each job
  config,   \* version of each job's config
  lock,     \* the request that holds the row lock of each job
  req,      \* what each request is doing
  starts,   \* history: accepted starts of each job
  begun,    \* history: active jobs whose last activation was a start
  edits

vars == <<rows, status, config, lock, req, starts, begun, edits>>

ActiveStatuses == { "enumerating", "running", "rolling_back" }

Active == { j \in 1 .. rows : status[j] \in ActiveStatuses }

\* counted: a start has locked its job and found the tenant below the limit;
\* seen is the status it has loaded.  read: an update has found its job
\* pending or paused.
Idle == [pc |-> "idle", job |-> 0, seen |-> "pending"]

Counted == { r \in Request : req[r].pc = "counted" }

TypeOK ==
  /\ rows \in 0 .. MaxRows
  /\ status \in [Job -> Statuses]
  /\ config \in [Job -> 0 .. MaxEdits]
  /\ lock \in [Job -> Request \cup {Nobody}]
  /\ req \in [Request -> [pc : {"idle", "counted", "read"}, job : 0 .. rows,
                          seen : Statuses]]
  /\ \A r \in Request : r \in Counted <=> \E j \in Job : lock[j] = r
  /\ starts \in [Job -> Nat]
  /\ begun \subseteq Active
  /\ edits \in 0 .. MaxEdits

Init ==
  /\ rows = 0
  /\ status = [j \in Job |-> "pending"]
  /\ config = [j \in Job |-> 0]
  /\ lock = [j \in Job |-> Nobody]
  /\ req = [r \in Request |-> Idle]
  /\ starts = [j \in Job |-> 0]
  /\ begun = {}
  /\ edits = 0

Unlocked(j) == j \in 1 .. rows /\ lock[j] = Nobody

Serve(r, pc, j) ==
  req' = [req EXCEPT ![r] = [pc |-> pc, job |-> j, seen |-> status[j]]]

-----------------------------------------------------------------------------
(* New rows.                                                               *)

Create ==
  /\ rows < MaxRows
  /\ rows' = rows + 1
  /\ UNCHANGED <<status, config, lock, req, starts, begun, edits>>

\* copy: a pending job with the config of a job that has ended.
Copy(j) ==
  /\ Unlocked(j)
  /\ status[j] \in {"completed", "failed", "rolled_back"}
  /\ rows < MaxRows
  /\ rows' = rows + 1
  /\ config' = [config EXCEPT ![rows + 1] = config[j]]
  /\ UNCHANGED <<status, lock, req, starts, begun, edits>>

-----------------------------------------------------------------------------
(* start.                                                                  *)

CountBelow(r, j, limit) ==
  /\ req[r] = Idle
  /\ Unlocked(j)
  /\ Cardinality(Active) < limit
  /\ lock' = [lock EXCEPT ![j] = r]
  /\ Serve(r, "counted", j)
  /\ UNCHANGED <<rows, status, config, starts, begun, edits>>

\* Mutant: the comparison admits one job too many.
CountUpTo(r, j) == CountBelow(r, j, Limit + 1)

\* Mutant: the row is read without FOR UPDATE.
CountUnlocked(r, j) ==
  /\ req[r] = Idle
  /\ j \in 1 .. rows
  /\ Cardinality(Active) < Limit
  /\ Serve(r, "counted", j)
  /\ UNCHANGED <<rows, status, config, lock, starts, begun, edits>>

\* SELECT ... FOR UPDATE, then the count of active jobs: at the limit, 429.
Count(r, j) == CountBelow(r, j, Limit)

Fit(r) == req[r].seen \in TransitionFrom["start"]

AdmitIf(r, fit, released) ==
  /\ req[r].pc = "counted"
  /\ lock' = IF released THEN [lock EXCEPT ![req[r].job] = Nobody] ELSE lock
  /\ IF fit
       THEN /\ status' = [status EXCEPT ![req[r].job] = "enumerating"]
            /\ starts' = [starts EXCEPT ![req[r].job] = @ + 1]
            /\ begun' = begun \cup {req[r].job}
       ELSE UNCHANGED <<status, starts, begun>>
  /\ req' = [req EXCEPT ![r] = Idle]
  /\ UNCHANGED <<rows, config, edits>>

\* Mutant: a refused request keeps its transaction open.
AdmitHoldsLock(r) == AdmitIf(r, Fit(r), Fit(r))

\* The transition check, 409 unless the job is pending, and the commit.
Admit(r) == AdmitIf(r, Fit(r), TRUE)

-----------------------------------------------------------------------------
(* The other actions lock, check and commit with nothing in between that   *)
(* another request could disturb.                                          *)

Move(j, from, to) ==
  /\ Unlocked(j)
  /\ status[j] \in from
  /\ status' = [status EXCEPT ![j] = to]
  /\ begun' = IF to \in ActiveStatuses /\ status[j] \in ActiveStatuses
                THEN begun ELSE begun \ {j}
  /\ UNCHANGED <<rows, config, lock, req, starts, edits>>

Pause(j) == Move(j, TransitionFrom["pause"], "paused")

Resume(j) ==
  \E phase \in {"enumerating", "running"} :
    Move(j, TransitionFrom["resume"], phase)

Cancel(j) == Move(j, TransitionFrom["cancel"], "failed")

Rollback(j) == Move(j, TransitionFrom["rollback"], "rolling_back")

\* The worker's own transitions (JobExecutor): its UPDATE waits for the lock,
\* but was decided on before, so that it may overwrite a pause or a cancel.
WorkerMoves(j) ==
  \/ starts[j] > 0 /\ Move(j, {"paused", "failed"}, "running")
  \/ Move(j, {"enumerating"}, "running")
  \/ Move(j, {"running"}, "completed")
  \/ Move(j, {"rolling_back"}, "rolled_back")
  \/ Move(j, ActiveStatuses, "failed")

-----------------------------------------------------------------------------
(* update_job.                                                             *)

\* The job is read, without a lock, and found fit to be changed.
ReadForUpdate(r, j) ==
  /\ req[r] = Idle
  /\ j \in 1 .. rows
  /\ status[j] \in {"pending", "paused"}
  /\ Serve(r, "read", j)
  /\ UNCHANGED <<rows, status, config, lock, starts, begun, edits>>

\* The columns that were set are written; the status is not among them.
WriteUpdate(r) ==
  /\ req[r].pc = "read"
  /\ Unlocked(req[r].job)
  /\ edits < MaxEdits
  /\ edits' = edits + 1
  /\ config' = [config EXCEPT ![req[r].job] = edits + 1]
  /\ req' = [req EXCEPT ![r] = Idle]
  /\ UNCHANGED <<rows, status, lock, starts, begun>>

-----------------------------------------------------------------------------

JobNext(j) ==
  \/ Copy(j) \/ Pause(j) \/ Resume(j) \/ Cancel(j) \/ Rollback(j)
  \/ WorkerMoves(j)
  \/ \E r \in Request : Count(r, j) \/ ReadForUpdate(r, j)

Next ==
  \/ Create
  \/ \E j \in Job : JobNext(j)
  \/ \E r \in Request : Admit(r) \/ WriteUpdate(r)

Spec == Init /\ [][Next]_vars

-----------------------------------------------------------------------------
(* Properties.                                                             *)

\* However many requests race, a job is started at most once: the row lock
\* orders them and the loser finds it no longer pending (job_action).
StartedAtMostOnce == \A j \in Job : starts[j] <= 1

\* Each start saw fewer active jobs than the limit, so the starts admitted
\* exceed it by no more than the requests that raced (job_action).
OvershootBounded ==
  Cardinality(begun) <= Limit + Cardinality(Request) - 1

=============================================================================
