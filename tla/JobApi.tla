------------------------------- MODULE JobApi --------------------------------
(***************************************************************************)
(* The control endpoint job_action of app/routers/jobs.py.  A request      *)
(* locks the row (SELECT ... FOR UPDATE), checks the transition, writes    *)
(* the new status and commits: one action.  The task it enqueues or the    *)
(* signal it sends follows the commit, so that is another action, which a  *)
(* crash of the API process may prevent.                                   *)
(***************************************************************************)
EXTENDS JobStore

\* The transition check and the status write shared by the five actions.
\* requests is the model's bound, not the program's.
Accept(action, to) ==
  /\ action \in Allowed
  /\ requests < MaxRequests
  /\ job.status \in TransitionFrom[action]
  /\ job' = [job EXCEPT !.status = to]
  /\ requests' = requests + 1
  /\ UNCHANGED <<cps, signal, task, w, mem, label, crashes, faults, excused,
                 halfway>>

Owe(debt) == owed' = [owed EXCEPT ![debt] = @ + 1]

Start == Accept("start", "enumerating") /\ Owe("run")

Pause == Accept("pause", "paused") /\ Owe("pause")

\* The type of the latest checkpoint of any type chooses the phase.
Resume ==
  /\ \/ /\ \E c \in Latest(cps) : c.type = "enumeration"
        /\ Accept("resume", "enumerating")
     \/ /\ \/ cps = {}
           \/ \E c \in Latest(cps) : c.type # "enumeration"
        /\ Accept("resume", "running")
  /\ Owe("run")

\* Only a job that was active when it was cancelled is sent the signal.
Cancel ==
  /\ Accept("cancel", "failed")
  /\ IF job.status \in {"enumerating", "running"}
       THEN Owe("cancel")
       ELSE UNCHANGED owed

Rollback == Accept("rollback", "rolling_back") /\ Owe("rollback")

-----------------------------------------------------------------------------
(* After the commit.                                                       *)

Settle(debt) ==
  /\ owed[debt] > 0
  /\ owed' = [owed EXCEPT ![debt] = @ - 1]

\* enqueue_job gives no _job_id, so arq never finds a duplicate.
Dispatch(kind) ==
  /\ kind \in {"run", "rollback"}
  /\ Settle(kind)
  /\ \E t \in Task :
       /\ task[t].state = "none"
       /\ \A u \in Task : u < t => task[u].state # "none"
       /\ task' = [task EXCEPT ![t] = [kind |-> kind, state |-> "queued",
                                       tries |-> 0]]
  /\ UNCHANGED <<job, cps, signal, w, mem, label, requests, crashes, faults,
                 excused, halfway>>

\* send_job_signal overwrites whatever the key holds.
SendSignal(s) ==
  /\ s \in Signals
  /\ Settle(s)
  /\ signal' = s
  /\ UNCHANGED <<job, cps, task, w, mem, label, requests, crashes, faults,
                 excused, halfway>>

\* The API process dies, or Redis refuses, after the commit.
LoseDispatch(debt) ==
  /\ faults < MaxFaults
  /\ faults' = faults + 1
  /\ Settle(debt)
  /\ UNCHANGED <<job, cps, signal, task, w, mem, label, requests, crashes,
                 excused, halfway>>

\* The key's time to live (24 hours) runs out.
SignalExpires ==
  /\ signal # NoSignal
  /\ faults < MaxFaults
  /\ faults' = faults + 1
  /\ signal' = NoSignal
  /\ UNCHANGED <<job, cps, task, w, mem, label, requests, owed, crashes,
                 excused, halfway>>

UserRequest == Start \/ Pause \/ Resume \/ Cancel \/ Rollback

ApiSettle == \E debt \in Debts : Dispatch(debt) \/ SendSignal(debt)

ApiNext ==
  \/ UserRequest
  \/ ApiSettle
  \/ \E debt \in Debts : LoseDispatch(debt)
  \/ SignalExpires
=============================================================================
