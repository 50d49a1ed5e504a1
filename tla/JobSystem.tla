------------------------------ MODULE JobSystem ------------------------------
(***************************************************************************)
(* One job of the SaaS product: the control endpoint and the executors,    *)
(* composed over the shared stores.                                        *)
(***************************************************************************)
EXTENDS JobApi, JobExecutor

\* create_job leaves the row pending; trigger_scheduled_jobs commits a clone
\* that is enumerating already and then enqueues its run.
Created(status, debt) ==
  /\ job \in [status : {status}, total : {0}, processed : {0}, dry : DryRuns]
  /\ owed = [d \in Debts |-> IF d = debt THEN 1 ELSE 0]

Init ==
  /\ Created("pending", NoSignal) \/ Created("enumerating", "run")
  /\ cps = {}
  /\ signal = NoSignal
  /\ task = [t \in Task |-> [kind |-> "run", state |-> "none", tries |-> 0]]
  /\ w = [t \in Task |-> NewExecutor]
  /\ mem = [t \in Task |-> NewMemory]
  /\ label = InitLabel
  /\ requests = 0
  /\ crashes = 0
  /\ faults = 0
  /\ excused = {}
  /\ halfway = FALSE

Next == ApiNext \/ ExecutorNext

Spec == Init /\ [][Next]_vars

\* A live API process settles what it has committed, arq starts what is
\* queued and a live worker goes on; nobody has to press a button.
Fairness == WF_vars(ApiSettle) /\ \A t \in Task : WF_vars(Work(t))

FairSpec == Spec /\ Fairness

-----------------------------------------------------------------------------
(* Safety.                                                                 *)

\* A site is completed by at most one checkpoint, so its files enter the
\* manifest once, even while two executors enumerate the same job: the
\* batch number fences the slower of them off (_enumerate).
SitesListedOnce ==
  \A c, d \in CpsOf("enumeration") :
    c.batch < d.batch =>
      /\ c.sites \subseteq d.sites
      /\ d.files # <<>> => c.sites # d.sites

\* The labelling checkpoints partition the manifest: a later batch starts
\* where the batches before it ended, whichever executors wrote them, and
\* no file is noted for the rollback twice (_label, _rollback).
EachFileLoggedOnce ==
  /\ \A c, d \in CpsOf("labelling") : c.batch < d.batch => c.index <= d.index
  /\ \A i, j \in DOMAIN AllApplied :
       AllApplied[i].file = AllApplied[j].file => i = j

\* The totals on the row, which the progress stream shows, are those of the
\* checkpoint log: total_files counts the manifest, and processed_files is
\* the count of the latest labelling checkpoint (_label's counters).
CountersMatchLog ==
  /\ job.total = Len(Manifest)
  /\ \A c \in Latest(CpsOf("labelling")) : job.processed = c.counted
  /\ job.processed <= job.total

\* The progress shown never goes back: not across a pause, a crash, or two
\* executors that write the row in turn (_label, _enumerate).
ProgressNeverGoesBack ==
  [][job'.total >= job.total /\ job'.processed >= job.processed]_job

\* A job is declared completed only when the log covers the whole manifest
\* and, unless a call failed, the manifest covers every site (run).
CompletedMeansProcessed ==
  job.status = "completed" =>
    /\ faults = 0 => \A s \in Site : \E c \in cps : s \in c.sites
    /\ Manifest # <<>> =>
         \E c \in CpsOf("labelling") : c.index = Len(Manifest)

\* Once a job is rolled back, every file carries its former label again,
\* except those whose way back a fault, a crash or a late worker cut off;
\* and except for the job whose rollback a signal stopped and whose user then
\* asked for another before the executor re-read the row: of that one nothing
\* is said (_rollback, run_rollback).
RollbackRestores ==
  job.status = "rolled_back" /\ ~halfway =>
    \A f \in File \ excused : label[f] = InitLabel[f]

\* Refuted: the executor that was stopped declares the other rollback done.
StoppedRollbackRestores ==
  job.status = "rolled_back" =>
    \A f \in File \ excused : label[f] = InitLabel[f]

\* A dry run and its rollback never touch a file (_label, _rollback).
DryRunTouchesNothing == job.dry => label = InitLabel

\* Every change of the row's status is an arrow of the diagram.
FollowsDiagram ==
  [][job'.status # job.status =>
       \E e \in DiagramEdges : e[1] = job.status /\ e[2] = job'.status]_job

\* Without any fault, a job that is rolled back leaves no label behind.
RollbackRemovesLabels ==
  job.status = "rolled_back" /\ faults = 0 /\ crashes = 0 => label = InitLabel

-----------------------------------------------------------------------------
(* Liveness.                                                               *)

\* A job that is active reaches a status in which nothing more is due: a
\* crash is survived, an error is recorded (run, run_rollback).  Nothing makes
\* up for a task that is lost or timed out, which counts as a fault, or whose
\* worker died at each of its tries.
JobSettles ==
  job.status \in {"enumerating", "running", "rolling_back"}
    ~> \/ job.status \in TerminalStatuses \cup {"paused"}
       \/ faults > 0 \/ crashes >= MaxTries

-----------------------------------------------------------------------------
(* What the job promises: see JobProgress.                                 *)

Progress == INSTANCE JobProgress WITH
  Sizes <- { Len(fs) : fs \in UNION { Listing[s] : s \in Site } },
  MaxBatch <- BatchSize,
  status <- job.status,
  sites <- UNION { c.sites : c \in CpsOf("enumeration") },
  total <- Len(Manifest),
  done <- IF CpsOf("labelling") = {} THEN 0
          ELSE (CHOOSE c \in Latest(CpsOf("labelling")) : TRUE).index

\* A job whose worker crashes and is delivered again is indistinguishable
\* from one that ran through: no site and no batch is committed twice or
\* left out, and it does complete (run, with max_tries).
RefinesProgress == Progress!Spec
=============================================================================
