------------------------------ MODULE JobStore -------------------------------
(***************************************************************************)
(* What one labelling job keeps in the three stores its actors share:      *)
(* the PostgreSQL row and checkpoint log, the Redis signal key, and the    *)
(* arq queue; together with the labels its files carry in SharePoint, the  *)
(* in-memory state of each executor and the API's unfinished requests.     *)
(* JobApi and JobExecutor hold the actions of the two kinds of process.    *)
(***************************************************************************)
EXTENDS Integers, Sequences, FiniteSets, SequencesExt, JobStates

CONSTANTS
  Site,         \* SharePoint sites of the tenant
  File,         \* files of those sites
  Listing,      \* [Site -> set of file sequences]: what walking the drives
                \* of a site may return (a drive that fails is left out)
  Label,        \* sensitivity labels
  NoLabel,      \* the empty label id
  InitLabel,    \* [File -> Label or NoLabel]: labels before the job
  Target,       \* config.target_label_id
  DryRuns,      \* values of config.dry_run
  UniqueScope,  \* "job": the declared uq_job_batch constraint;
                \* "type": batch numbers unique per checkpoint type
  BatchSize,    \* _LABELLING_BATCH_SIZE
  MaxTries,     \* WorkerSettings.max_tries
  Allowed,      \* the user actions taken in a run
  MaxRequests,  \* bound: accepted control requests
  MaxCrashes,   \* bound: worker crashes
  MaxFaults     \* bound: failing calls, timeouts, lost dispatches

LabelId == Label \cup {NoLabel}

ASSUME StoreAssumption ==
  /\ NoLabel \notin Label
  /\ Target \in Label
  /\ InitLabel \in [File -> LabelId]
  /\ Listing \in [Site -> SUBSET Seq(File)]
  /\ DryRuns \subseteq BOOLEAN
  /\ UniqueScope \in {"job", "type"}
  /\ BatchSize \in Nat \ {0}
  /\ MaxTries \in Nat \ {0}
  /\ Allowed \subseteq UserActions
  /\ MaxRequests \in Nat
  /\ MaxCrashes \in Nat
  /\ MaxFaults \in Nat

VARIABLES
  job,       \* the jobs row: status, the two totals, config.dry_run
  cps,       \* the job's rows of job_checkpoints
  signal,    \* the Redis key job:{id}:signal
  task,      \* the arq queue: one entry per dispatched task
  w,         \* the executor running each task: its control state
  mem,       \* and the lists it holds in memory
  label,     \* the label each file carries in SharePoint
  requests,  \* control requests accepted so far
  owed,      \* requests committed but not yet dispatched or signalled
  crashes,   \* worker crashes so far
  faults,    \* other faults so far
  excused,   \* history: files whose way back to InitLabel a fault, a crash
             \* or a late worker cut off
  halfway    \* history: a rollback that a signal had stopped was taken for
             \* one that had ended

vars ==
  <<job, cps, signal, task, w, mem, label, requests, owed,
    crashes, faults, excused, halfway>>

NoSignal == "none"
Signals == { "pause", "cancel" }

\* Every accepted request dispatches at most one task; number 0 is the run
\* of a job that the scheduler created.
Task == 0 .. MaxRequests

-----------------------------------------------------------------------------
(* Rows and records.                                                       *)

CheckpointTypes == { "enumeration", "labelling", "rollback" }

\* One element of a checkpoint's applied_labels.
Entry == [file : File, previous : LabelId, dry : BOOLEAN]

\* scope_cursor, flattened: each type uses the fields that belong to it.
\*   sites, total, files: sites_completed, total_files_found, files_in_site
\*   index:   files_processed_index, or rolled_back_count
\*   counted: files_labelled + files_skipped + files_failed
\*   applied: applied_labels
Checkpoint ==
  [type : CheckpointTypes, batch : Nat, sites : SUBSET Site, total : Nat,
   files : Seq(File), index : Nat, counted : Nat, applied : Seq(Entry)]

PCs == { "load", "enumInit", "enum", "list", "enumEnd", "toRunning",
         "labelInit", "label", "capture", "apply", "labelCommit",
         "final", "complete",
         "rbInit", "rb", "undo", "rbCommit", "rbEnd", "rbComplete",
         "ack", "stop", "idle" }

\* An executor's control state. pc is where it stands; st its session's copy
\* of job.status; index the start of its batch (or the next entry to undo);
\* k the files of the batch already handled; seen the signal it has read.
Executor ==
  [pc : PCs, st : Statuses, phase : CheckpointTypes, todo : SUBSET Site,
   sites : SUBSET Site, total : Nat, batch : Nat, index : Nat, k : Nat,
   counted : Nat, seen : Signals]

NewExecutor ==
  [pc |-> "idle", st |-> "pending", phase |-> "enumeration", todo |-> {},
   sites |-> {}, total |-> 0, batch |-> 0, index |-> 0, k |-> 0,
   counted |-> 0, seen |-> "pause"]

\* all_files; the batch_applied of a run or the all_applied of a rollback;
\* the current file's previous_label_id.
Memory == [files : Seq(File), applied : Seq(Entry), previous : LabelId]

NewMemory == [files |-> <<>>, applied |-> <<>>, previous |-> NoLabel]

TaskRow ==
  [kind : {"run", "rollback"}, state : {"none", "queued", "running", "done"},
   tries : 0 .. MaxTries]

\* What a committed request still owes: a task for the queue or a signal.
Debts == { "run", "rollback", "pause", "cancel" }

ControlOK ==
  /\ job \in [status : Statuses, total : Nat, processed : Nat, dry : BOOLEAN]
  /\ \A c \in cps :
       /\ c.type \in CheckpointTypes
       /\ c.batch \in Nat /\ c.total \in Nat
       /\ c.index \in Nat /\ c.counted \in Nat
       /\ c.sites \subseteq Site /\ c.files \in Seq(File)
  /\ signal \in Signals \cup {NoSignal}
  /\ task \in [Task -> TaskRow]
  /\ w \in [Task -> Executor]
  /\ requests \in 0 .. MaxRequests
  /\ owed \in [Debts -> Nat]
  /\ crashes \in 0 .. MaxCrashes
  /\ faults \in 0 .. MaxFaults

\* The type invariant: what control depends on, and the data it moves.
TypeOK ==
  /\ ControlOK
  /\ cps \subseteq Checkpoint
  /\ mem \in [Task -> Memory]
  /\ label \in [File -> LabelId]
  /\ excused \subseteq File
  /\ halfway \in BOOLEAN

-----------------------------------------------------------------------------
(* Queries on the checkpoint log.                                          *)

CpsOf(type) == { c \in cps : c.type = type }

\* ORDER BY batch_number DESC LIMIT 1: ties are broken arbitrarily.
Latest(S) == { c \in S : \A d \in S : d.batch <= c.batch }

\* Mutant: no constraint on the batch number.
InsertableAlways(type, batch) == TRUE

\* The database accepts an INSERT with this type and batch number.
Insertable(type, batch) ==
  \A c \in cps : c.batch = batch => UniqueScope = "type" /\ c.type # type

\* The batch numbers of a type run from 0 without a gap: each is one more
\* than the latest.
Batches(type) ==
  IF CpsOf(type) = {} THEN 0 ELSE Max({ c.batch : c \in CpsOf(type) }) + 1

\* ORDER BY batch_number.
ByBatch(type) ==
  [n \in 1 .. Batches(type) |-> CHOOSE c \in CpsOf(type) : c.batch = n - 1]

\* _collect_enumerated_files: the files of the enumeration checkpoints.
Manifest ==
  FlattenSeq([n \in 1 .. Batches("enumeration") |->
                ByBatch("enumeration")[n].files])

\* all_applied of _rollback: the entries of the labelling checkpoints.
AllApplied ==
  FlattenSeq([n \in 1 .. Batches("labelling") |->
                ByBatch("labelling")[n].applied])

Active(t) == task[t].state = "running"
=============================================================================
