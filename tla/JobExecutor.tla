----------------------------- MODULE JobExecutor -----------------------------
(***************************************************************************)
(* The arq tasks run_job and rollback_job (app/worker/settings.py) and the *)
(* JobExecutor they run (app/worker/executor.py).  An executor is a        *)
(* process with its own copy of what it has read: every database read,     *)
(* every commit, every look at the signal key and every Graph call is a    *)
(* step of its own, between which the API and other executors may act.     *)
(***************************************************************************)
EXTENDS JobStore

\* The executor of t, standing at pc, takes a step that changes its locals
\* to those of e.
At(t, pc) == Active(t) /\ w[t].pc = pc

Become(t, e) == w' = [w EXCEPT ![t] = e]

Remember(t, m) == mem' = [mem EXCEPT ![t] = m]

Goto(t, pc) == Become(t, [w[t] EXCEPT !.pc = pc])

\* A faulty step uses up one of the model's faults.
Fault == faults < MaxFaults /\ faults' = faults + 1

\* SQLAlchemy emits an UPDATE only if the value differs from the one this
\* session loaded; the UPDATE has no condition on the value stored now.
WithStatus(t, s) == IF s = w[t].st THEN job.status ELSE s

\* Files this executor has labelled in a batch it has not committed.
Uncommitted(t) ==
  IF task[t].kind = "run"
    THEN { mem[t].applied[i].file : i \in DOMAIN mem[t].applied }
    ELSE {}

\* The task is over, or handed back to the queue, and its session is closed:
\* what it had not committed is lost.
Leave(t, state) ==
  /\ task' = [task EXCEPT ![t].state = state]
  /\ Become(t, NewExecutor)
  /\ Remember(t, NewMemory)

Abandon(t, state) ==
  /\ Leave(t, state)
  /\ excused' = IF job.dry THEN excused ELSE excused \cup Uncommitted(t)

-----------------------------------------------------------------------------
(* arq.                                                                    *)

\* arq starts the task and _load_job reads the row.
BeginTask(t) ==
  /\ task[t].state = "queued"
  /\ task' = [task EXCEPT ![t].state = "running", ![t].tries = @ + 1]
  /\ Become(t, [NewExecutor EXCEPT
                  !.st = job.status,
                  !.pc = IF task[t].kind = "rollback" THEN "rbInit"
                         ELSE CASE job.status = "enumerating" -> "enumInit"
                                [] job.status = "running" -> "labelInit"
                                [] OTHER -> "final"])
  /\ UNCHANGED <<job, cps, signal, mem, label, requests, owed, crashes,
                 faults, excused, halfway>>

Die(t, state) ==
  /\ Active(t)
  /\ crashes < MaxCrashes
  /\ crashes' = crashes + 1
  /\ Abandon(t, state)
  /\ UNCHANGED <<job, cps, signal, label, requests, owed, faults, halfway>>

\* Mutants: the tries are not counted; a lost task is not delivered again.
CrashRetriesForever(t) == Die(t, "queued")
CrashLosesTask(t) == Die(t, "done")

\* The worker process dies; arq delivers the task again until its tries
\* are used up.
Crash(t) == Die(t, IF task[t].tries < MaxTries THEN "queued" ELSE "done")

\* job_timeout: arq cancels the coroutine; CancelledError is no Exception,
\* so no handler of run() or run_rollback() sees it, and arq does not retry.
Timeout(t) ==
  /\ Active(t)
  /\ Fault
  /\ Abandon(t, "done")
  /\ UNCHANGED <<job, cps, signal, label, requests, owed, crashes, halfway>>

\* A call outside the inner try blocks raises: Graph's list of sites, or
\* Redis when the signal is read or deleted.  The handler fails the job.
Raise(t) ==
  /\ Active(t)
  /\ w[t].pc \in {"enumInit", "enum", "list", "label", "rb", "ack"}
  /\ Fault
  /\ job' = [job EXCEPT !.status = "failed"]
  /\ Abandon(t, "done")
  /\ UNCHANGED <<cps, signal, label, requests, owed, crashes, halfway>>

\* Commits checkpoint c and the row r, and goes on as e with memory m.  If
\* the constraint uq_job_batch refuses c, the session stays in its failed
\* transaction, the refresh in the except block raises too, and the task
\* ends with the row as it was.
Commit(t, c, r, e, m) ==
  /\ IF Insertable(c.type, c.batch)
       THEN /\ cps' = cps \cup {c}
            /\ job' = r
            /\ Become(t, e)
            /\ Remember(t, m)
            /\ UNCHANGED <<task, excused>>
       ELSE /\ Abandon(t, "done")
            /\ UNCHANGED <<cps, job>>
  /\ UNCHANGED <<signal, label, requests, owed, crashes, halfway>>

-----------------------------------------------------------------------------
(* Signals, read between sites, drives and batches.                        *)

\* A phase looks at the key where its loop turns.  (Between the drives of a
\* site, too: the files gathered for that site are dropped.)
SeeSignal(t) ==
  /\ \/ At(t, "enum") /\ w[t].todo # {}
     \/ At(t, "list")
     \/ At(t, "label") /\ w[t].index < Len(mem[t].files)
     \/ At(t, "rb") /\ w[t].index < Len(mem[t].applied)
  /\ signal # NoSignal
  /\ Become(t, [w[t] EXCEPT !.pc = "ack", !.seen = signal])
  /\ UNCHANGED <<job, cps, signal, task, mem, label, requests, owed, crashes,
                 faults, excused, halfway>>

\* _handle_signal deletes the key first: whatever it holds by now is gone.
AckSignal(t) ==
  /\ At(t, "ack")
  /\ signal' = NoSignal
  /\ Goto(t, "stop")
  /\ UNCHANGED <<job, cps, task, mem, label, requests, owed, crashes, faults,
                 excused, halfway>>

\* Then it writes the checkpoint of where the phase stopped and the status.
StopOnSignal(t) ==
  LET e == w[t]
      s == IF e.seen = "pause" THEN "paused" ELSE "failed"
      c == [type |-> e.phase, batch |-> e.batch,
            sites |-> e.sites, total |-> e.total, files |-> <<>>,
            index |-> IF e.phase = "rollback" THEN e.counted ELSE e.index,
            counted |-> e.counted, applied |-> <<>>]
  IN /\ At(t, "stop")
     /\ Commit(t, c, [job EXCEPT !.status = WithStatus(t, s)],
               [e EXCEPT !.st = s,
                         !.pc = CASE e.phase = "enumeration" -> "enumEnd"
                                  [] e.phase = "labelling" -> "final"
                                  [] OTHER -> "rbEnd"],
               mem[t])
     /\ UNCHANGED faults

-----------------------------------------------------------------------------
(* Enumeration.                                                            *)

EnumFrom(t, sites, total, batch) ==
  Become(t, [w[t] EXCEPT !.pc = "enum", !.phase = "enumeration",
                         !.todo = Site \ sites, !.sites = sites,
                         !.total = total, !.batch = batch])

\* Resume behind the latest enumeration checkpoint and ask Graph for the
\* sites; the order in which Graph lists them is left open.
EnumInit(t) ==
  /\ At(t, "enumInit")
  /\ \/ CpsOf("enumeration") = {} /\ EnumFrom(t, {}, 0, 0)
     \/ \E c \in Latest(CpsOf("enumeration")) :
          EnumFrom(t, c.sites, c.total, c.batch + 1)
  /\ UNCHANGED <<job, cps, signal, task, mem, label, requests, owed,
                 crashes, faults, excused, halfway>>

\* No signal: go to a site that this run has not looked at.
NextSite(t) ==
  /\ At(t, "enum")
  /\ w[t].todo # {}
  /\ signal = NoSignal
  /\ Goto(t, "list")
  /\ UNCHANGED <<job, cps, signal, task, mem, label, requests, owed, crashes,
                 faults, excused, halfway>>

\* The drives of site s cannot be listed: it is passed over, not completed.
SkipSite(t) ==
  /\ At(t, "list")
  /\ Fault
  /\ \E s \in w[t].todo :
       Become(t, [w[t] EXCEPT !.pc = "enum", !.todo = @ \ {s}])
  /\ UNCHANGED <<job, cps, signal, task, mem, label, requests, owed, crashes,
                 excused, halfway>>

\* The drives of site s are walked and the files found are committed with
\* the checkpoint that declares the site completed.
ListSite(t) ==
  /\ At(t, "list")
  /\ \E s \in w[t].todo : \E fs \in Listing[s] :
       LET e == [w[t] EXCEPT !.sites = @ \cup {s}, !.total = @ + Len(fs)]
           c == [type |-> "enumeration", batch |-> e.batch,
                 sites |-> e.sites, total |-> e.total, files |-> fs,
                 index |-> 0, counted |-> 0, applied |-> <<>>]
       IN Commit(t, c, [job EXCEPT !.total = e.total],
                 [e EXCEPT !.pc = "enum", !.todo = @ \ {s},
                           !.batch = @ + 1],
                 mem[t])
  /\ UNCHANGED faults

\* _enumerate returns, every site looked at or a signal handled; run()
\* re-reads the row and goes on by the status it finds.
AfterEnum(t) ==
  /\ \/ At(t, "enumEnd")
     \/ At(t, "enum") /\ w[t].todo = {}
  /\ Become(t, [w[t] EXCEPT !.st = job.status,
                            !.pc = CASE job.status = "enumerating" -> "toRunning"
                                     [] job.status = "running" -> "labelInit"
                                     [] OTHER -> "final"])
  /\ UNCHANGED <<job, cps, signal, task, mem, label, requests, owed, crashes,
                 faults, excused, halfway>>

RunAndGoto(t, pc) ==
  /\ At(t, "toRunning")
  /\ job' = [job EXCEPT !.status = "running"]
  /\ Become(t, [w[t] EXCEPT !.pc = pc, !.st = "running"])
  /\ UNCHANGED <<cps, signal, task, mem, label, requests, owed, crashes,
                 faults, excused, halfway>>

\* Mutant: the `elif` that the comment in run() warns of.
ToRunningSkipsLabelling(t) == RunAndGoto(t, "final")

\* The status write that follows does not look again.
ToRunning(t) == RunAndGoto(t, "labelInit")

-----------------------------------------------------------------------------
(* Labelling.                                                              *)

\* No label in the config, or no enabled policy: _fail_job.
LabelConfigFails(t) ==
  /\ At(t, "labelInit")
  /\ Fault
  /\ job' = [job EXCEPT !.status = "failed"]
  /\ Become(t, [w[t] EXCEPT !.pc = "final", !.st = "failed"])
  /\ UNCHANGED <<cps, signal, task, mem, label, requests, owed, crashes,
                 excused, halfway>>

\* Collect the files and go on from where the arguments say.
LabelFrom(t, index, counted, batch) ==
  /\ At(t, "labelInit")
  /\ Manifest # <<>>
  /\ Become(t, [w[t] EXCEPT !.pc = "label", !.phase = "labelling",
                            !.index = index, !.counted = counted,
                            !.batch = batch, !.k = 0])
  /\ Remember(t, [NewMemory EXCEPT !.files = Manifest])
  /\ UNCHANGED <<job, cps, signal, task, label, requests, owed, crashes,
                 faults, excused, halfway>>

\* There is nothing to label, or nothing has been labelled yet.
StartLabelling(t) ==
  \/ /\ At(t, "labelInit")
     /\ Manifest = <<>>
     /\ Goto(t, "final")
     /\ UNCHANGED <<job, cps, signal, task, mem, label, requests, owed,
                    crashes, faults, excused, halfway>>
  \/ CpsOf("labelling") = {} /\ LabelFrom(t, 0, 0, 0)

\* Mutant: the position is not restored.
LabelInitFromStart(t) ==
  \/ StartLabelling(t)
  \/ \E c \in Latest(CpsOf("labelling")) :
       LabelFrom(t, 0, c.counted, c.batch + 1)

\* Resume behind the latest labelling checkpoint.
LabelInit(t) ==
  \/ StartLabelling(t)
  \/ \E c \in Latest(CpsOf("labelling")) :
       LabelFrom(t, c.index, c.counted, c.batch + 1)

\* No signal before the next batch.
NextBatch(t) ==
  /\ At(t, "label")
  /\ w[t].index < Len(mem[t].files)
  /\ signal = NoSignal
  /\ Goto(t, "capture")
  /\ UNCHANGED <<job, cps, signal, task, mem, label, requests, owed, crashes,
                 faults, excused, halfway>>

CurrentFile(t) == mem[t].files[w[t].index + w[t].k + 1]

BatchLen(index, list) ==
  IF Len(list) - index < BatchSize THEN Len(list) - index ELSE BatchSize

\* The current file is handled, with n more on the count: on to the next
\* one or to the batch's commit.
FileDone(t, n) ==
  Become(t, [w[t] EXCEPT
    !.k = @ + 1, !.counted = @ + n,
    !.pc = IF w[t].k + 1 = BatchLen(w[t].index, mem[t].files)
             THEN "labelCommit" ELSE "capture"])

\* ... and noted in the batch's applied_labels.
Note(t, dry) ==
  Remember(t, [mem[t] EXCEPT
    !.applied = Append(@, [file |-> CurrentFile(t),
                           previous |-> mem[t].previous, dry |-> dry]),
    !.previous = NoLabel])

Forget(t) == Remember(t, [mem[t] EXCEPT !.previous = NoLabel])

\* A dry run only notes what it would do.
NoteDryRun(t) ==
  /\ At(t, "capture")
  /\ job.dry
  /\ FileDone(t, 1) /\ Note(t, TRUE)
  /\ UNCHANGED <<job, cps, signal, task, label, requests, owed, crashes,
                 faults, excused, halfway>>

\* extract_label, for the rollback; an exception leaves the previous label
\* empty.
Capture(t) ==
  /\ At(t, "capture")
  /\ ~job.dry
  /\ Goto(t, "apply")
  /\ \/ /\ Remember(t, [mem[t] EXCEPT !.previous = label[CurrentFile(t)]])
        /\ UNCHANGED <<faults, excused>>
     \/ /\ Fault
        /\ excused' = excused \cup {CurrentFile(t)}
        /\ UNCHANGED mem
  /\ UNCHANGED <<job, cps, signal, task, label, requests, owed, crashes,
                 halfway>>

\* A rollback has already read the log, so nothing will undo a label
\* applied from here on.
RollbackBegun ==
  \E u \in Task : /\ task[u].kind = "rollback"
                  /\ \/ Active(u) /\ w[u].pc # "rbInit"
                     \/ task[u].state = "done"

\* apply_label succeeds: the file is labelled, counted and noted.
ApplyLabel(t) ==
  /\ At(t, "apply")
  /\ label' = [label EXCEPT ![CurrentFile(t)] = Target]
  /\ FileDone(t, 1) /\ Note(t, FALSE)
  /\ excused' = IF RollbackBegun THEN excused \cup {CurrentFile(t)}
                                 ELSE excused
  /\ UNCHANGED <<job, cps, signal, task, requests, owed, crashes, faults,
                 halfway>>

\* apply_label is refused, as failed or as an unsupported file.
ApplyRefused(t) ==
  /\ At(t, "apply")
  /\ Fault
  /\ FileDone(t, 1) /\ Forget(t)
  /\ UNCHANGED <<job, cps, signal, task, label, requests, owed, crashes,
                 excused, halfway>>

\* The assignment was accepted but its outcome is unknown: a silent failure
\* counts as failed, a timed-out or still running operation is not counted.
\* Either way the label may have been set, and nothing notes it.
ApplyUnknown(t) ==
  /\ At(t, "apply")
  /\ Fault
  /\ label' \in { label, [label EXCEPT ![CurrentFile(t)] = Target] }
  /\ \E n \in {0, 1} : FileDone(t, n)
  /\ Forget(t)
  /\ excused' = excused \cup {CurrentFile(t)}
  /\ UNCHANGED <<job, cps, signal, task, requests, owed, crashes, halfway>>

\* The batch's checkpoint and the job's counters are committed together;
\* the next batch starts with these entries of the applied labels.
CommitBatchLeaving(t, applied) ==
  LET e == w[t]
      end == e.index + e.k
      c == [type |-> "labelling", batch |-> e.batch, sites |-> {},
            total |-> 0, files |-> <<>>, index |-> end,
            counted |-> e.counted, applied |-> mem[t].applied]
  IN /\ At(t, "labelCommit")
     /\ Commit(t, c, [job EXCEPT !.processed = e.counted],
               [e EXCEPT !.pc = "label", !.index = end, !.k = 0,
                         !.batch = @ + 1],
               [mem[t] EXCEPT !.applied = applied])
     /\ UNCHANGED faults

\* Mutant: applied_labels accumulates over the batches of a run.
CommitBatchCumulative(t) == CommitBatchLeaving(t, mem[t].applied)

CommitBatch(t) == CommitBatchLeaving(t, <<>>)

\* _label returns; run() re-reads the row before it decides that the job is
\* completed.
AfterLabel(t) ==
  /\ \/ At(t, "final")
     \/ At(t, "label") /\ w[t].index >= Len(mem[t].files)
  /\ IF job.status = "running"
       THEN /\ Become(t, [w[t] EXCEPT !.pc = "complete", !.st = "running"])
            /\ UNCHANGED <<task, mem>>
       ELSE Leave(t, "done")
  /\ UNCHANGED <<job, cps, signal, label, requests, owed, crashes, faults,
                 excused, halfway>>

Complete(t) ==
  /\ At(t, "complete")
  /\ job' = [job EXCEPT !.status = "completed"]
  /\ Leave(t, "done")
  /\ UNCHANGED <<cps, signal, label, requests, owed, crashes, faults,
                 excused, halfway>>

-----------------------------------------------------------------------------
(* Rollback.                                                               *)

RollbackFrom(t, index, batch) ==
  Become(t, [w[t] EXCEPT !.pc = "rb", !.phase = "rollback",
                         !.index = index, !.counted = index,
                         !.batch = batch, !.k = 0])

\* Collect the entries and resume n entries after the position of the latest
\* rollback checkpoint.  A batch that another executor has not committed yet
\* is missed.
RollbackInitAhead(t, n) ==
  /\ At(t, "rbInit")
  /\ \/ AllApplied = <<>> /\ Goto(t, "rbEnd")
     \/ /\ AllApplied # <<>>
        /\ \/ CpsOf("rollback") = {} /\ RollbackFrom(t, 0, 0)
           \/ \E c \in Latest(CpsOf("rollback")) :
                RollbackFrom(t, c.index + n, c.batch + 1)
  /\ Remember(t, [NewMemory EXCEPT !.applied = AllApplied])
  /\ excused' = IF job.dry THEN excused
                ELSE excused \cup UNION { Uncommitted(u) : u \in Task }
  /\ UNCHANGED <<job, cps, signal, task, label, requests, owed, crashes,
                 faults, halfway>>

\* Mutant: an entry is passed over on every resume.
RollbackInitSkipsOne(t) == RollbackInitAhead(t, 1)

RollbackInit(t) == RollbackInitAhead(t, 0)

NextUndoBatch(t) ==
  /\ At(t, "rb")
  /\ w[t].index < Len(mem[t].applied)
  /\ signal = NoSignal
  /\ Goto(t, "undo")
  /\ UNCHANGED <<job, cps, signal, task, mem, label, requests, owed, crashes,
                 faults, excused, halfway>>

CurrentEntry(t) == mem[t].applied[w[t].index + w[t].k + 1]

\* The entry is handled, with n more on rolled_back.
EntryDone(t, n) ==
  Become(t, [w[t] EXCEPT
    !.k = @ + 1, !.counted = @ + n,
    !.pc = IF w[t].k + 1 = BatchLen(w[t].index, mem[t].applied)
             THEN "rbCommit" ELSE "undo"])

UndoUnless(t, dry) ==
  /\ At(t, "undo")
  /\ label' = IF dry THEN label
              ELSE [label EXCEPT ![CurrentEntry(t).file] =
                                   CurrentEntry(t).previous]
  /\ EntryDone(t, 1)
  /\ UNCHANGED <<job, cps, signal, task, mem, requests, owed, crashes, faults,
                 excused, halfway>>

\* Mutant: the entry's dry_run flag is not looked at.
UndoIgnoresDryRun(t) == UndoUnless(t, FALSE)

\* The previous label is applied again, or the label deleted.
Undo(t) == UndoUnless(t, CurrentEntry(t).dry)

\* A deletion that fails raises and is not counted; apply_label never
\* raises, so a restoration that fails is counted as done.
UndoFails(t) ==
  /\ At(t, "undo")
  /\ ~CurrentEntry(t).dry
  /\ Fault
  /\ EntryDone(t, IF CurrentEntry(t).previous = NoLabel THEN 0 ELSE 1)
  /\ excused' = excused \cup {CurrentEntry(t).file}
  /\ UNCHANGED <<job, cps, signal, task, mem, label, requests, owed, crashes,
                 halfway>>

CommitUndo(t) ==
  LET e == w[t]
      c == [type |-> "rollback", batch |-> e.batch, sites |-> {},
            total |-> 0, files |-> <<>>, index |-> e.counted,
            counted |-> e.counted, applied |-> <<>>]
  IN /\ At(t, "rbCommit")
     /\ Commit(t, c, job,
               [e EXCEPT !.pc = "rb", !.index = @ + e.k, !.k = 0,
                         !.batch = @ + 1],
               mem[t])
     /\ UNCHANGED faults

\* A signal has stopped the rollback; one with nothing to undo returns before
\* its phase begins.
Stopped(t) == At(t, "rbEnd") /\ w[t].phase = "rollback"

\* _rollback returns, and the job is declared rolled back if still is so.
AfterRollbackIf(t, still) ==
  /\ \/ At(t, "rbEnd")
     \/ At(t, "rb") /\ w[t].index >= Len(mem[t].applied)
  /\ IF still
       THEN /\ Become(t, [w[t] EXCEPT !.pc = "rbComplete",
                                      !.st = "rolling_back"])
            /\ UNCHANGED <<task, mem>>
       ELSE Leave(t, "done")
  /\ halfway' = (halfway \/ (Stopped(t) /\ job.status = "rolling_back"))
  /\ UNCHANGED <<job, cps, signal, label, requests, owed, crashes, faults,
                 excused>>

\* Mutant: the row is not looked at again.
AfterRollbackUnread(t) == AfterRollbackIf(t, TRUE)

\* run_rollback re-reads the row and asks no more of it than that it is
\* rolling_back: after a signal it is that again if the user has asked for
\* another rollback meanwhile.
AfterRollback(t) == AfterRollbackIf(t, job.status = "rolling_back")

RollbackComplete(t) ==
  /\ At(t, "rbComplete")
  /\ job' = [job EXCEPT !.status = "rolled_back"]
  /\ Leave(t, "done")
  /\ UNCHANGED <<cps, signal, label, requests, owed, crashes, faults, excused,
                 halfway>>

-----------------------------------------------------------------------------

Signalled(t) == SeeSignal(t) \/ AckSignal(t) \/ StopOnSignal(t)

Enumerate(t) ==
  \/ EnumInit(t) \/ NextSite(t) \/ ListSite(t) \/ SkipSite(t)
  \/ AfterEnum(t) \/ ToRunning(t)

LabelFile(t) ==
  NoteDryRun(t) \/ Capture(t) \/ ApplyLabel(t) \/ ApplyRefused(t)
    \/ ApplyUnknown(t)

LabelPhase(t) ==
  \/ LabelConfigFails(t) \/ LabelInit(t) \/ NextBatch(t) \/ LabelFile(t)
  \/ CommitBatch(t) \/ AfterLabel(t) \/ Complete(t)

RollBack(t) ==
  \/ RollbackInit(t) \/ NextUndoBatch(t) \/ Undo(t) \/ UndoFails(t)
  \/ CommitUndo(t) \/ AfterRollback(t) \/ RollbackComplete(t)

\* What an executor does when its process lives.
Work(t) ==
  BeginTask(t) \/ Signalled(t) \/ Enumerate(t) \/ LabelPhase(t) \/ RollBack(t)

Disrupt(t) == Crash(t) \/ Timeout(t) \/ Raise(t)

ExecutorNext == \E t \in Task : Work(t) \/ Disrupt(t)
=============================================================================
