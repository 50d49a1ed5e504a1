--------------------------- MODULE DeferredLabelling ---------------------------
(***************************************************************************)
(* The labelling phase of a policy-driven job whose large files are        *)
(* classified by tasks of their own: _label of app/worker/executor.py and  *)
(* classify_and_label_file of app/worker/deferred_classify.py.  They share *)
(* the row of the job, whose counters the executor assigns and the tasks   *)
(* increment, the scan results and the files.                              *)
(*                                                                         *)
(* JobSystem has several executors on one job; here a job is resumed only  *)
(* after its executor has stopped, so that there is one at a time.         *)
(***************************************************************************)
EXTENDS Integers, FiniteSets

CONSTANTS
  NumFiles,    \* files of the manifest; a file is its position in it
  Large,       \* those whose text exceeds LARGE_TEXT_THRESHOLD
  BatchSize,   \* _LABELLING_BATCH_SIZE
  MaxTries,    \* WorkerSettings.max_tries
  MaxRuns,     \* bound: deliveries of run_job
  MaxCrashes,  \* bound: crashes of the executor's or a task's worker
  MaxFaults    \* bound: calls that raise, time out or have no known outcome

ASSUME DeferredAssumption ==
  /\ NumFiles \in Nat
  /\ Large \subseteq 1 .. NumFiles
  /\ BatchSize \in Nat \ {0}
  /\ MaxTries \in Nat \ {0}
  /\ MaxRuns \in Nat \ {0}
  /\ MaxCrashes \in Nat
  /\ MaxFaults \in Nat

File == 1 .. NumFiles
Run == 1 .. MaxRuns

\* A scan result belongs to a file and the delivery of run_job that wrote it.
Scan == File \X Run

VARIABLES
  row,       \* the jobs row: status, config.dry_run and the three counters
  signal,    \* a pause signal is waiting
  cp,        \* scope_cursor of the latest labelling checkpoint
  ex,        \* the task run_job and its executor
  scan,      \* scan_results: the outcome of each committed row
  sub,       \* the task classify_and_label_file of each deferred row
  labelled,  \* files that carry a label set by the job
  crashes, faults

vars == <<row, signal, cp, ex, scan, sub, labelled, crashes, faults>>

Outcomes == { "labelled", "skipped", "failed" }

\* files_labelled + files_skipped + files_failed, and two of the summands.
Counts == [processed : Nat, skipped : Nat, failed : Nat]
Zero == [processed |-> 0, skipped |-> 0, failed |-> 0]

Plus(c, outcome) ==
  [processed |-> c.processed + 1,
   skipped |-> c.skipped + (IF outcome = "skipped" THEN 1 ELSE 0),
   failed |-> c.failed + (IF outcome = "failed" THEN 1 ELSE 0)]

Cursor == [index : Nat, counts : Counts]

\* count is the executor's own tally, seen the column values its session has
\* loaded or written, pending the scan results it has not committed.
Executor ==
  [state : {"queued", "running", "done"}, tries : 0 .. MaxTries,
   pc : {"turn", "file", "enqueue"}, run : 0 .. MaxRuns,
   index : Nat, k : Nat, count : Counts, seen : Counts,
   pending : [File -> Outcomes \cup {"none"}]]

Nothing == [f \in File |-> "none"]

\* outcome is what the task is going to record; counted tells whether it
\* increments the job's counter afterwards; handling is set in its except
\* block.
Sub ==
  [state : {"none", "queued", "running", "done"}, tries : 0 .. MaxTries,
   pc : {"classify", "resolve", "count", "close"}, outcome : Outcomes,
   counted : BOOLEAN, handling : BOOLEAN]

NewSub ==
  [state |-> "none", tries |-> 0, pc |-> "classify", outcome |-> "failed",
   counted |-> TRUE, handling |-> FALSE]

TypeOK ==
  /\ row \in [status : {"running", "paused", "completed", "failed"},
              dry : BOOLEAN, counts : Counts]
  /\ signal \in BOOLEAN
  /\ cp \in Cursor
  /\ ex \in Executor
  /\ scan \in [Scan -> Outcomes \cup {"none", "deferred"}]
  /\ sub \in [Scan -> Sub]
  /\ labelled \subseteq File
  /\ crashes \in 0 .. MaxCrashes
  /\ faults \in 0 .. MaxFaults

\* The manifest has been enumerated and the run goes on to label it.
Init ==
  /\ row \in [status : {"running"}, dry : BOOLEAN, counts : {Zero}]
  /\ signal = FALSE
  /\ cp = [index |-> 0, counts |-> Zero]
  /\ ex = [state |-> "queued", tries |-> 0, pc |-> "turn", run |-> 0,
           index |-> 0, k |-> 0, count |-> Zero, seen |-> Zero,
           pending |-> Nothing]
  /\ scan = [s \in Scan |-> "none"]
  /\ sub = [s \in Scan |-> NewSub]
  /\ labelled = {}
  /\ crashes = 0
  /\ faults = 0

Fault == faults < MaxFaults /\ faults' = faults + 1
NoFault == UNCHANGED faults

-----------------------------------------------------------------------------
(* Users.                                                                  *)

\* job_action commits the status; the signal follows.
Pause ==
  /\ row.status = "running"
  /\ row' = [row EXCEPT !.status = "paused"]
  /\ signal' = TRUE
  /\ UNCHANGED <<cp, ex, scan, sub, labelled, crashes, faults>>

Resume ==
  /\ row.status = "paused"
  /\ ex.state = "done"
  /\ ex.run < MaxRuns
  /\ row' = [row EXCEPT !.status = "running"]
  /\ ex' = [ex EXCEPT !.state = "queued", !.tries = 0]
  /\ UNCHANGED <<signal, cp, scan, sub, labelled, crashes, faults>>

-----------------------------------------------------------------------------
(* The executor.                                                           *)

At(pc) == ex.state = "running" /\ ex.pc = pc

Stop(state) ==
  ex' = [ex EXCEPT !.state = state, !.pc = "turn", !.index = 0, !.k = 0,
                   !.count = Zero, !.seen = Zero, !.pending = Nothing]

\* The row is loaded and the latest checkpoint read; a job that is not
\* running is left alone.
Begin ==
  /\ ex.state = "queued"
  /\ ex.run < MaxRuns
  /\ ex' = [ex EXCEPT
              !.state = IF row.status = "running" THEN "running" ELSE "done",
              !.tries = @ + 1, !.run = @ + 1,
              !.index = cp.index, !.count = cp.counts, !.seen = row.counts]
  /\ UNCHANGED <<row, signal, cp, scan, sub, labelled, crashes, faults>>

\* The columns whose value differs from the one the session knows.
Assign(c) == [n \in DOMAIN c |->
  IF c[n] = ex.seen[n] THEN row.counts[n] ELSE c[n]]

StopOnSignal ==
  /\ At("turn")
  /\ ex.index < NumFiles
  /\ signal
  /\ signal' = FALSE
  /\ cp' = [index |-> ex.index, counts |-> ex.count]
  /\ row' = [row EXCEPT !.status = "paused"]
  /\ Stop("done")
  /\ UNCHANGED <<scan, sub, labelled, crashes, faults>>

NextBatch ==
  /\ At("turn")
  /\ ex.index < NumFiles
  /\ ~signal
  /\ ex' = [ex EXCEPT !.pc = "file"]
  /\ UNCHANGED <<row, signal, cp, scan, sub, labelled, crashes, faults>>

\* All batches done: the row is refreshed and, if still running, completed.
Complete ==
  /\ At("turn")
  /\ ex.index >= NumFiles
  /\ row' = IF row.status = "running" THEN [row EXCEPT !.status = "completed"]
                                      ELSE row
  /\ Stop("done")
  /\ UNCHANGED <<signal, cp, scan, sub, labelled, crashes, faults>>

Current == ex.index + ex.k + 1

\* Mutant: the slice is not cut off at the end of the list.
BatchRunsOn == ex.k < BatchSize

BatchOpen == ex.k < BatchSize /\ ex.index + ex.k < NumFiles

\* A small file: outcome o is counted and its scan result added.
Record(o) ==
  ex' = [ex EXCEPT !.k = @ + 1, !.count = Plus(@, o),
                   !.pending[Current] = o]

\* The file cannot be read, no policy matches, or its type is not supported.
SkipFile ==
  /\ At("file") /\ BatchOpen
  /\ Record("skipped")
  /\ UNCHANGED <<row, signal, cp, scan, sub, labelled, crashes, faults>>

\* apply_label completes; a dry run does without it.
LabelFile ==
  /\ At("file") /\ BatchOpen
  /\ Current \notin Large
  /\ Record("labelled")
  /\ labelled' = IF row.dry THEN labelled ELSE labelled \cup {Current}
  /\ UNCHANGED <<row, signal, cp, scan, sub, crashes, faults>>

\* Failed, or a silent failure: accepted by Graph and not seen on the file.
FailFile ==
  /\ At("file") /\ BatchOpen
  /\ Current \notin Large
  /\ ~row.dry
  /\ Fault
  /\ Record("failed")
  /\ labelled' \in { labelled, labelled \cup {Current} }
  /\ UNCHANGED <<row, signal, cp, scan, sub, crashes>>

\* A result that is timed out or still running matches no branch: the file
\* is neither counted nor recorded.
UnansweredFile ==
  /\ At("file") /\ BatchOpen
  /\ Current \notin Large
  /\ ~row.dry
  /\ Fault
  /\ ex' = [ex EXCEPT !.k = @ + 1]
  /\ labelled' \in { labelled, labelled \cup {Current} }
  /\ UNCHANGED <<row, signal, cp, scan, sub, crashes>>

\* The session's scan results, and those in new, are committed.
Flush(new) ==
  scan' = [s \in Scan |-> IF s[2] = ex.run /\ ex.pending[s[1]] # "none"
                            THEN ex.pending[s[1]]
                          ELSE IF s \in new THEN "deferred" ELSE scan[s]]

\* A large file: the placeholder is committed, and with it whatever the
\* batch has recorded so far, but no checkpoint.
DeferCommit ==
  /\ At("file") /\ BatchOpen
  /\ Current \in Large
  /\ Flush({<<Current, ex.run>>})
  /\ ex' = [ex EXCEPT !.pc = "enqueue", !.pending = Nothing]
  /\ UNCHANGED <<row, signal, cp, sub, labelled, crashes, faults>>

EnqueueCounting(count) ==
  /\ At("enqueue")
  /\ sub' = [sub EXCEPT ![<<Current, ex.run>>].state = "queued"]
  /\ ex' = [ex EXCEPT !.pc = "file", !.k = @ + 1, !.count = count]
  /\ UNCHANGED <<row, signal, cp, scan, labelled, crashes, faults>>

\* Mutant: a deferred file counts towards the batch as well.
DeferEnqueueCounts == EnqueueCounting(Plus(ex.count, "labelled"))

\* Then the task is enqueued; its file is not counted here.
DeferEnqueue == EnqueueCounting(ex.count)

CommitUpTo(index) ==
  /\ At("file") /\ ~BatchOpen
  /\ Flush({})
  /\ cp' = [index |-> index, counts |-> ex.count]
  /\ row' = [row EXCEPT !.counts = Assign(ex.count)]
  /\ ex' = [ex EXCEPT !.pc = "turn", !.index = index, !.k = 0,
                      !.seen = ex.count, !.pending = Nothing]
  /\ UNCHANGED <<signal, sub, labelled, crashes, faults>>

\* Mutant: the index counts a whole batch and one file more.
CommitBatchOverrun == CommitUpTo(ex.index + BatchSize + 1)

\* The checkpoint, the counters and the scan results in one transaction.
CommitBatch == CommitUpTo(ex.index + ex.k)

\* The signal cannot be read or the task not enqueued: the job fails.
ExecutorRaises ==
  /\ \/ At("turn") /\ ex.index < NumFiles
     \/ At("enqueue")
  /\ Fault
  /\ row' = [row EXCEPT !.status = "failed"]
  /\ Stop("done")
  /\ UNCHANGED <<signal, cp, scan, sub, labelled, crashes>>

ExecutorCrashes ==
  /\ ex.state = "running"
  /\ crashes < MaxCrashes
  /\ crashes' = crashes + 1
  /\ Stop(IF ex.tries < MaxTries THEN "queued" ELSE "done")
  /\ UNCHANGED <<row, signal, cp, scan, sub, labelled, faults>>

HandleFile ==
  \/ SkipFile \/ LabelFile \/ FailFile \/ UnansweredFile
  \/ DeferCommit \/ DeferEnqueue

Execute == Begin \/ StopOnSignal \/ NextBatch \/ HandleFile \/ CommitBatch
             \/ Complete

-----------------------------------------------------------------------------
(* The task of scan result s.                                              *)

SubAt(s, pc) == sub[s].state = "running" /\ sub[s].pc = pc

SubGoto(s, pc) == sub' = [sub EXCEPT ![s].pc = pc]

\* The task ends, or goes back to the queue; its locals are gone.
SubLeaves(s, state) ==
  sub' = [sub EXCEPT ![s] =
    [NewSub EXCEPT !.state = state,
                   !.tries = IF state = "queued" THEN sub[s].tries ELSE 0]]

SubBegin(s) ==
  /\ sub[s].state = "queued"
  /\ sub' = [sub EXCEPT ![s] = [NewSub EXCEPT !.state = "running",
                                              !.tries = sub[s].tries + 1]]
  /\ UNCHANGED <<row, signal, cp, ex, scan, labelled, crashes, faults>>

\* What the task found out, and whether it is going to count it.
Decide(s, outcome, counted) ==
  sub' = [sub EXCEPT ![s].pc = "resolve", ![s].outcome = outcome,
                     ![s].counted = counted]

\* No policy matches, or the file type is not supported.
SubSkips(s) ==
  /\ SubAt(s, "classify")
  /\ Decide(s, "skipped", TRUE)
  /\ UNCHANGED <<row, signal, cp, ex, scan, labelled, crashes, faults>>

SubLabelsUnless(s, dry) ==
  /\ SubAt(s, "classify")
  /\ Decide(s, "labelled", TRUE)
  /\ labelled' = IF dry THEN labelled ELSE labelled \cup {s[1]}
  /\ UNCHANGED <<row, signal, cp, ex, scan, crashes, faults>>

\* Mutant: the task is not told that the job is a dry run.
SubLabelsAlways(s) == SubLabelsUnless(s, FALSE)

\* The label of the policy that matches is applied, or only recorded.
SubLabels(s) == SubLabelsUnless(s, row.dry)

SubLabelFailsAs(s, outcome) ==
  /\ SubAt(s, "classify")
  /\ ~row.dry
  /\ Fault
  /\ Decide(s, outcome, TRUE)
  /\ labelled' \in { labelled, labelled \cup {s[1]} }
  /\ UNCHANGED <<row, signal, cp, ex, scan, crashes>>

\* Mutant: whatever Graph has accepted is taken for labelled.
SubTrustsAccepted(s) == SubLabelFailsAs(s, "labelled")

\* Failed, a silent failure, timed out or still running.
SubLabelFails(s) == SubLabelFailsAs(s, "failed")

\* The classifier reports an error: recorded, but not counted.
SubCannotClassify(s) ==
  /\ SubAt(s, "classify")
  /\ Fault
  /\ Decide(s, "failed", FALSE)
  /\ UNCHANGED <<row, signal, cp, ex, scan, labelled, crashes>>

\* _update_scan_result commits the outcome.
SubResolves(s) ==
  /\ SubAt(s, "resolve")
  /\ scan' = [scan EXCEPT ![s] = sub[s].outcome]
  /\ SubGoto(s, IF sub[s].counted THEN "count" ELSE "close")
  /\ UNCHANGED <<row, signal, cp, ex, labelled, crashes, faults>>

\* _increment_job_counter: an UPDATE relative to the stored value.
SubCounts(s) ==
  /\ SubAt(s, "count")
  /\ row' = [row EXCEPT !.counts = Plus(@, sub[s].outcome)]
  /\ SubGoto(s, "close")
  /\ UNCHANGED <<signal, cp, ex, scan, labelled, crashes, faults>>

\* The audit event is committed and the task ends.
SubCloses(s) ==
  /\ SubAt(s, "close")
  /\ SubLeaves(s, "done")
  /\ UNCHANGED <<row, signal, cp, ex, scan, labelled, crashes, faults>>

\* A statement raises.  The except block records a failure and counts it,
\* whatever has been recorded and counted before; if it raises itself, the
\* task ends.
SubRaises(s) ==
  /\ sub[s].state = "running"
  /\ Fault
  /\ IF sub[s].handling
       THEN SubLeaves(s, "done")
       ELSE sub' = [sub EXCEPT ![s].pc = "resolve", ![s].outcome = "failed",
                               ![s].counted = TRUE, ![s].handling = TRUE]
  /\ UNCHANGED <<row, signal, cp, ex, scan, labelled, crashes>>

\* arq's timeout cancels the task; no except block sees that.
SubTimesOut(s) ==
  /\ sub[s].state = "running"
  /\ Fault
  /\ SubLeaves(s, "done")
  /\ UNCHANGED <<row, signal, cp, ex, scan, labelled, crashes>>

SubDies(s, state) ==
  /\ sub[s].state = "running"
  /\ crashes < MaxCrashes
  /\ crashes' = crashes + 1
  /\ SubLeaves(s, state)
  /\ UNCHANGED <<row, signal, cp, ex, scan, labelled, faults>>

\* Mutant: a task that was lost is not delivered again.
SubCrashLosesTask(s) == SubDies(s, "done")

SubCrashes(s) ==
  SubDies(s, IF sub[s].tries < MaxTries THEN "queued" ELSE "done")

Classify(s) ==
  \/ SubBegin(s) \/ SubSkips(s) \/ SubLabels(s) \/ SubLabelFails(s)
  \/ SubCannotClassify(s) \/ SubResolves(s) \/ SubCounts(s) \/ SubCloses(s)

SubDisrupted(s) == SubRaises(s) \/ SubTimesOut(s) \/ SubCrashes(s)

-----------------------------------------------------------------------------

Next ==
  \/ Pause \/ Resume
  \/ Execute \/ ExecutorRaises \/ ExecutorCrashes
  \/ \E s \in Scan : Classify(s) \/ SubDisrupted(s)

Spec == Init /\ [][Next]_vars

\* A live worker goes on; users, crashes and faults are not fair.
FairSpec == Spec /\ WF_vars(Execute) /\ \A s \in Scan : WF_vars(Classify(s))

-----------------------------------------------------------------------------
(* Properties.                                                             *)

Resolved == { s \in Scan : scan[s] \in Outcomes }

\* The two writers of processed_files never count more than there are
\* results: every crash and every error adds at most one, however the
\* executor's assignments and the tasks' increments interleave (_label,
\* _increment_job_counter).
NeverOvercounts ==
  row.counts.processed <= Cardinality(Resolved) + crashes + faults

\* A result recorded as labelled is the truth, whoever recorded it and
\* however often it was delivered; a dry run touches nothing (_label,
\* classify_and_label_file).
ResultsAreTrue ==
  /\ \A s \in Scan : scan[s] = "labelled" => row.dry \/ s[1] \in labelled
  /\ row.dry => labelled = {}

\* The task of s is going to resolve it.
InHand(s) == scan[s] = "deferred" /\ sub[s].state \in {"queued", "running"}

\* A job is completed only when every file has a result or a task that will
\* find one, although placeholders are committed in the middle of a batch
\* whose checkpoint a crash may prevent (_enqueue_deferred_classification).
\* With MaxTries crashes a task may have used up its deliveries.
CompletedAccountsForAll ==
  row.status = "completed" /\ faults = 0 /\ crashes < MaxTries =>
    \A f \in File : \E r \in Run : <<f, r>> \in Resolved \/ InHand(<<f, r>>)

\* Nobody has anything left to do.
Settled ==
  /\ row.status = "completed"
  /\ ex.state = "done"
  /\ \A s \in Scan : sub[s].state \in {"none", "done"}

\* The counters of a job that nothing has disturbed agree with its results:
\* executor and tasks do not conflict, as a comment in _label says.
CountsEveryResult ==
  Settled /\ crashes = 0 /\ faults = 0 =>
    row.counts.processed = Cardinality(Resolved)

\* Every file of a completed job gets its result in the end, a crash
\* notwithstanding, unless a call fails (classify_and_label_file, with
\* max_tries).
EachFileResolves ==
  row.status = "completed" ~>
    faults > 0 \/ \A f \in File : \E r \in Run : <<f, r>> \in Resolved
=============================================================================
