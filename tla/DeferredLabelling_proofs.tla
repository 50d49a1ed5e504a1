----------------------- MODULE DeferredLabelling_proofs ------------------------
(***************************************************************************)
(* Proofs about DeferredLabelling, for any files, batches, tries, runs,    *)
(* crashes and faults.                                                     *)
(***************************************************************************)
EXTENDS DeferredLabelling, FiniteSetTheorems, TLAPS

\* What is queued has a try left; a task that was never queued has used none.
TriesLeft ==
  /\ ex.state = "queued" => ex.tries < MaxTries
  /\ \A s \in Scan : /\ sub[s].state = "queued" => sub[s].tries < MaxTries
                     /\ sub[s].state = "none" => sub[s].tries = 0

\* A running executor has a run of its own, and is about to enqueue a task
\* for one of the files.
Placed ==
  /\ IF ex.state = "running" THEN ex.run \in Run ELSE ex.pc = "turn"
  /\ At("enqueue") => Current \in File

\* The tasks of files that the run, or a later one, has still to reach do not
\* exist yet.
Fresh ==
  \A s \in Scan :
    \/ s[2] > ex.run
    \/ ex.state = "running" /\ s[2] = ex.run /\ s[1] >= Current
    => sub[s].state = "none"

Shape == TypeOK /\ TriesLeft /\ Placed /\ Fresh

\* What is going to be recorded as labelled is labelled already.
Honest ==
  /\ \A f \in File : ex.pending[f] = "labelled" => row.dry \/ f \in labelled
  /\ \A s \in Scan : sub[s].outcome = "labelled" => row.dry \/ s[1] \in labelled

Statuses == {"running", "paused", "completed", "failed"}
ScanTable == [Scan -> Outcomes \cup {"none", "deferred"}]
Row == [status : Statuses, dry : BOOLEAN, counts : Counts]

\* What the assumption says of the sets and records made of constants.
LEMMA Constants ==
  /\ NumFiles \in Nat /\ BatchSize \in Nat \ {0} /\ MaxTries \in Nat \ {0}
  /\ MaxRuns \in Nat \ {0} /\ MaxCrashes \in Nat /\ MaxFaults \in Nat
  /\ File \subseteq Nat /\ Run \subseteq Nat
  /\ \A n \in Nat : n < NumFiles => n + 1 \in File
  /\ Zero \in Counts
  /\ NewSub \in Sub
  /\ Nothing \in [File -> Outcomes \cup {"none"}]
BY DeferredAssumption
   DEF File, Run, Zero, Counts, NewSub, Sub, Outcomes, Nothing

\* Counting one more outcome gives counters again.
LEMMA PlusType ==
  ASSUME NEW c \in Counts, NEW o \in Outcomes
  PROVE  Plus(c, o) \in Counts
BY DEF Plus, Counts, Outcomes

\* So does assigning those columns that the session has changed.
LEMMA AssignType ==
  ASSUME TypeOK, NEW c \in Counts
  PROVE  Assign(c) \in Counts
<1>1. DOMAIN c = {"processed", "skipped", "failed"} /\ row.counts \in Counts
  BY DEF Counts, TypeOK
<1>2. \A n \in DOMAIN c : Assign(c)[n] \in Nat
  BY <1>1 DEF Assign, Counts
<1>. QED
  BY <1>1, <1>2 DEF Assign, Counts

\* The conjuncts of TypeOK but those of the two kinds of task.
Rest ==
  /\ row \in Row /\ signal \in BOOLEAN /\ cp \in Cursor /\ scan \in ScanTable
  /\ labelled \subseteq File
  /\ crashes \in 0 .. MaxCrashes /\ faults \in 0 .. MaxFaults

\* TypeOK, taken apart.
LEMMA TypeParts ==
  ASSUME TypeOK
  PROVE  Rest /\ ex \in Executor /\ sub \in [Scan -> Sub]
BY DEF TypeOK, Rest, Row, Statuses, ScanTable

\* The conjuncts of TypeOK, and an executor that has stopped.
LEMMA Parts ==
  ASSUME TypeOK
  PROVE  /\ row \in Row /\ ex \in Executor /\ sub \in [Scan -> Sub]
         /\ cp \in Cursor /\ crashes \in Nat /\ faults \in Nat
         /\ ex.index \in Nat /\ ex.k \in Nat /\ ex.run \in Nat
         /\ ex.count \in Counts /\ Current \in Nat
         /\ ex.tries \in 0 .. MaxTries
BY Constants DEF TypeOK, Row, Statuses, Executor, Current

\* Initially nothing is placed, queued or recorded.
LEMMA Init_Shape == Init => Shape /\ Honest
<1>. SUFFICES ASSUME Init PROVE Shape /\ Honest
  OBVIOUS
<1>1. ex \in Executor /\ row \in Row /\ cp \in Cursor
  BY Constants DEF Init, Executor, Row, Statuses, Cursor
<1>2. TypeOK
  <2>1. scan \in ScanTable
    BY DEF Init, ScanTable
  <2>2. sub \in [Scan -> Sub]
    BY Constants DEF Init
  <2>3. signal = FALSE /\ labelled = {} /\ crashes = 0 /\ faults = 0
    BY DEF Init
  <2>4. 0 \in 0 .. MaxCrashes /\ 0 \in 0 .. MaxFaults
    BY Constants
  <2>. QED
    BY <1>1, <2>1, <2>2, <2>3, <2>4
       DEF TypeOK, Row, Statuses, ScanTable
<1>3. \A s \in Scan : /\ sub[s].state = "none" /\ sub[s].tries = 0
                      /\ sub[s].outcome = "failed"
  BY DEF Init, NewSub
<1>4. Shape
  BY <1>2, <1>3, Constants DEF Init, Shape, TriesLeft, Placed, Fresh, At
<1>5. Honest
  BY <1>3 DEF Init, Honest, Nothing
<1>. QED
  BY <1>4, <1>5

-----------------------------------------------------------------------------
(* What the steps of the executor and of the tasks do to Shape.            *)

\* A running executor keeps its run and never goes back: the tasks of the
\* files it has still to reach stay fresh.
LEMMA ExMoves ==
  ASSUME Shape, Rest', ex.state = "running",
         ex' \in Executor, ex'.state = "running", ex'.run = ex.run,
         ex'.index + ex'.k >= ex.index + ex.k,
         ex'.pc = "enqueue" => ex'.index + ex'.k + 1 \in File,
         UNCHANGED sub
  PROVE  Shape'
<1>1. TypeOK'
  BY DEF Shape, TypeOK, Rest, Row, Statuses, ScanTable
<1>2. TriesLeft' /\ Placed'
  BY DEF Shape, TriesLeft, Placed, At, Current
<1>3. ex'.index + ex'.k \in Nat /\ ex.index + ex.k \in Nat
  BY Parts DEF Shape, Executor
<1>4. \A s \in Scan : s[1] \in Nat /\ s[2] \in Nat
  BY Constants DEF Scan
<1>5. Fresh'
  BY <1>3, <1>4 DEF Shape, Fresh, Current
<1>. QED
  BY <1>1, <1>2, <1>5 DEF Shape

\* An executor that has stopped has no place to keep.
LEMMA ExStops ==
  ASSUME Shape, Rest', NEW state \in {"queued", "done"}, Stop(state),
         state = "queued" => ex.tries < MaxTries,
         UNCHANGED sub
  PROVE  Shape'
<1>1. /\ ex' \in Executor /\ ex'.state = state /\ ex'.run = ex.run
      /\ ex'.tries = ex.tries /\ ex'.pc = "turn"
  BY Parts, Constants DEF Shape, Stop, Executor
<1>2. TypeOK'
  BY <1>1 DEF Shape, TypeOK, Rest, Row, Statuses, ScanTable
<1>3. TriesLeft' /\ Placed' /\ Fresh'
  BY <1>1 DEF Shape, TriesLeft, Placed, Fresh, At
<1>. QED
  BY <1>2, <1>3 DEF Shape

\* The task of s leaves the tasks that do not exist yet alone.
LEMMA SubMoves ==
  ASSUME Shape, Rest', NEW s \in Scan, sub[s].state \in {"queued", "running"},
         NEW t \in Sub, sub' = [sub EXCEPT ![s] = t], t.state # "none",
         t.state = "queued" => t.tries < MaxTries,
         UNCHANGED ex
  PROVE  Shape'
<1>1. sub' \in [Scan -> Sub] /\ sub'[s] = t
      /\ \A r \in Scan \ {s} : sub'[r] = sub[r]
  BY Parts DEF Shape
<1>2. TypeOK'
  BY <1>1 DEF Shape, TypeOK, Rest, Row, Statuses, ScanTable
<1>3. TriesLeft' /\ Placed' /\ Fresh'
  BY <1>1 DEF Shape, TriesLeft, Placed, Fresh, At, Current
<1>. QED
  BY <1>2, <1>3 DEF Shape

-----------------------------------------------------------------------------
(* The users and the executor.                                             *)

\* Pausing and resuming.
LEMMA UserShape == Shape /\ (Pause \/ Resume) => Shape'
<1>1. ASSUME Shape, Pause PROVE Shape'
  <2>1. Rest'
    BY <1>1, TypeParts DEF Shape, Pause, Rest, Row, Statuses, Cursor
  <2>2. TypeOK'
    BY <1>1, <2>1
       DEF Shape, TypeOK, Rest, Row, Statuses, ScanTable, Pause
  <2>. QED
    BY <1>1, <2>2 DEF Shape, Pause, TriesLeft, Placed, Fresh, At, Current
<1>2. ASSUME Shape, Resume PROVE Shape'
  <2>1. Rest'
    BY <1>2, TypeParts DEF Shape, Resume, Rest, Row, Statuses, Cursor
  <2>2. /\ ex' \in Executor /\ ex'.state = "queued" /\ ex'.tries = 0
        /\ ex'.run = ex.run /\ ex'.pc = ex.pc /\ ex.state = "done"
    <3>1. ex' = [ex EXCEPT !.state = "queued", !.tries = 0] /\ ex.state = "done"
      BY <1>2 DEF Resume
    <3>2. ex \in Executor /\ 0 \in 0 .. MaxTries
      BY <1>2, Parts, Constants DEF Shape
    <3>. QED
      BY <3>1, <3>2 DEF Executor
  <2>3. TypeOK'
    BY <1>2, <2>1, <2>2
       DEF Shape, TypeOK, Rest, Row, Statuses, ScanTable, Resume
  <2>4. TriesLeft' /\ Placed' /\ Fresh'
    BY <1>2, <2>2, Constants
       DEF Shape, Resume, TriesLeft, Placed, Fresh, At, Current
  <2>. QED
    BY <2>3, <2>4 DEF Shape
<1>. QED
  BY <1>1, <1>2

\* Each delivery is a new run, all of whose tasks are fresh.
LEMMA BeginShape == Shape /\ Begin => Shape'
<1>. SUFFICES ASSUME Shape, Begin PROVE Shape'
  OBVIOUS
<1>1. ex' = [ex EXCEPT
                !.state = IF row.status = "running" THEN "running" ELSE "done",
                !.tries = @ + 1, !.run = @ + 1,
                !.index = cp.index, !.count = cp.counts, !.seen = row.counts]
  BY DEF Begin
<1>2. /\ ex \in Executor /\ cp.index \in Nat /\ cp.counts \in Counts
      /\ row.counts \in Counts
  BY Parts DEF Shape, Cursor, Row
<1>3. ex.tries + 1 \in 0 .. MaxTries /\ ex.run + 1 \in 0 .. MaxRuns
  BY Parts, Constants DEF Shape, Begin, TriesLeft
<1>4. /\ ex' \in Executor /\ ex'.state \in {"running", "done"}
      /\ ex'.run = ex.run + 1 /\ ex'.pc = ex.pc
  BY <1>1, <1>2, <1>3 DEF Executor
<1>5. TypeOK'
  BY <1>4 DEF Shape, TypeOK, Begin
<1>6. ex'.pc = "turn" /\ ex'.run \in Run
  BY <1>3, <1>4, Parts, Constants DEF Shape, Placed, Begin, Run
<1>7. TriesLeft' /\ Placed'
  BY <1>4, <1>6 DEF Shape, TriesLeft, Placed, At, Begin
<1>8. \A s \in Scan : s[2] \in Nat
  BY Constants DEF Scan
<1>9. Fresh'
  BY <1>4, <1>8, Parts DEF Shape, Fresh, Begin
<1>. QED
  BY <1>5, <1>7, <1>9 DEF Shape

\* The steps between two files, and those that stop the executor.
LEMMA TurnShape ==
  Shape /\ (StopOnSignal \/ NextBatch \/ Complete \/ ExecutorRaises
              \/ ExecutorCrashes) => Shape'
<1>1. ASSUME Shape, StopOnSignal PROVE Shape'
  <2>1. Rest'
    BY <1>1, TypeParts, Parts
       DEF Shape, StopOnSignal, Rest, Row, Statuses, Cursor, Executor
  <2>. QED
    BY <1>1, <2>1, ExStops DEF StopOnSignal
<1>2. ASSUME Shape, NextBatch PROVE Shape'
  <2>1. Rest'
    BY <1>2, TypeParts DEF Shape, NextBatch, Rest
  <2>2. ex \in Executor /\ ex' = [ex EXCEPT !.pc = "file"]
    BY <1>2, Parts DEF Shape, NextBatch
  <2>3. /\ ex' \in Executor /\ ex'.state = ex.state /\ ex'.run = ex.run
        /\ ex'.index = ex.index /\ ex'.k = ex.k /\ ex'.pc = "file"
    BY <2>2 DEF Executor
  <2>. QED
    BY <1>2, <2>1, <2>3, ExMoves, Parts DEF Shape, NextBatch, At
<1>3. ASSUME Shape, Complete PROVE Shape'
  <2>1. Rest'
    BY <1>3, TypeParts DEF Shape, Complete, Rest, Row, Statuses
  <2>. QED
    BY <1>3, <2>1, ExStops DEF Complete
<1>4. ASSUME Shape, ExecutorRaises PROVE Shape'
  <2>1. faults + 1 \in 0 .. MaxFaults
    BY <1>4, Parts, Constants DEF Shape, ExecutorRaises, Fault
  <2>2. Rest'
    BY <1>4, <2>1, TypeParts
       DEF Shape, ExecutorRaises, Fault, Rest, Row, Statuses
  <2>. QED
    BY <1>4, <2>2, ExStops DEF ExecutorRaises
<1>5. ASSUME Shape, ExecutorCrashes PROVE Shape'
  <2>1. crashes + 1 \in 0 .. MaxCrashes
    BY <1>5, Parts, Constants DEF Shape, ExecutorCrashes
  <2>2. Rest'
    BY <1>5, <2>1, TypeParts DEF Shape, ExecutorCrashes, Rest
  <2>3. CASE ex.tries < MaxTries
    BY <1>5, <2>2, <2>3, ExStops DEF ExecutorCrashes
  <2>4. CASE ~(ex.tries < MaxTries)
    BY <1>5, <2>2, <2>4, ExStops DEF ExecutorCrashes
  <2>. QED
    BY <2>3, <2>4
<1>. QED
  BY <1>1, <1>2, <1>3, <1>4, <1>5

\* A small file is handled: the position moves on by one.
LEMMA NextFile ==
  ASSUME Shape, Rest', At("file"),
         NEW c \in Counts, NEW p \in [File -> Outcomes \cup {"none"}],
         ex' = [ex EXCEPT !.k = @ + 1, !.count = c, !.pending = p],
         UNCHANGED sub
  PROVE  Shape'
<1>1. ex \in Executor /\ ex.k + 1 \in Nat
  BY Parts DEF Shape
<1>2. /\ ex' \in Executor /\ ex'.state = "running" /\ ex'.run = ex.run
      /\ ex'.index = ex.index /\ ex'.k = ex.k + 1 /\ ex'.pc = "file"
  BY <1>1 DEF Executor, At
<1>3. ex.index \in Nat /\ ex.k \in Nat
  BY Parts DEF Shape
<1>. QED
  BY <1>2, <1>3, ExMoves DEF At

\* An outcome noted for the current file.
LEMMA RecordMoves ==
  ASSUME Shape, Rest', At("file"), BatchOpen, NEW o \in Outcomes, Record(o),
         UNCHANGED sub
  PROVE  Shape'
<1>. DEFINE p == [ex.pending EXCEPT ![Current] = o]
<1>1. ex.pending \in [File -> Outcomes \cup {"none"}] /\ Plus(ex.count, o) \in Counts
  BY Parts, PlusType DEF Shape, Executor
<1>2. p \in [File -> Outcomes \cup {"none"}]
  BY <1>1
<1>3. ex' = [ex EXCEPT !.k = @ + 1, !.count = Plus(@, o), !.pending = p]
  BY Parts DEF Shape, Record, Executor
<1>. HIDE DEF p
<1>. QED
  BY <1>1, <1>2, <1>3, NextFile

\* Whatever becomes of a small file.
LEMMA SmallFileShape ==
  Shape /\ (SkipFile \/ LabelFile \/ FailFile \/ UnansweredFile) => Shape'
<1>1. ASSUME Shape, SkipFile PROVE Shape'
  <2>1. Rest'
    BY <1>1, TypeParts DEF Shape, SkipFile, Rest
  <2>. QED
    BY <1>1, <2>1, RecordMoves DEF SkipFile, Outcomes
<1>2. ASSUME Shape, LabelFile PROVE Shape'
  <2>1. Current \in File
    BY <1>2, Parts, Constants DEF Shape, LabelFile, BatchOpen, Current
  <2>2. Rest'
    BY <1>2, <2>1, TypeParts DEF Shape, LabelFile, Rest
  <2>. QED
    BY <1>2, <2>2, RecordMoves DEF LabelFile, Outcomes
<1>3. ASSUME Shape, FailFile PROVE Shape'
  <2>1. Current \in File /\ faults + 1 \in 0 .. MaxFaults
    BY <1>3, Parts, Constants
       DEF Shape, FailFile, BatchOpen, Current, Fault
  <2>2. Rest'
    BY <1>3, <2>1, TypeParts DEF Shape, FailFile, Fault, Rest
  <2>. QED
    BY <1>3, <2>2, RecordMoves DEF FailFile, Outcomes
<1>4. ASSUME Shape, UnansweredFile PROVE Shape'
  <2>1. Current \in File /\ faults + 1 \in 0 .. MaxFaults
    BY <1>4, Parts, Constants
       DEF Shape, UnansweredFile, BatchOpen, Current, Fault
  <2>2. Rest'
    BY <1>4, <2>1, TypeParts DEF Shape, UnansweredFile, Fault, Rest
  <2>3. ex \in Executor /\ ex' = [ex EXCEPT !.k = @ + 1]
    BY <1>4, Parts DEF Shape, UnansweredFile
  <2>4. ex' = [ex EXCEPT !.k = @ + 1, !.count = ex.count,
                         !.pending = ex.pending]
    BY <2>3 DEF Executor
  <2>. QED
    BY <1>4, <2>2, <2>3, <2>4, NextFile, Parts
       DEF Shape, UnansweredFile, Executor
<1>. QED
  BY <1>1, <1>2, <1>3, <1>4

\* Committed scan results stay scan results.
LEMMA FlushType ==
  ASSUME Shape, NEW new, Flush(new)
  PROVE  scan' \in ScanTable
<1>1. /\ ex.pending \in [File -> Outcomes \cup {"none"}]
      /\ scan \in ScanTable
  BY Parts, TypeParts DEF Shape, Executor, Rest
<1>2. \A s \in Scan : s[1] \in File
  BY DEF Scan
<1>3. \A s \in Scan :
        (IF s[2] = ex.run /\ ex.pending[s[1]] # "none" THEN ex.pending[s[1]]
         ELSE IF s \in new THEN "deferred" ELSE scan[s])
          \in Outcomes \cup {"none", "deferred"}
  BY <1>1, <1>2 DEF ScanTable
<1>. QED
  BY <1>3 DEF Flush, ScanTable

\* A large file is recorded and then enqueued, for the first time.
LEMMA LargeFileShape == Shape /\ (DeferCommit \/ DeferEnqueue) => Shape'
<1>1. ASSUME Shape, DeferCommit PROVE Shape'
  <2>1. Current \in File
    BY <1>1, Parts, Constants DEF Shape, DeferCommit, BatchOpen, Current
  <2>2. Rest'
    BY <1>1, FlushType, TypeParts DEF Shape, DeferCommit, Rest
  <2>3. /\ ex \in Executor /\ Nothing \in [File -> Outcomes \cup {"none"}]
        /\ ex' = [ex EXCEPT !.pc = "enqueue", !.pending = Nothing]
    BY <1>1, Parts, Constants DEF Shape, DeferCommit
  <2>4. /\ ex' \in Executor /\ ex'.state = ex.state /\ ex'.run = ex.run
        /\ ex'.index = ex.index /\ ex'.k = ex.k
    BY <2>3 DEF Executor
  <2>5. ex.index \in Nat /\ ex.k \in Nat
    BY <1>1, Parts DEF Shape
  <2>. QED
    BY <1>1, <2>1, <2>2, <2>4, <2>5, ExMoves DEF DeferCommit, At, Current
<1>2. ASSUME Shape, DeferEnqueue PROVE Shape'
  <2>. DEFINE s == <<Current, ex.run>>
  <2>1. s \in Scan
    BY <1>2 DEF Shape, DeferEnqueue, EnqueueCounting, Placed, At, Scan
  <2>2. /\ ex \in Executor /\ ex.k + 1 \in Nat /\ ex.index \in Nat /\ ex.k \in Nat
        /\ ex.count \in Counts /\ sub \in [Scan -> Sub] /\ ex.run \in Nat
    BY <1>2, Parts DEF Shape
  <2>3. ex' = [ex EXCEPT !.pc = "file", !.k = @ + 1, !.count = ex.count]
    BY <1>2 DEF DeferEnqueue, EnqueueCounting
  <2>4. /\ ex' \in Executor /\ ex'.state = ex.state /\ ex'.run = ex.run
        /\ ex'.index = ex.index /\ ex'.k = ex.k + 1 /\ ex'.pc = "file"
    BY <2>2, <2>3 DEF Executor
  <2>5. sub[s].state = "none" /\ sub[s].tries = 0
    BY <1>2, <2>1, <2>2
       DEF Shape, TriesLeft, Fresh, DeferEnqueue, EnqueueCounting, At, Current
  <2>6. sub' = [sub EXCEPT ![s].state = "queued"]
    BY <1>2 DEF DeferEnqueue, EnqueueCounting
  <2>. HIDE DEF s
  <2>7. /\ sub' \in [Scan -> Sub] /\ sub'[s].state = "queued"
        /\ sub'[s].tries = 0 /\ \A r \in Scan \ {s} : sub'[r] = sub[r]
    <3>. DEFINE t == [sub[s] EXCEPT !.state = "queued"]
    <3>1. t \in Sub /\ t.state = "queued" /\ t.tries = 0
      BY <2>1, <2>2, <2>5 DEF Sub
    <3>2. sub' = [sub EXCEPT ![s] = t]
      BY <2>6
    <3>. HIDE DEF t
    <3>. QED
      BY <2>1, <2>2, <3>1, <3>2
  <2>8. TypeOK'
    BY <1>2, <2>4, <2>7 DEF Shape, TypeOK, DeferEnqueue, EnqueueCounting
  <2>9. TriesLeft' /\ Placed'
    <3>1. TriesLeft /\ Placed /\ ex.state = "running"
      BY <1>2 DEF Shape, DeferEnqueue, EnqueueCounting, At
    <3>2. TriesLeft'
      <4>1. \A r \in Scan \ {s} : /\ sub'[r].state = "queued" => sub'[r].tries < MaxTries
                                 /\ sub'[r].state = "none" => sub'[r].tries = 0
        BY <2>7, <3>1 DEF TriesLeft
      <4>2. 0 < MaxTries
        BY Constants
      <4>. QED
        BY <2>4, <2>7, <3>1, <4>1, <4>2 DEF TriesLeft
    <3>3. Placed'
      BY <2>4, <3>1 DEF Placed, At
    <3>. QED
      BY <3>2, <3>3
  <2>10. \A r \in Scan : r[1] \in Nat /\ r[2] \in Nat
    BY Constants DEF Scan
  <2>11. s[1] = ex.index + ex.k + 1 /\ s[2] = ex.run /\ ex.state = "running"
    BY <1>2 DEF s, Current, DeferEnqueue, EnqueueCounting, At
  <2>12. Fresh'
    <3>. SUFFICES ASSUME NEW r \in Scan,
                         \/ r[2] > ex'.run
                         \/ r[2] = ex'.run /\ r[1] >= ex'.index + ex'.k + 1
                  PROVE  sub'[r].state = "none"
      BY DEF Fresh, Current
    <3>1. r # s
      BY <2>2, <2>4, <2>10, <2>11
    <3>2. sub[r].state = "none"
      BY <1>2, <2>2, <2>4, <2>10, <2>11 DEF Shape, Fresh, Current
    <3>. QED
      BY <2>7, <3>1, <3>2
  <2>. QED
    BY <2>8, <2>9, <2>12 DEF Shape
<1>. QED
  BY <1>1, <1>2

\* The end of a batch: the position is the same, its two parts are not.
LEMMA CommitShape == Shape /\ CommitBatch => Shape'
<1>. SUFFICES ASSUME Shape, CommitBatch PROVE Shape'
  OBVIOUS
<1>1. /\ ex \in Executor /\ ex.index \in Nat /\ ex.k \in Nat
      /\ ex.count \in Counts /\ row \in Row
      /\ Nothing \in [File -> Outcomes \cup {"none"}]
  BY Parts, Constants DEF Shape
<1>2. Assign(ex.count) \in Counts
  BY <1>1, AssignType DEF Shape
<1>3. row' \in Row
  BY <1>1, <1>2 DEF CommitBatch, CommitUpTo, Row
<1>4. cp' \in Cursor
  BY <1>1 DEF CommitBatch, CommitUpTo, Cursor
<1>5. Rest'
  BY <1>3, <1>4, FlushType, TypeParts
     DEF Shape, CommitBatch, CommitUpTo, Rest
<1>6. ex' = [ex EXCEPT !.pc = "turn", !.index = ex.index + ex.k, !.k = 0,
                       !.seen = ex.count, !.pending = Nothing]
  BY DEF CommitBatch, CommitUpTo
<1>7. /\ ex' \in Executor /\ ex'.state = ex.state /\ ex'.run = ex.run
      /\ ex'.index = ex.index + ex.k /\ ex'.k = 0 /\ ex'.pc = "turn"
  <2>. DEFINE i == ex.index + ex.k
  <2>1. i \in Nat
    BY <1>1
  <2>2. ex' = [ex EXCEPT !.pc = "turn", !.index = i, !.k = 0,
                         !.seen = ex.count, !.pending = Nothing]
    BY <1>6
  <2>. HIDE DEF i
  <2>3. /\ ex' \in Executor /\ ex'.state = ex.state /\ ex'.run = ex.run
        /\ ex'.index = i /\ ex'.k = 0 /\ ex'.pc = "turn"
    BY <1>1, <2>1, <2>2 DEF Executor
  <2>. QED
    BY <2>3 DEF i
<1>. QED
  BY <1>1, <1>5, <1>7, ExMoves DEF CommitBatch, CommitUpTo, At

-----------------------------------------------------------------------------
(* The tasks.                                                              *)

\* A running task goes on with other locals.
LEMMA SubContinues ==
  ASSUME Shape, Rest', NEW s \in Scan, sub[s].state = "running",
         NEW p \in {"resolve", "count", "close"}, NEW o \in Outcomes,
         NEW c \in BOOLEAN, NEW h \in BOOLEAN,
         sub' = [sub EXCEPT ![s] = [sub[s] EXCEPT
                   !.pc = p, !.outcome = o, !.counted = c, !.handling = h]],
         UNCHANGED ex
  PROVE  Shape'
<1>. DEFINE t == [sub[s] EXCEPT
                   !.pc = p, !.outcome = o, !.counted = c, !.handling = h]
<1>1. sub[s] \in Sub
  BY Parts DEF Shape
<1>2. t \in Sub /\ t.state = "running"
  BY <1>1 DEF Sub
<1>3. sub' = [sub EXCEPT ![s] = t]
  OBVIOUS
<1>. HIDE DEF t
<1>. QED
  BY <1>2, <1>3, SubMoves

\* A task that begins, ends or goes back to the queue.
LEMMA SubRestarts ==
  ASSUME Shape, Rest', NEW s \in Scan, sub[s].state \in {"queued", "running"},
         NEW state \in {"queued", "running", "done"}, NEW n \in 0 .. MaxTries,
         state = "queued" => n < MaxTries,
         sub' = [sub EXCEPT ![s] = [NewSub EXCEPT !.state = state, !.tries = n]],
         UNCHANGED ex
  PROVE  Shape'
<1>. DEFINE t == [NewSub EXCEPT !.state = state, !.tries = n]
<1>1. t \in Sub /\ t.state = state /\ t.tries = n
  BY Constants DEF Sub
<1>2. sub' = [sub EXCEPT ![s] = t]
  OBVIOUS
<1>. HIDE DEF t
<1>. QED
  BY <1>1, <1>2, SubMoves

\* A running task that ends, or that is queued with a try left.
LEMMA SubLeavesShape ==
  ASSUME Shape, Rest', NEW s \in Scan, sub[s].state = "running",
         NEW state \in {"queued", "done"}, SubLeaves(s, state),
         state = "queued" => sub[s].tries < MaxTries,
         UNCHANGED ex
  PROVE  Shape'
<1>1. sub[s].tries \in 0 .. MaxTries /\ 0 \in 0 .. MaxTries
  BY Parts, Constants DEF Shape, Sub
<1>2. CASE state = "queued"
  <2>1. sub' = [sub EXCEPT ![s] =
                  [NewSub EXCEPT !.state = "queued", !.tries = sub[s].tries]]
    BY <1>2 DEF SubLeaves
  <2>. QED
    BY <1>1, <1>2, <2>1, SubRestarts
<1>3. CASE state = "done"
  <2>1. sub' = [sub EXCEPT ![s] = [NewSub EXCEPT !.state = "done", !.tries = 0]]
    BY <1>3 DEF SubLeaves
  <2>. QED
    BY <1>1, <1>3, <2>1, SubRestarts
<1>. QED
  BY <1>2, <1>3

\* What the task decides to record.
LEMMA DecideShape ==
  ASSUME Shape, Rest', NEW s \in Scan, SubAt(s, "classify"),
         NEW o \in Outcomes, NEW c \in BOOLEAN, Decide(s, o, c), UNCHANGED ex
  PROVE  Shape'
<1>1. sub \in [Scan -> Sub] /\ sub[s] \in Sub
  BY Parts DEF Shape
<1>2. sub[s].handling \in BOOLEAN
  BY <1>1 DEF Sub
<1>3. sub' = [sub EXCEPT ![s] = [sub[s] EXCEPT !.pc = "resolve",
                !.outcome = o, !.counted = c, !.handling = sub[s].handling]]
  BY <1>1 DEF Decide, Sub
<1>. QED
  BY <1>2, <1>3, SubContinues DEF SubAt

\* The steps of an undisturbed task.
LEMMA ClassifyShape ==
  ASSUME Shape, NEW s \in Scan, Classify(s)
  PROVE  Shape'
<1>1. s[1] \in File /\ sub \in [Scan -> Sub] /\ sub[s] \in Sub
  BY Parts DEF Shape, Scan
<1>2. CASE SubBegin(s)
  <2>1. Rest'
    BY <1>2, TypeParts DEF Shape, SubBegin, Rest
  <2>2. sub[s].tries + 1 \in 0 .. MaxTries
    BY <1>1, <1>2, Constants DEF Shape, TriesLeft, SubBegin, Sub
  <2>. QED
    BY <1>2, <2>1, <2>2, SubRestarts DEF SubBegin
<1>3. CASE SubSkips(s)
  <2>1. Rest'
    BY <1>3, TypeParts DEF Shape, SubSkips, Rest
  <2>. QED
    BY <1>3, <2>1, DecideShape DEF SubSkips, Outcomes
<1>4. CASE SubLabels(s)
  <2>1. Rest'
    BY <1>1, <1>4, TypeParts DEF Shape, SubLabels, SubLabelsUnless, Rest
  <2>. QED
    BY <1>4, <2>1, DecideShape DEF SubLabels, SubLabelsUnless, Outcomes
<1>5. CASE SubLabelFails(s)
  <2>1. faults + 1 \in 0 .. MaxFaults
    BY <1>5, Parts, Constants DEF Shape, SubLabelFails, SubLabelFailsAs, Fault
  <2>2. Rest'
    BY <1>1, <1>5, <2>1, TypeParts
       DEF Shape, SubLabelFails, SubLabelFailsAs, Fault, Rest
  <2>. QED
    BY <1>5, <2>2, DecideShape DEF SubLabelFails, SubLabelFailsAs, Outcomes
<1>6. CASE SubCannotClassify(s)
  <2>1. faults + 1 \in 0 .. MaxFaults
    BY <1>6, Parts, Constants DEF Shape, SubCannotClassify, Fault
  <2>2. Rest'
    BY <1>6, <2>1, TypeParts DEF Shape, SubCannotClassify, Fault, Rest
  <2>. QED
    BY <1>6, <2>2, DecideShape DEF SubCannotClassify, Outcomes
<1>7. CASE SubResolves(s)
  <2>1. sub[s].outcome \in Outcomes /\ sub[s].counted \in BOOLEAN
        /\ sub[s].handling \in BOOLEAN
    BY <1>1 DEF Sub
  <2>2. scan' \in ScanTable
    BY <1>7, <2>1, TypeParts DEF Shape, Rest, ScanTable, SubResolves
  <2>3. Rest'
    BY <1>7, <2>2, TypeParts DEF Shape, SubResolves, Rest
  <2>. DEFINE p == IF sub[s].counted THEN "count" ELSE "close"
  <2>4. sub' = [sub EXCEPT ![s] = [sub[s] EXCEPT !.pc = p,
                  !.outcome = sub[s].outcome, !.counted = sub[s].counted,
                  !.handling = sub[s].handling]]
    BY <1>1, <1>7 DEF SubResolves, SubGoto, Sub
  <2>5. p \in {"count", "close"}
    OBVIOUS
  <2>. HIDE DEF p
  <2>. QED
    BY <1>7, <2>1, <2>3, <2>4, <2>5, SubContinues DEF SubResolves, SubAt
<1>8. CASE SubCounts(s)
  <2>1. sub[s].outcome \in Outcomes /\ sub[s].counted \in BOOLEAN
        /\ sub[s].handling \in BOOLEAN
    BY <1>1 DEF Sub
  <2>2. row' \in Row
    BY <1>8, <2>1, PlusType, Parts DEF Shape, SubCounts, Row
  <2>3. Rest'
    BY <1>8, <2>2, TypeParts DEF Shape, SubCounts, Rest
  <2>4. sub' = [sub EXCEPT ![s] = [sub[s] EXCEPT !.pc = "close",
                  !.outcome = sub[s].outcome, !.counted = sub[s].counted,
                  !.handling = sub[s].handling]]
    BY <1>1, <1>8 DEF SubCounts, SubGoto, Sub
  <2>. QED
    BY <1>8, <2>1, <2>3, <2>4, SubContinues DEF SubCounts, SubAt
<1>9. CASE SubCloses(s)
  <2>1. Rest'
    BY <1>9, TypeParts DEF Shape, SubCloses, Rest
  <2>. QED
    BY <1>9, <2>1, SubLeavesShape DEF SubCloses, SubAt
<1>. QED
  BY <1>2, <1>3, <1>4, <1>5, <1>6, <1>7, <1>8, <1>9 DEF Classify

\* Errors, the timeout and crashes of a task.
LEMMA DisruptedShape ==
  ASSUME Shape, NEW s \in Scan, SubDisrupted(s)
  PROVE  Shape'
<1>1. sub \in [Scan -> Sub] /\ sub[s] \in Sub
  BY Parts DEF Shape
<1>2. CASE SubRaises(s)
  <2>1. faults + 1 \in 0 .. MaxFaults
    BY <1>2, Parts, Constants DEF Shape, SubRaises, Fault
  <2>2. Rest'
    BY <1>2, <2>1, TypeParts DEF Shape, SubRaises, Fault, Rest
  <2>3. CASE sub[s].handling
    BY <1>2, <2>2, <2>3, SubLeavesShape DEF SubRaises
  <2>4. CASE ~sub[s].handling
    <3>1. sub' = [sub EXCEPT ![s] = [sub[s] EXCEPT !.pc = "resolve",
                    !.outcome = "failed", !.counted = TRUE, !.handling = TRUE]]
      BY <1>1, <1>2, <2>4 DEF SubRaises, Sub
    <3>. QED
      BY <1>2, <2>2, <3>1, SubContinues DEF SubRaises, Outcomes
  <2>. QED
    BY <2>3, <2>4
<1>3. CASE SubTimesOut(s)
  <2>1. faults + 1 \in 0 .. MaxFaults
    BY <1>3, Parts, Constants DEF Shape, SubTimesOut, Fault
  <2>2. Rest'
    BY <1>3, <2>1, TypeParts DEF Shape, SubTimesOut, Fault, Rest
  <2>. QED
    BY <1>3, <2>2, SubLeavesShape DEF SubTimesOut
<1>4. CASE SubCrashes(s)
  <2>1. crashes + 1 \in 0 .. MaxCrashes
    BY <1>4, Parts, Constants DEF Shape, SubCrashes, SubDies
  <2>2. Rest'
    BY <1>4, <2>1, TypeParts DEF Shape, SubCrashes, SubDies, Rest
  <2>3. CASE sub[s].tries < MaxTries
    BY <1>4, <2>2, <2>3, SubLeavesShape DEF SubCrashes, SubDies
  <2>4. CASE ~(sub[s].tries < MaxTries)
    BY <1>4, <2>2, <2>4, SubLeavesShape DEF SubCrashes, SubDies
  <2>. QED
    BY <2>3, <2>4
<1>. QED
  BY <1>2, <1>3, <1>4 DEF SubDisrupted

\* Stuttering.
LEMMA StutterShape == Shape /\ UNCHANGED vars => Shape'
BY DEF vars, Shape, TypeOK, TriesLeft, Placed, Fresh, At, Current

\* Every step keeps the types and the places.
LEMMA NextShape == Shape /\ [Next]_vars => Shape'
BY UserShape, BeginShape, TurnShape, SmallFileShape, LargeFileShape,
   CommitShape, ClassifyShape, DisruptedShape, StutterShape
   DEF Next, Execute, HandleFile

\* The types of DeferredLabelling, in every run.
THEOREM SpecTypeOK == Spec => []TypeOK
<1>1. Init => Shape
  BY Init_Shape
<1>2. Shape /\ [Next]_vars => Shape'
  BY NextShape
<1>3. Shape => TypeOK
  BY DEF Shape
<1>. QED
  BY <1>1, <1>2, <1>3, PTL DEF Spec

-----------------------------------------------------------------------------
(* What is recorded as labelled is labelled.                               *)

\* A label or a dry run vouches for file f.
Vouched(f) == row.dry \/ f \in labelled

Truth ==
  /\ Honest
  /\ \A s \in Scan : scan[s] = "labelled" => Vouched(s[1])
  /\ row.dry => labelled = {}

\* No step takes a label away or changes the mode of the job.
LEMMA Monotone ==
  ASSUME Shape, [Next]_vars
  PROVE  row'.dry = row.dry /\ labelled \subseteq labelled'
<1>. row \in Row
  BY Parts DEF Shape
<1>1. CASE Pause \/ Resume \/ ExecutorCrashes
  BY <1>1 DEF Pause, Resume, ExecutorCrashes, Row
<1>2. CASE Begin \/ StopOnSignal \/ NextBatch \/ Complete \/ ExecutorRaises
  BY <1>2
     DEF Begin, StopOnSignal, NextBatch, Complete, ExecutorRaises, Row
<1>3. CASE HandleFile \/ CommitBatch
  BY <1>3 DEF HandleFile, SkipFile, LabelFile, FailFile, UnansweredFile,
       DeferCommit, DeferEnqueue, EnqueueCounting, CommitBatch, CommitUpTo, Row
<1>4. ASSUME NEW s \in Scan, Classify(s)
      PROVE  row'.dry = row.dry /\ labelled \subseteq labelled'
  BY <1>4 DEF Classify, SubBegin, SubSkips, SubLabels, SubLabelsUnless,
       SubLabelFails, SubLabelFailsAs, SubCannotClassify, SubResolves,
       SubCounts, SubCloses, Row
<1>5. ASSUME NEW s \in Scan, SubDisrupted(s)
      PROVE  row'.dry = row.dry /\ labelled \subseteq labelled'
  BY <1>5 DEF SubDisrupted, SubRaises, SubTimesOut, SubCrashes, SubDies
<1>6. CASE UNCHANGED vars
  BY <1>6 DEF vars
<1>. QED
  BY <1>1, <1>2, <1>3, <1>4, <1>5, <1>6 DEF Next, Execute

\* It is enough that whatever is new is vouched for.
LEMMA StillTrue ==
  ASSUME Shape, [Next]_vars, Truth, row'.dry => labelled' = {},
         \A f \in File : ex'.pending[f] = "labelled" =>
           ex.pending[f] = "labelled" \/ Vouched(f)',
         \A s \in Scan : sub'[s].outcome = "labelled" =>
           sub[s].outcome = "labelled" \/ Vouched(s[1])',
         \A s \in Scan : scan'[s] = "labelled" =>
           scan[s] = "labelled" \/ Vouched(s[1])'
  PROVE  Truth'
<1>1. row'.dry = row.dry /\ labelled \subseteq labelled'
  BY Monotone
<1>2. \A f : Vouched(f) => Vouched(f)'
  BY <1>1 DEF Vouched
<1>3. \A s \in Scan : s[1] \in File
  BY DEF Scan
<1>4. Honest'
  BY <1>2, <1>3 DEF Truth, Honest, Vouched
<1>. QED
  BY <1>2, <1>4 DEF Truth

\* Nothing noted down is labelled in particular.
LEMMA NothingPending == \A f \in File : Nothing[f] # "labelled"
BY DEF Nothing

\* Where nothing but the positions, the row and the signal changes.
LEMMA ControlTrue ==
  ASSUME Shape, Truth,
         Pause \/ Resume \/ Begin \/ StopOnSignal \/ NextBatch \/ Complete
           \/ ExecutorRaises \/ ExecutorCrashes
  PROVE  Truth'
<1>1. [Next]_vars
  BY DEF Next, Execute
<1>2. UNCHANGED <<scan, sub, labelled>> /\ row'.dry = row.dry
  BY <1>1, Monotone DEF Pause, Resume, Begin, StopOnSignal, NextBatch, Complete,
       ExecutorRaises, ExecutorCrashes
<1>3. ex'.pending = ex.pending \/ ex'.pending = Nothing
  <2>. ex \in Executor
    BY Parts DEF Shape
  <2>1. CASE Pause \/ Resume \/ Begin \/ NextBatch
    BY <2>1 DEF Pause, Resume, Begin, NextBatch, Executor
  <2>2. CASE StopOnSignal \/ Complete \/ ExecutorRaises \/ ExecutorCrashes
    BY <2>2 DEF StopOnSignal, Complete, ExecutorRaises, ExecutorCrashes, Stop,
         Executor
  <2>. QED
    BY <2>1, <2>2
<1>4. \A f \in File : ex'.pending[f] = "labelled" => ex.pending[f] = "labelled"
  BY <1>3, NothingPending
<1>. QED
  BY <1>1, <1>2, <1>4, StillTrue DEF Truth

\* A small file: what the executor notes down is what it has seen.
LEMMA SmallFileTrue ==
  ASSUME Shape, Truth, SkipFile \/ LabelFile \/ FailFile \/ UnansweredFile
  PROVE  Truth'
<1>1. [Next]_vars /\ UNCHANGED <<scan, sub, row>>
  BY DEF Next, Execute, HandleFile, SkipFile, LabelFile, FailFile,
       UnansweredFile
<1>2. row.dry => labelled' = {}
  BY DEF Truth, SkipFile, LabelFile, FailFile, UnansweredFile
<1>3. ASSUME NEW f \in File, ex'.pending[f] = "labelled"
      PROVE  ex.pending[f] = "labelled" \/ Vouched(f)'
  <2>. ex \in Executor /\ ex.pending \in [File -> Outcomes \cup {"none"}]
    BY Parts DEF Shape, Executor
  <2>1. ASSUME NEW o \in Outcomes, Record(o)
        PROVE  ex'.pending[f] = IF f = Current THEN o ELSE ex.pending[f]
    BY <2>1 DEF Record, Executor
  <2>2. CASE SkipFile
    BY <1>3, <2>1, <2>2 DEF SkipFile, Outcomes
  <2>3. CASE LabelFile
    BY <1>1, <1>3, <2>1, <2>3 DEF LabelFile, Outcomes, Vouched
  <2>4. CASE FailFile
    BY <1>3, <2>1, <2>4 DEF FailFile, Outcomes
  <2>5. CASE UnansweredFile
    BY <1>3, <2>5 DEF UnansweredFile, Executor
  <2>. QED
    BY <2>2, <2>3, <2>4, <2>5
<1>. QED
  BY <1>1, <1>2, <1>3, StillTrue

\* The commits of the executor write what was pending, and placeholders.
LEMMA CommitTrue ==
  ASSUME Shape, Truth, DeferCommit \/ CommitBatch
  PROVE  Truth'
<1>1. [Next]_vars /\ UNCHANGED <<sub, labelled>>
  BY DEF Next, Execute, HandleFile, DeferCommit, CommitBatch, CommitUpTo
<1>2. row'.dry = row.dry
  BY <1>1, Monotone
<1>3. PICK new : Flush(new)
  BY DEF DeferCommit, CommitBatch, CommitUpTo
<1>4. \A s \in Scan : scan'[s] = "labelled" =>
        scan[s] = "labelled" \/ ex.pending[s[1]] = "labelled"
  BY <1>3 DEF Flush
<1>5. \A s \in Scan : s[1] \in File
  BY DEF Scan
<1>6. \A f \in File : ex.pending[f] = "labelled" => Vouched(f)'
  BY <1>1, <1>2 DEF Truth, Honest, Vouched
<1>7. ex'.pending = Nothing
  <2>. ex \in Executor
    BY Parts DEF Shape
  <2>. QED
    BY DEF DeferCommit, CommitBatch, CommitUpTo, Executor
<1>. QED
  BY <1>1, <1>2, <1>4, <1>5, <1>6, <1>7, NothingPending, StillTrue DEF Truth

\* To enqueue a task records nothing.
LEMMA EnqueueTrue == ASSUME Shape, Truth, DeferEnqueue PROVE Truth'
<1>1. [Next]_vars /\ UNCHANGED <<row, scan, labelled>>
  BY DEF Next, Execute, HandleFile, DeferEnqueue, EnqueueCounting
<1>2. ex'.pending = ex.pending
  <2>. ex \in Executor
    BY Parts DEF Shape
  <2>. QED
    BY DEF DeferEnqueue, EnqueueCounting, Executor
<1>3. \A s \in Scan : sub'[s].outcome = sub[s].outcome
  <2>. sub \in [Scan -> Sub]
    BY Parts DEF Shape
  <2>. QED
    BY DEF DeferEnqueue, EnqueueCounting, Sub
<1>. QED
  BY <1>1, <1>2, <1>3, StillTrue DEF Truth

\* The task of s: what it has decided to record, it has done.
LEMMA SubTrue ==
  ASSUME Shape, Truth, NEW s \in Scan, Classify(s) \/ SubDisrupted(s)
  PROVE  Truth'
<1>1. [Next]_vars
  BY DEF Next
<1>2. UNCHANGED ex /\ row'.dry = row.dry
  BY <1>1, Monotone DEF Classify, SubDisrupted, SubBegin, SubSkips, SubLabels,
       SubLabelsUnless, SubLabelFails, SubLabelFailsAs, SubCannotClassify,
       SubResolves, SubCounts, SubCloses, SubRaises, SubTimesOut, SubCrashes,
       SubDies
<1>3. sub \in [Scan -> Sub] /\ sub[s] \in Sub /\ s[1] \in File
  BY Parts DEF Shape, Scan
<1>4. ASSUME NEW r \in Scan, scan'[r] = "labelled"
      PROVE  scan[r] = "labelled" \/ Vouched(r[1])'
  <2>1. CASE SubResolves(s)
    BY <1>2, <1>3, <1>4, <2>1, TypeParts
       DEF Shape, Rest, ScanTable, SubResolves, Truth, Honest, Vouched
  <2>2. CASE ~SubResolves(s)
    BY <1>4, <2>2 DEF Classify, SubDisrupted, SubBegin, SubSkips, SubLabels,
         SubLabelsUnless, SubLabelFails, SubLabelFailsAs, SubCannotClassify,
         SubCounts, SubCloses, SubRaises, SubTimesOut, SubCrashes, SubDies
  <2>. QED
    BY <2>1, <2>2
<1>5. row'.dry => labelled' = {}
  BY <1>2 DEF Truth, Classify, SubDisrupted, SubBegin, SubSkips, SubLabels,
       SubLabelsUnless, SubLabelFails, SubLabelFailsAs, SubCannotClassify,
       SubResolves, SubCounts, SubCloses, SubRaises, SubTimesOut, SubCrashes,
       SubDies
<1>6. /\ \A r \in Scan \ {s} : sub'[r] = sub[r]
      /\ sub'[s].outcome = "labelled" =>
           sub[s].outcome = "labelled" \/ Vouched(s[1])'
  <2>1. ASSUME NEW state, SubLeaves(s, state)
        PROVE  sub'[s].outcome = "failed" /\ \A r \in Scan \ {s} : sub'[r] = sub[r]
    BY <1>3, <2>1 DEF SubLeaves, NewSub
  <2>2. ASSUME NEW o, NEW c, Decide(s, o, c)
        PROVE  sub'[s].outcome = o /\ \A r \in Scan \ {s} : sub'[r] = sub[r]
    BY <1>3, <2>2 DEF Decide, Sub
  <2>3. CASE SubBegin(s)
    BY <1>3, <2>3 DEF SubBegin, NewSub
  <2>4. CASE SubSkips(s) \/ SubLabelFails(s) \/ SubCannotClassify(s)
    <3>1. \/ Decide(s, "skipped", TRUE) \/ Decide(s, "failed", TRUE)
          \/ Decide(s, "failed", FALSE)
      BY <2>4 DEF SubSkips, SubLabelFails, SubLabelFailsAs, SubCannotClassify
    <3>2. \/ sub'[s].outcome = "skipped" \/ sub'[s].outcome = "failed"
      BY <2>2, <3>1
    <3>3. \A r \in Scan \ {s} : sub'[r] = sub[r]
      BY <2>2, <3>1
    <3>. QED
      BY <3>2, <3>3
  <2>5. CASE SubLabels(s)
    <3>1. Decide(s, "labelled", TRUE)
      BY <2>5 DEF SubLabels, SubLabelsUnless
    <3>2. Vouched(s[1])'
      BY <1>2, <2>5 DEF SubLabels, SubLabelsUnless, Vouched
    <3>. QED
      BY <2>2, <3>1, <3>2
  <2>6. CASE SubResolves(s) \/ SubCounts(s)
    BY <1>3, <2>6 DEF SubResolves, SubCounts, SubGoto, Sub
  <2>7. CASE SubCloses(s) \/ SubTimesOut(s) \/ SubCrashes(s)
    BY <2>1, <2>7 DEF SubCloses, SubTimesOut, SubCrashes, SubDies
  <2>8. CASE SubRaises(s)
    BY <1>3, <2>1, <2>8 DEF SubRaises, Sub
  <2>. QED
    BY <2>3, <2>4, <2>5, <2>6, <2>7, <2>8 DEF Classify, SubDisrupted
<1>. QED
  BY <1>1, <1>2, <1>4, <1>5, <1>6, StillTrue

\* Every step keeps what is recorded true.
LEMMA NextTrue == Shape /\ Truth /\ [Next]_vars => Truth'
<1>1. ASSUME Shape, Truth, UNCHANGED vars PROVE Truth'
  BY <1>1 DEF vars, Truth, Honest, Vouched
<1>. QED
  BY <1>1, ControlTrue, SmallFileTrue, CommitTrue, EnqueueTrue, SubTrue
     DEF Next, Execute, HandleFile

\* A result recorded as labelled is the truth, for any number of deliveries,
\* crashes and faults; and a dry run never labels a file.
THEOREM SpecResultsAreTrue == Spec => []ResultsAreTrue
<1>1. Init => Shape /\ Truth
  BY Init_Shape DEF Truth, Init
<1>2. Shape /\ Truth /\ [Next]_vars => Shape' /\ Truth'
  BY NextShape, NextTrue
<1>3. Truth => ResultsAreTrue
  BY DEF Truth, Vouched, ResultsAreTrue
<1>. QED
  BY <1>1, <1>2, <1>3, PTL DEF Spec

-----------------------------------------------------------------------------
(* Where the results are, while executor and tasks are at work.            *)

\* The files that the run, or a later one, has still to reach have no row.
Unwritten ==
  \A s \in Scan :
    \/ s[2] > ex.run
    \/ /\ ex.state = "running" /\ s[2] = ex.run
       /\ s[1] > Current \/ (s[1] = Current /\ ex.pc # "enqueue")
    => scan[s] = "none"

\* What the executor has noted down is of files it has handled; they have
\* neither a row of this run nor a task.
NotedOnce ==
  \A f \in File : ex.pending[f] # "none" =>
    /\ At("file") /\ f < Current
    /\ scan[<<f, ex.run>>] = "none" /\ sub[<<f, ex.run>>].state = "none"

\* A task is enqueued for a committed placeholder; a task that counts has
\* replaced its placeholder by a result.
Resolving ==
  /\ At("enqueue") => scan[<<Current, ex.run>>] = "deferred"
  /\ \A s \in Scan :
       sub[s].state = "running" /\ sub[s].pc \in {"count", "close"} =>
         s \in Resolved

Placing == Unwritten /\ NotedOnce /\ Resolving

\* A step of the task of s.
SubStep(s) == Classify(s) \/ SubDisrupted(s)

\* What the statements of a task do to its record.
LEMMA SubFields ==
  ASSUME Shape, NEW s \in Scan
  PROVE  /\ sub[s] \in Sub
         /\ \A o, c : Decide(s, o, c) =>
              /\ sub'[s].state = sub[s].state /\ sub'[s].tries = sub[s].tries
              /\ sub'[s].pc = "resolve" /\ sub'[s].counted = c
         /\ \A p : SubGoto(s, p) =>
              /\ sub'[s].state = sub[s].state /\ sub'[s].tries = sub[s].tries
              /\ sub'[s].pc = p /\ sub'[s].counted = sub[s].counted
         /\ \A state : SubLeaves(s, state) =>
              /\ sub'[s].state = state /\ sub'[s].pc = "classify"
              /\ sub'[s].tries = IF state = "queued" THEN sub[s].tries ELSE 0
         /\ SubBegin(s) =>
              /\ sub[s].state = "queued" /\ sub'[s].state = "running"
              /\ sub'[s].pc = "classify" /\ sub'[s].tries = sub[s].tries + 1
         /\ SubRaises(s) /\ ~sub[s].handling =>
              /\ sub'[s].state = "running" /\ sub'[s].tries = sub[s].tries
              /\ sub'[s].pc = "resolve" /\ sub'[s].counted
<1>1. sub \in [Scan -> Sub] /\ sub[s] \in Sub
  BY Parts DEF Shape
<1>2. ASSUME NEW o, NEW c, Decide(s, o, c)
      PROVE  /\ sub'[s].state = sub[s].state /\ sub'[s].tries = sub[s].tries
             /\ sub'[s].pc = "resolve" /\ sub'[s].counted = c
  BY <1>1, <1>2 DEF Decide, Sub
<1>3. ASSUME NEW p, SubGoto(s, p)
      PROVE  /\ sub'[s].state = sub[s].state /\ sub'[s].tries = sub[s].tries
             /\ sub'[s].pc = p /\ sub'[s].counted = sub[s].counted
  BY <1>1, <1>3 DEF SubGoto, Sub
<1>4. ASSUME NEW state, SubLeaves(s, state)
      PROVE  /\ sub'[s].state = state /\ sub'[s].pc = "classify"
             /\ sub'[s].tries = IF state = "queued" THEN sub[s].tries ELSE 0
  BY <1>1, <1>4 DEF SubLeaves, NewSub
<1>5. ASSUME SubBegin(s)
      PROVE  /\ sub[s].state = "queued" /\ sub'[s].state = "running"
             /\ sub'[s].pc = "classify" /\ sub'[s].tries = sub[s].tries + 1
  BY <1>1, <1>5 DEF SubBegin, NewSub
<1>6. ASSUME SubRaises(s), ~sub[s].handling
      PROVE  /\ sub'[s].state = "running" /\ sub'[s].tries = sub[s].tries
             /\ sub'[s].pc = "resolve" /\ sub'[s].counted
  BY <1>1, <1>6 DEF SubRaises, Sub
<1>. QED
  BY <1>1, <1>2, <1>3, <1>4, <1>5, <1>6

\* A task that takes a step exists, and touches only its own row and record.
LEMMA SubTouches ==
  ASSUME Shape, NEW s \in Scan, SubStep(s)
  PROVE  /\ sub[s].state \in {"queued", "running"}
         /\ UNCHANGED <<ex, cp>> /\ row'.status = row.status
         /\ \A r \in Scan \ {s} : scan'[r] = scan[r] /\ sub'[r] = sub[r]
         /\ scan'[s] \in Outcomes \cup {scan[s]}
<1>1. sub \in [Scan -> Sub] /\ sub[s] \in Sub /\ scan \in ScanTable /\ row \in Row
  BY Parts, TypeParts DEF Shape, Rest
<1>2. ASSUME NEW o, NEW c, Decide(s, o, c)
      PROVE  \A r \in Scan \ {s} : sub'[r] = sub[r]
  BY <1>1, <1>2 DEF Decide
<1>3. ASSUME NEW state, SubLeaves(s, state)
      PROVE  \A r \in Scan \ {s} : sub'[r] = sub[r]
  BY <1>1, <1>3 DEF SubLeaves
<1>4. CASE SubBegin(s) \/ SubRaises(s)
  BY <1>1, <1>3, <1>4 DEF SubBegin, SubRaises
<1>5. CASE SubSkips(s) \/ SubLabels(s) \/ SubLabelFails(s) \/ SubCannotClassify(s)
  BY <1>1, <1>2, <1>5 DEF SubSkips, SubLabels, SubLabelsUnless, SubLabelFails,
       SubLabelFailsAs, SubCannotClassify, SubAt
<1>6. CASE SubResolves(s)
  <2>1. sub[s].outcome \in Outcomes
    BY <1>1 DEF Sub
  <2>. QED
    BY <1>1, <1>6, <2>1 DEF SubResolves, SubGoto, SubAt, ScanTable
<1>7. CASE SubCounts(s)
  BY <1>1, <1>7 DEF SubCounts, SubGoto, SubAt, Row
<1>8. CASE SubCloses(s) \/ SubTimesOut(s) \/ SubCrashes(s)
  BY <1>1, <1>3, <1>8 DEF SubCloses, SubTimesOut, SubCrashes, SubDies, SubAt
<1>. QED
  BY <1>4, <1>5, <1>6, <1>7, <1>8 DEF SubStep, Classify, SubDisrupted

\* A task is at a place that the executor has left.
LEMMA SubKeepsPlaces ==
  ASSUME Shape, Placing, NEW s \in Scan, SubStep(s)
  PROVE  Unwritten' /\ NotedOnce' /\ (At("enqueue") => scan[<<Current, ex.run>>] = "deferred")'
<1>1. /\ sub[s].state # "none" /\ UNCHANGED ex
      /\ \A r \in Scan \ {s} : scan'[r] = scan[r] /\ sub'[r] = sub[r]
  BY SubTouches
<1>2. Current \in Nat /\ \A r \in Scan : r[1] \in Nat /\ r[2] \in Nat
  BY Parts, Constants DEF Shape, Scan
<1>3. \/ s[2] > ex.run
      \/ ex.state = "running" /\ s[2] = ex.run /\ s[1] >= Current
      => FALSE
  BY <1>1 DEF Shape, Fresh
<1>4. Unwritten'
  BY <1>1, <1>2, <1>3 DEF Placing, Unwritten, Current
<1>5. NotedOnce'
  <2>. SUFFICES ASSUME NEW f \in File, ex.pending[f] # "none"
                PROVE  /\ At("file") /\ f < Current
                       /\ scan'[<<f, ex.run>>] = "none"
                       /\ sub'[<<f, ex.run>>].state = "none"
    BY <1>1 DEF NotedOnce, At, Current
  <2>1. /\ At("file") /\ f < Current /\ scan[<<f, ex.run>>] = "none"
        /\ sub[<<f, ex.run>>].state = "none"
    BY DEF Placing, NotedOnce
  <2>2. <<f, ex.run>> \in Scan
    BY <2>1 DEF Shape, Placed, At, Scan
  <2>. QED
    BY <1>1, <2>1, <2>2
<1>6. (At("enqueue") => scan[<<Current, ex.run>>] = "deferred")'
  <2>. SUFFICES ASSUME At("enqueue")
                PROVE  scan'[<<Current, ex.run>>] = "deferred"
    BY <1>1 DEF At, Current
  <2>1. <<Current, ex.run>> \in Scan
    BY DEF Shape, Placed, At, Scan
  <2>2. <<Current, ex.run>> # s
    BY <1>2, <1>3 DEF At
  <2>. QED
    BY <1>1, <2>1, <2>2 DEF Placing, Resolving
<1>. QED
  BY <1>4, <1>5, <1>6

\* A task counts only after it has recorded a result.
LEMMA SubPlacing ==
  ASSUME Shape, Placing, NEW s \in Scan, SubStep(s)
  PROVE  Placing'
<1>1. /\ \A r \in Scan \ {s} : scan'[r] = scan[r] /\ sub'[r] = sub[r]
      /\ scan'[s] \in Outcomes \cup {scan[s]}
  BY SubTouches
<1>2. ASSUME sub'[s].state = "running", sub'[s].pc \in {"count", "close"}
      PROVE  scan'[s] \in Outcomes
  <2>1. CASE SubResolves(s)
    <3>1. sub[s].outcome \in Outcomes
      BY SubFields DEF Sub
    <3>. QED
      BY <2>1, <3>1, Parts, TypeParts DEF Shape, SubResolves, Rest, ScanTable
  <2>2. CASE SubCounts(s)
    BY <1>1, <2>2 DEF SubCounts, SubAt, Placing, Resolving, Resolved
  <2>3. CASE ~SubResolves(s) /\ ~SubCounts(s)
    <3>1. sub'[s].state # "running" \/ sub'[s].pc \in {"classify", "resolve"}
      BY <2>3, SubFields DEF SubStep, Classify, SubDisrupted, SubSkips,
         SubLabels, SubLabelsUnless, SubLabelFails, SubLabelFailsAs,
         SubCannotClassify, SubCloses, SubRaises, SubTimesOut, SubCrashes,
         SubDies
    <3>. QED
      BY <1>2, <3>1
  <2>. QED
    BY <2>1, <2>2, <2>3
<1>3. \A r \in Scan : sub'[r].state = "running" /\ sub'[r].pc \in {"count", "close"}
                        => scan'[r] \in Outcomes
  BY <1>1, <1>2 DEF Placing, Resolving, Resolved
<1>. QED
  BY <1>3, SubKeepsPlaces DEF Placing, Resolving, Resolved

\* The executor's fields after the statements that several actions share.
LEMMA ExFields ==
  ASSUME Shape
  PROVE  /\ ex \in Executor /\ ex.index \in Nat /\ ex.k \in Nat /\ ex.run \in Nat
         /\ Current = ex.index + ex.k + 1
         /\ \A state : Stop(state) =>
              /\ ex'.state = state /\ ex'.pc = "turn" /\ ex'.run = ex.run
              /\ ex'.index = 0 /\ ex'.k = 0 /\ ex'.count = Zero
              /\ ex'.pending = Nothing /\ ex'.tries = ex.tries
         /\ \A o : Record(o) /\ Current \in File =>
              /\ ex'.state = ex.state /\ ex'.pc = ex.pc /\ ex'.run = ex.run
              /\ ex'.index = ex.index /\ ex'.k = ex.k + 1
              /\ ex'.count = Plus(ex.count, o)
              /\ ex'.pending = [ex.pending EXCEPT ![Current] = o]
         /\ UnansweredFile \/ DeferEnqueue =>
              /\ ex'.state = ex.state /\ ex'.pc = "file" /\ ex'.run = ex.run
              /\ ex'.index = ex.index /\ ex'.k = ex.k + 1
              /\ ex'.count = ex.count /\ ex'.pending = ex.pending
         /\ DeferCommit =>
              /\ ex'.state = ex.state /\ ex'.pc = "enqueue" /\ ex'.run = ex.run
              /\ ex'.index = ex.index /\ ex'.k = ex.k
              /\ ex'.count = ex.count /\ ex'.pending = Nothing
         /\ CommitBatch =>
              /\ ex'.state = ex.state /\ ex'.pc = "turn" /\ ex'.run = ex.run
              /\ ex'.index = ex.index + ex.k /\ ex'.k = 0
              /\ ex'.count = ex.count /\ ex'.pending = Nothing
         /\ NextBatch =>
              /\ ex'.state = ex.state /\ ex'.pc = "file" /\ ex'.run = ex.run
              /\ ex'.index = ex.index /\ ex'.k = ex.k
              /\ ex'.count = ex.count /\ ex'.pending = ex.pending
         /\ Begin =>
              /\ ex'.pc = ex.pc /\ ex'.run = ex.run + 1 /\ ex'.index = cp.index
              /\ ex'.k = ex.k /\ ex'.count = cp.counts
              /\ ex'.pending = ex.pending
         /\ Resume =>
              /\ ex'.state = "queued" /\ ex'.pc = ex.pc /\ ex'.run = ex.run
              /\ ex'.index = ex.index /\ ex'.k = ex.k
              /\ ex'.count = ex.count /\ ex'.pending = ex.pending
<1>1. /\ ex \in Executor /\ ex.index \in Nat /\ ex.k \in Nat /\ ex.run \in Nat
  BY Parts DEF Shape
<1>2. ASSUME NEW state, Stop(state)
      PROVE  /\ ex'.state = state /\ ex'.pc = "turn" /\ ex'.run = ex.run
             /\ ex'.index = 0 /\ ex'.k = 0 /\ ex'.count = Zero
             /\ ex'.pending = Nothing /\ ex'.tries = ex.tries
  BY <1>1, <1>2 DEF Stop, Executor
<1>3. ASSUME NEW o, Record(o), Current \in File
      PROVE  /\ ex'.state = ex.state /\ ex'.pc = ex.pc /\ ex'.run = ex.run
             /\ ex'.index = ex.index /\ ex'.k = ex.k + 1
             /\ ex'.count = Plus(ex.count, o)
             /\ ex'.pending = [ex.pending EXCEPT ![Current] = o]
  BY <1>1, <1>3 DEF Record, Executor
<1>4. ASSUME UnansweredFile \/ DeferEnqueue
      PROVE  /\ ex'.state = ex.state /\ ex'.pc = "file" /\ ex'.run = ex.run
             /\ ex'.index = ex.index /\ ex'.k = ex.k + 1
             /\ ex'.count = ex.count /\ ex'.pending = ex.pending
  BY <1>1, <1>4 DEF UnansweredFile, DeferEnqueue, EnqueueCounting, At, Executor
<1>5. ASSUME DeferCommit
      PROVE  /\ ex'.state = ex.state /\ ex'.pc = "enqueue" /\ ex'.run = ex.run
             /\ ex'.index = ex.index /\ ex'.k = ex.k
             /\ ex'.count = ex.count /\ ex'.pending = Nothing
  BY <1>1, <1>5 DEF DeferCommit, Executor
<1>6. ASSUME CommitBatch
      PROVE  /\ ex'.state = ex.state /\ ex'.pc = "turn" /\ ex'.run = ex.run
             /\ ex'.index = ex.index + ex.k /\ ex'.k = 0
             /\ ex'.count = ex.count /\ ex'.pending = Nothing
  BY <1>1, <1>6 DEF CommitBatch, CommitUpTo, Executor
<1>7. ASSUME NextBatch
      PROVE  /\ ex'.state = ex.state /\ ex'.pc = "file" /\ ex'.run = ex.run
             /\ ex'.index = ex.index /\ ex'.k = ex.k
             /\ ex'.count = ex.count /\ ex'.pending = ex.pending
  BY <1>1, <1>7 DEF NextBatch, Executor
<1>8. ASSUME Begin
      PROVE  /\ ex'.pc = ex.pc /\ ex'.run = ex.run + 1 /\ ex'.index = cp.index
             /\ ex'.k = ex.k /\ ex'.count = cp.counts
             /\ ex'.pending = ex.pending
  BY <1>1, <1>8 DEF Begin, Executor
<1>9. ASSUME Resume
      PROVE  /\ ex'.state = "queued" /\ ex'.pc = ex.pc /\ ex'.run = ex.run
             /\ ex'.index = ex.index /\ ex'.k = ex.k
             /\ ex'.count = ex.count /\ ex'.pending = ex.pending
  BY <1>1, <1>9 DEF Resume, Executor
<1>. QED
  BY <1>1, <1>2, <1>3, <1>4, <1>5, <1>6, <1>7, <1>8, <1>9 DEF Current

\* The position is that of one of the files, or the next task's.
LEMMA PlaceOf ==
  ASSUME Shape, At("file"), BatchOpen
  PROVE  Current \in File /\ <<Current, ex.run>> \in Scan
         /\ sub[<<Current, ex.run>>].state = "none"
<1>1. Current \in File /\ ex.run \in Run
  <2>1. Current \in File
    BY Parts, Constants DEF Shape, BatchOpen, Current
  <2>. QED
    BY <2>1 DEF Shape, Placed, At
<1>2. <<Current, ex.run>> \in Scan
  BY <1>1 DEF Scan
<1>. QED
  BY <1>1, <1>2, Constants DEF Shape, Fresh, At

\* The steps that neither handle a file nor commit a batch.
LEMMA ControlPlacing ==
  ASSUME Shape, Placing,
         \/ Pause \/ Resume \/ Begin \/ StopOnSignal \/ NextBatch \/ Complete
         \/ ExecutorRaises \/ ExecutorCrashes
  PROVE  Placing'
<1>1. UNCHANGED <<scan, sub>>
  BY DEF Pause, Resume, Begin, StopOnSignal, NextBatch, Complete,
     ExecutorRaises, ExecutorCrashes
<1>2. \A f \in File : ~At("file") => ex.pending[f] = "none"
  BY DEF Placing, NotedOnce
<1>3. \A s \in Scan : s[1] \in Nat /\ s[2] \in Nat
  BY Constants DEF Scan
<1>4. CASE Pause
  BY <1>1, <1>4 DEF Pause, Placing, Unwritten, NotedOnce, Resolving, At,
     Current, Resolved
<1>5. CASE Resume
  <2>1. ex.state # "running" /\ ex.pc = "turn"
    BY <1>5 DEF Resume, Shape, Placed
  <2>2. Unwritten'
    BY <1>1, <1>5, <2>1, ExFields DEF Placing, Unwritten
  <2>3. NotedOnce' /\ Resolving'
    BY <1>1, <1>2, <1>5, <2>1, ExFields
       DEF Placing, NotedOnce, Resolving, At, Resolved
  <2>. QED
    BY <2>2, <2>3 DEF Placing
<1>6. CASE Begin
  <2>1. ex.state # "running" /\ ex.pc = "turn"
    BY <1>6 DEF Begin, Shape, Placed
  <2>2. Unwritten'
    BY <1>1, <1>3, <1>6, <2>1, ExFields DEF Placing, Unwritten
  <2>3. NotedOnce' /\ Resolving'
    BY <1>1, <1>2, <1>6, <2>1, ExFields
       DEF Placing, NotedOnce, Resolving, At, Resolved
  <2>. QED
    BY <2>2, <2>3 DEF Placing
<1>7. CASE NextBatch
  <2>1. At("turn") /\ ex'.index + ex'.k + 1 = Current
    BY <1>7, ExFields DEF NextBatch
  <2>2. Unwritten'
    BY <1>1, <1>7, <2>1, ExFields DEF Placing, Unwritten, At, Current
  <2>3. NotedOnce' /\ Resolving'
    BY <1>1, <1>2, <1>7, <2>1, ExFields
       DEF Placing, NotedOnce, Resolving, At, Resolved
  <2>. QED
    BY <2>2, <2>3 DEF Placing
<1>8. CASE StopOnSignal \/ Complete \/ ExecutorRaises \/ ExecutorCrashes
  <2>1. PICK state \in {"queued", "done"} : Stop(state)
    BY <1>8 DEF StopOnSignal, Complete, ExecutorRaises, ExecutorCrashes
  <2>2. /\ ex'.state # "running" /\ ex'.run = ex.run
        /\ ex'.pending = Nothing
    BY <2>1, ExFields
  <2>3. Unwritten' /\ NotedOnce' /\ Resolving'
    BY <1>1, <2>2
       DEF Placing, Unwritten, NotedOnce, Resolving, At, Resolved, Nothing
  <2>. QED
    BY <2>3 DEF Placing
<1>. QED
  BY <1>4, <1>5, <1>6, <1>7, <1>8

\* A small file is handled.
LEMMA FilePlacing ==
  ASSUME Shape, Placing, SkipFile \/ LabelFile \/ FailFile \/ UnansweredFile
  PROVE  Placing'
<1>1. UNCHANGED <<scan, sub>> /\ At("file") /\ BatchOpen
  BY DEF SkipFile, LabelFile, FailFile, UnansweredFile
<1>2. /\ Current \in File /\ <<Current, ex.run>> \in Scan
      /\ sub[<<Current, ex.run>>].state = "none"
  BY <1>1, PlaceOf
<1>3. \A s \in Scan : s[1] \in Nat /\ s[2] \in Nat
  BY Constants DEF Scan
<1>4. scan[<<Current, ex.run>>] = "none"
  BY <1>1, <1>2 DEF Placing, Unwritten, At
<1>5. /\ ex'.state = ex.state /\ ex'.pc = "file" /\ ex'.run = ex.run
      /\ ex'.index = ex.index /\ ex'.k = ex.k + 1
      /\ \A f \in File \ {Current} : ex'.pending[f] = ex.pending[f]
  <2>1. CASE UnansweredFile
    BY <2>1, ExFields
  <2>2. CASE ~UnansweredFile
    <3>1. PICK o : Record(o)
      BY <2>2 DEF SkipFile, LabelFile, FailFile
    <3>2. ex.pending \in [File -> Outcomes \cup {"none"}]
      BY ExFields DEF Executor
    <3>. QED
      BY <1>1, <1>2, <3>1, <3>2, ExFields DEF At
  <2>. QED
    BY <2>1, <2>2
<1>6. Current' = Current + 1 /\ Current \in Nat
  BY <1>5, ExFields DEF Current
<1>7. Unwritten'
  BY <1>1, <1>3, <1>5, <1>6 DEF Placing, Unwritten, At
<1>8. NotedOnce'
  <2>. SUFFICES ASSUME NEW f \in File, ex'.pending[f] # "none"
                PROVE  /\ f < Current + 1 /\ scan[<<f, ex.run>>] = "none"
                       /\ sub[<<f, ex.run>>].state = "none"
    BY <1>1, <1>5, <1>6 DEF NotedOnce, At
  <2>1. CASE f = Current
    BY <1>2, <1>4, <1>6, <2>1
  <2>2. CASE f # Current
    <3>1. f \in Nat
      BY Constants
    <3>. QED
      BY <1>5, <1>6, <2>2, <3>1 DEF Placing, NotedOnce
  <2>. QED
    BY <2>1, <2>2
<1>9. Resolving'
  BY <1>1, <1>5 DEF Placing, Resolving, At, Resolved
<1>. QED
  BY <1>7, <1>8, <1>9 DEF Placing

\* A commit writes the rows of what was noted down, and of new ones.
LEMMA FlushWrites ==
  ASSUME Shape, Placing, NEW new \in SUBSET Scan, Flush(new),
         \A s \in new : scan[s] = "none"
  PROVE  /\ \A s \in Scan : scan'[s] # scan[s] =>
              /\ scan[s] = "none"
              /\ s \in new \/ (s[2] = ex.run /\ s[1] < Current /\ At("file"))
         /\ \A s \in Scan : s[2] = ex.run /\ ex.pending[s[1]] # "none" =>
              scan'[s] = ex.pending[s[1]] /\ scan'[s] \in Outcomes
         /\ Resolved \subseteq Resolved'
<1>1. \A s \in Scan : s[1] \in File /\ s = <<s[1], s[2]>>
  BY DEF Scan
<1>2. ex.pending \in [File -> Outcomes \cup {"none"}]
  BY ExFields DEF Executor
<1>3. \A s \in Scan : scan'[s] =
        IF s[2] = ex.run /\ ex.pending[s[1]] # "none" THEN ex.pending[s[1]]
        ELSE IF s \in new THEN "deferred" ELSE scan[s]
  BY DEF Flush
<1>4. \A s \in Scan : s[2] = ex.run /\ ex.pending[s[1]] # "none" =>
        scan[s] = "none" /\ s[1] < Current /\ At("file")
  BY <1>1 DEF Placing, NotedOnce
<1>5. \A s \in Scan : scan'[s] # scan[s] =>
              /\ scan[s] = "none"
              /\ s \in new \/ (s[2] = ex.run /\ s[1] < Current /\ At("file"))
  BY <1>3, <1>4
<1>6. \A s \in Scan : s[2] = ex.run /\ ex.pending[s[1]] # "none" =>
              scan'[s] = ex.pending[s[1]] /\ scan'[s] \in Outcomes
  BY <1>1, <1>2, <1>3
<1>. QED
  BY <1>5, <1>6 DEF Resolved, Outcomes

\* A large file gets its placeholder, and then its task.
LEMMA DeferPlacing ==
  ASSUME Shape, Placing, DeferCommit \/ DeferEnqueue
  PROVE  Placing'
<1>1. \A s \in Scan : s[1] \in Nat /\ s[2] \in Nat
  BY Constants DEF Scan
<1>2. Current \in Nat /\ ex.run \in Nat /\ Current = ex.index + ex.k + 1
      /\ ex.index \in Nat /\ ex.k \in Nat
  BY Parts, ExFields DEF Shape
<1>3. CASE DeferCommit
  <2>. DEFINE s == <<Current, ex.run>>
  <2>1. At("file") /\ BatchOpen /\ Flush({s}) /\ UNCHANGED sub
    BY <1>3 DEF DeferCommit
  <2>2. s \in Scan /\ Current \in File
    BY <2>1, PlaceOf
  <2>3. scan[s] = "none" /\ ex.pending[Current] = "none"
    BY <1>2, <2>1, <2>2 DEF Placing, Unwritten, NotedOnce, At
  <2>4. /\ \A r \in Scan : scan'[r] # scan[r] =>
              scan[r] = "none" /\ (r = s \/ (r[2] = ex.run /\ r[1] < Current))
        /\ Resolved \subseteq Resolved'
    BY <2>1, <2>2, <2>3, FlushWrites
  <2>5. scan'[s] = "deferred"
    BY <2>1, <2>2, <2>3 DEF Flush
  <2>6. Current' = Current
    BY <1>2, <1>3, ExFields DEF Current
  <2>7. Unwritten'
    <3>. SUFFICES ASSUME NEW r \in Scan,
                         r[2] > ex.run \/ (r[2] = ex.run /\ r[1] > Current)
                  PROVE  scan'[r] = "none"
      BY <1>3, <2>6, ExFields DEF Unwritten
    <3>1. scan[r] = "none"
      BY <2>1 DEF Placing, Unwritten, At
    <3>. QED
      BY <1>1, <1>2, <2>4, <3>1
  <2>8. NotedOnce'
    BY <1>3, ExFields DEF NotedOnce, Nothing
  <2>9. Resolving'
    BY <1>3, <2>1, <2>4, <2>5, <2>6, ExFields DEF Placing, Resolving
  <2>. QED
    BY <2>7, <2>8, <2>9 DEF Placing
<1>4. CASE DeferEnqueue
  <2>. DEFINE s == <<Current, ex.run>>
  <2>1. At("enqueue") /\ UNCHANGED scan /\ s \in Scan
    BY <1>4 DEF DeferEnqueue, EnqueueCounting, Shape, Placed, At, Scan
  <2>2. /\ sub'[s].state = "queued"
        /\ \A r \in Scan \ {s} : sub'[r] = sub[r]
    <3>1. sub \in [Scan -> Sub] /\ sub' = [sub EXCEPT ![s].state = "queued"]
      BY <1>4, Parts DEF Shape, DeferEnqueue, EnqueueCounting
    <3>. HIDE DEF s
    <3>. QED
      BY <2>1, <3>1 DEF Sub
  <2>3. Current' = Current + 1
    BY <1>2, <1>4, ExFields DEF Current
  <2>4. Unwritten'
    BY <1>1, <1>2, <1>4, <2>1, <2>3, ExFields DEF Placing, Unwritten, At
  <2>5. NotedOnce'
    BY <1>4, <2>1, ExFields DEF Placing, NotedOnce, At
  <2>6. Resolving'
    BY <1>4, <2>1, <2>2, ExFields DEF Placing, Resolving, Resolved, At
  <2>. QED
    BY <2>4, <2>5, <2>6 DEF Placing
<1>. QED
  BY <1>3, <1>4

\* The end of a batch.
LEMMA CommitPlacing == ASSUME Shape, Placing, CommitBatch PROVE Placing'
<1>1. \A s \in Scan : s[1] \in Nat /\ s[2] \in Nat
  BY Constants DEF Scan
<1>2. Current \in Nat /\ ex.run \in Nat /\ Current = ex.index + ex.k + 1
      /\ ex.index \in Nat /\ ex.k \in Nat
  BY Parts, ExFields DEF Shape
<1>3. At("file") /\ Flush({}) /\ UNCHANGED sub
  BY DEF CommitBatch, CommitUpTo
<1>4. /\ \A r \in Scan : scan'[r] # scan[r] => r[2] = ex.run /\ r[1] < Current
      /\ Resolved \subseteq Resolved'
  BY <1>3, FlushWrites
<1>5. Current' = Current
  BY <1>2, ExFields DEF Current
<1>6. Unwritten'
  BY <1>1, <1>2, <1>3, <1>4, <1>5, ExFields DEF Placing, Unwritten, At
<1>7. NotedOnce'
  BY ExFields DEF NotedOnce, Nothing
<1>8. Resolving'
  BY <1>3, <1>4, ExFields DEF Placing, Resolving, At
<1>. QED
  BY <1>6, <1>7, <1>8 DEF Placing

\* Every step keeps the places of the results.
LEMMA NextPlacing == Shape /\ Placing /\ [Next]_vars => Placing'
<1>1. ASSUME Shape, Placing, UNCHANGED vars PROVE Placing'
  BY <1>1 DEF vars, Placing, Unwritten, NotedOnce, Resolving, At, Current,
     Resolved
<1>. QED
  BY <1>1, ControlPlacing, FilePlacing, DeferPlacing, CommitPlacing, SubPlacing
     DEF Next, Execute, HandleFile, SubStep

-----------------------------------------------------------------------------
(* Nothing is counted twice without a crash or a fault.                    *)

\* The task of s is going to count, or may be.
Owes(s) ==
  \/ sub[s].state = "queued"
  \/ /\ sub[s].state = "running"
     /\ \/ sub[s].pc \in {"classify", "count"}
        \/ sub[s].pc = "resolve" /\ sub[s].counted

\* The results that nobody is going to count any more.
Closed == { s \in Resolved : ~Owes(s) }

\* What the executor has noted down and counted, but not committed.
Noted == { s \in Scan : s[2] = ex.run /\ ex.pending[s[1]] # "none" }

\* Each tally is covered by results that are not going to be counted again
\* and by what has gone wrong.
Tallied ==
  /\ row.counts.processed <= Cardinality(Closed) + crashes + faults
  /\ cp.counts.processed <= Cardinality(Closed) + crashes + faults
  /\ ex.count.processed <= Cardinality(Closed \cup Noted) + crashes + faults

\* There are finitely many results.
LEMMA ScanFinite == IsFiniteSet(Scan)
<1>1. IsFiniteSet(File) /\ IsFiniteSet(Run)
  BY Constants, FS_Interval DEF File, Run
<1>. QED
  BY <1>1, FS_Product DEF Scan

\* Sets of results grow, gain one or lose one.
LEMMA Weighing ==
  ASSUME NEW S \in SUBSET Scan, NEW T \in SUBSET Scan
  PROVE  /\ Cardinality(S) \in Nat /\ Cardinality(T) \in Nat
         /\ S \subseteq T => Cardinality(S) <= Cardinality(T)
         /\ \A s \in T : S \subseteq T /\ s \notin S => Cardinality(S) + 1 <= Cardinality(T)
         /\ \A s : S \ {s} \subseteq T => Cardinality(S) <= Cardinality(T) + 1
<1>1. IsFiniteSet(S) /\ IsFiniteSet(T)
  BY ScanFinite, FS_Subset
<1>2. Cardinality(S) \in Nat /\ Cardinality(T) \in Nat
  BY <1>1, FS_CardinalityType
<1>3. S \subseteq T => Cardinality(S) <= Cardinality(T)
  BY <1>1, FS_Subset
<1>4. ASSUME NEW s \in T, S \subseteq T, s \notin S
      PROVE  Cardinality(S) + 1 <= Cardinality(T)
  <2>1. Cardinality(S \cup {s}) = Cardinality(S) + 1
    BY <1>1, <1>4, FS_AddElement
  <2>2. S \cup {s} \in SUBSET T
    BY <1>4
  <2>3. Cardinality(S \cup {s}) <= Cardinality(T)
    BY <1>1, <2>2, FS_Subset
  <2>. QED
    BY <2>1, <2>3
<1>5. ASSUME NEW s, S \ {s} \subseteq T
      PROVE  Cardinality(S) <= Cardinality(T) + 1
  <2>1. /\ IsFiniteSet(S \ {s})
        /\ Cardinality(S \ {s}) =
             IF s \in S THEN Cardinality(S) - 1 ELSE Cardinality(S)
    BY <1>1, FS_RemoveElement
  <2>2. Cardinality(S \ {s}) <= Cardinality(T)
    BY <1>1, <1>5, FS_Subset
  <2>. QED
    BY <1>2, <2>1, <2>2
<1>. QED
  BY <1>2, <1>3, <1>4, <1>5

\* The numbers compared are numbers.
LEMMA TallyTypes ==
  ASSUME Shape
  PROVE  /\ row.counts.processed \in Nat /\ cp.counts.processed \in Nat
         /\ ex.count.processed \in Nat /\ crashes \in Nat /\ faults \in Nat
         /\ Closed \subseteq Scan /\ Closed \cup Noted \subseteq Scan
         /\ Cardinality(Closed) \in Nat /\ Cardinality(Closed \cup Noted) \in Nat
         /\ Cardinality(Closed) <= Cardinality(Closed \cup Noted)
<1>1. /\ row.counts \in Counts /\ cp.counts \in Counts /\ ex.count \in Counts
      /\ crashes \in Nat /\ faults \in Nat
  BY Parts DEF Shape, Row, Cursor
<1>2. /\ row.counts.processed \in Nat /\ cp.counts.processed \in Nat
      /\ ex.count.processed \in Nat
  BY <1>1 DEF Counts
<1>3. Closed \subseteq Scan /\ Closed \cup Noted \subseteq Scan
  BY DEF Closed, Noted, Resolved
<1>. QED
  BY <1>1, <1>2, <1>3, Weighing

\* So are they after a step.
LEMMA NextTypes ==
  ASSUME Shape'
  PROVE  /\ crashes' \in Nat /\ faults' \in Nat
         /\ Cardinality(Closed') \in Nat
         /\ Cardinality((Closed \cup Noted)') \in Nat
         /\ Cardinality(Closed') <= Cardinality((Closed \cup Noted)')
<1>1. crashes' \in Nat /\ faults' \in Nat
  BY Constants DEF Shape, TypeOK
<1>2. Closed' \in SUBSET Scan /\ (Closed \cup Noted)' \in SUBSET Scan
  BY DEF Closed, Noted, Resolved
<1>. QED
  BY <1>1, <1>2, Weighing

\* Where no result is closed or noted down and nothing goes wrong that was
\* not so before, it is enough that no tally grows.
LEMMA TallyKept ==
  ASSUME Shape, Tallied, Shape',
         Closed \subseteq Closed',
         crashes' >= crashes /\ faults' >= faults,
         row'.counts = row.counts, cp' = cp,
         \/ ex'.count = Zero
         \/ ex'.count = cp.counts
         \/ ex'.count = ex.count /\ Noted \subseteq Closed' \cup Noted'
  PROVE  Tallied'
<1>. DEFINE C == Closed  N == Closed \cup Noted
            D == Closed'  M == (Closed \cup Noted)'
<1>1. /\ Cardinality(C) <= Cardinality(D) /\ Cardinality(D) <= Cardinality(M)
      /\ N \subseteq M => Cardinality(N) <= Cardinality(M)
  <2>1. /\ C \in SUBSET Scan /\ N \in SUBSET Scan /\ D \in SUBSET Scan
        /\ M \in SUBSET Scan /\ D \subseteq M
    BY DEF Closed, Noted, Resolved
  <2>. QED
    BY <2>1, Weighing
<1>2. /\ Cardinality(C) \in Nat /\ Cardinality(N) \in Nat
      /\ Cardinality(D) \in Nat /\ Cardinality(M) \in Nat
      /\ crashes \in Nat /\ faults \in Nat /\ crashes' \in Nat /\ faults' \in Nat
      /\ row.counts.processed \in Nat /\ cp.counts.processed \in Nat
      /\ ex.count.processed \in Nat
  <2>1. /\ crashes' \in Nat /\ faults' \in Nat
        /\ Cardinality(D) \in Nat /\ Cardinality(M) \in Nat
    BY NextTypes
  <2>. QED
    BY <2>1, TallyTypes
<1>3. /\ row.counts.processed <= Cardinality(C) + crashes + faults
      /\ cp.counts.processed <= Cardinality(C) + crashes + faults
      /\ ex.count.processed <= Cardinality(N) + crashes + faults
  BY DEF Tallied
<1>4. \/ ex'.count.processed = 0
      \/ ex'.count.processed = cp.counts.processed
      \/ ex'.count.processed = ex.count.processed /\ N \subseteq M
  BY DEF Zero
<1>5. /\ row'.counts.processed <= Cardinality(D) + crashes' + faults'
      /\ cp'.counts.processed <= Cardinality(D) + crashes' + faults'
      /\ ex'.count.processed <= Cardinality(M) + crashes' + faults'
  <2>. HIDE DEF C, N, D, M
  <2>. QED
    BY <1>1, <1>2, <1>3, <1>4
<1>. QED
  BY <1>5 DEF Tallied

\* What is noted down is of a running executor in the middle of a batch.
LEMMA NoneNoted == ASSUME Placing, ~At("file") PROVE Noted = {}
BY DEF Placing, NotedOnce, Noted, Scan

\* Closed depends on the rows and the tasks only.
LEMMA ClosedKept ==
  ASSUME UNCHANGED <<scan, sub>> PROVE Closed' = Closed
BY DEF Closed, Resolved, Owes

\* The steps that neither handle a file nor commit a batch.
LEMMA ControlTallied ==
  ASSUME Shape, Placing, Tallied, Shape',
         \/ Pause \/ Resume \/ Begin \/ StopOnSignal \/ NextBatch \/ Complete
         \/ ExecutorRaises \/ ExecutorCrashes
  PROVE  Tallied'
<1>1. UNCHANGED <<scan, sub>>
  BY DEF Pause, Resume, Begin, StopOnSignal, NextBatch, Complete,
     ExecutorRaises, ExecutorCrashes
<1>2. /\ Closed' = Closed
      /\ crashes \in Nat /\ faults \in Nat
  BY <1>1, ClosedKept, TallyTypes
<1>3. /\ row'.counts = row.counts
      /\ crashes' >= crashes /\ faults' >= faults
  <2>. row \in Row
    BY Parts DEF Shape
  <2>. QED
    BY <1>2 DEF Pause, Resume, Begin, StopOnSignal, NextBatch, Complete,
       ExecutorRaises, ExecutorCrashes, Fault, Row
<1>4. CASE Pause \/ Resume \/ NextBatch
  <2>1. /\ ex'.count = ex.count /\ ex'.run = ex.run /\ ex'.pending = ex.pending
        /\ cp' = cp
    BY <1>4, ExFields DEF Pause, Resume, NextBatch
  <2>2. Noted' = Noted
    BY <2>1 DEF Noted
  <2>. QED
    BY <1>2, <1>3, <2>1, <2>2, TallyKept
<1>5. CASE Begin
  BY <1>2, <1>3, <1>5, TallyKept, ExFields DEF Begin
<1>6. CASE Complete \/ ExecutorRaises \/ ExecutorCrashes
  <2>1. PICK state : Stop(state)
    BY <1>6 DEF Complete, ExecutorRaises, ExecutorCrashes
  <2>2. ex'.count = Zero /\ cp' = cp
    BY <1>6, <2>1, ExFields DEF Complete, ExecutorRaises, ExecutorCrashes
  <2>. QED
    BY <1>2, <1>3, <2>2, TallyKept
<1>7. CASE StopOnSignal
  <2>1. Noted = {}
    BY <1>7, NoneNoted DEF StopOnSignal, At
  <2>2. /\ ex'.count = Zero /\ cp'.counts = ex.count /\ row'.counts = row.counts
        /\ UNCHANGED <<crashes, faults>>
    BY <1>3, <1>7, ExFields DEF StopOnSignal
  <2>3. ex.count.processed <= Cardinality(Closed) + crashes + faults
    BY <2>1 DEF Tallied
  <2>4. Cardinality((Closed \cup Noted)') \in Nat
    BY NextTypes
  <2>. QED
    BY <1>2, <2>2, <2>3, <2>4 DEF Tallied, Zero
<1>. QED
  BY <1>4, <1>5, <1>6, <1>7

\* A small file: it is counted and noted down, or neither.
LEMMA FileTallied ==
  ASSUME Shape, Placing, Tallied, Shape',
         SkipFile \/ LabelFile \/ FailFile \/ UnansweredFile
  PROVE  Tallied'
<1>1. UNCHANGED <<scan, sub, row, cp, crashes>> /\ At("file") /\ BatchOpen
  BY DEF SkipFile, LabelFile, FailFile, UnansweredFile
<1>2. Closed' = Closed
  BY <1>1, ClosedKept
<1>3. faults' >= faults /\ faults \in Nat /\ faults' \in Nat
  BY TallyTypes, NextTypes
     DEF SkipFile, LabelFile, FailFile, UnansweredFile, Fault
<1>4. CASE UnansweredFile
  <2>1. ex'.run = ex.run /\ ex'.pending = ex.pending /\ ex'.count = ex.count
    BY <1>4, ExFields
  <2>2. Noted' = Noted
    BY <2>1 DEF Noted
  <2>. QED
    BY <1>1, <1>2, <1>3, <2>1, <2>2, TallyKept, TallyTypes
<1>5. ASSUME NEW o \in Outcomes, Record(o) PROVE Tallied'
  <2>. DEFINE s == <<Current, ex.run>>
  <2>1. Current \in File /\ s \in Scan
    BY <1>1, PlaceOf
  <2>2. /\ ex'.run = ex.run /\ ex'.count.processed = ex.count.processed + 1
        /\ ex'.pending = [ex.pending EXCEPT ![Current] = o]
    <3>1. /\ ex'.run = ex.run /\ ex'.count = Plus(ex.count, o)
          /\ ex'.pending = [ex.pending EXCEPT ![Current] = o]
      BY <1>5, <2>1, ExFields
    <3>. QED
      BY <3>1 DEF Plus
  <2>3. scan[s] = "none" /\ ex.pending[Current] = "none"
    <3>1. scan[s] = "none"
      BY <1>1, <2>1 DEF Placing, Unwritten, At
    <3>2. Current \in Nat
      BY Parts DEF Shape
    <3>3. ~(Current < Current)
      BY <3>2
    <3>. QED
      BY <2>1, <3>1, <3>3 DEF Placing, NotedOnce
  <2>4. ex.pending \in [File -> Outcomes \cup {"none"}]
    BY ExFields DEF Executor
  <2>5. s \notin Closed \cup Noted
    BY <2>3 DEF Closed, Resolved, Noted, Outcomes
  <2>6. s \in Noted' /\ Noted \subseteq Noted'
    BY <2>1, <2>2, <2>4 DEF Noted, Scan, Outcomes
  <2>7. Cardinality(Closed \cup Noted) + 1 <= Cardinality((Closed \cup Noted)')
    <3>. DEFINE S == Closed \cup Noted  T == (Closed \cup Noted)'
    <3>1. S \in SUBSET Scan /\ T \in SUBSET Scan
      BY DEF Closed, Noted, Resolved
    <3>2. S \subseteq T /\ s \in T /\ s \notin S
      BY <1>2, <2>5, <2>6
    <3>. HIDE DEF S, T, s
    <3>3. Cardinality(S) + 1 <= Cardinality(T)
      BY <3>1, <3>2, Weighing
    <3>. QED
      BY <3>3 DEF S, T
  <2>8. Cardinality((Closed \cup Noted)') \in Nat
    BY NextTypes
  <2>9. /\ ex'.count.processed <= Cardinality((Closed \cup Noted)') + crashes' + faults'
    BY <1>1, <1>3, <2>2, <2>7, <2>8, TallyTypes DEF Tallied
  <2>10. /\ row'.counts.processed <= Cardinality(Closed') + crashes' + faults'
         /\ cp'.counts.processed <= Cardinality(Closed') + crashes' + faults'
    BY <1>1, <1>2, <1>3, TallyTypes DEF Tallied
  <2>. QED
    BY <2>9, <2>10 DEF Tallied
<1>. QED
  BY <1>4, <1>5 DEF SkipFile, LabelFile, FailFile, Outcomes

\* A commit closes what was noted down.
LEMMA FlushCloses ==
  ASSUME Shape, Placing, NEW new \in SUBSET Scan, Flush(new),
         \A s \in new : scan[s] = "none", UNCHANGED sub
  PROVE  Closed \cup Noted \subseteq Closed'
<1>1. Resolved \subseteq Resolved'
  BY FlushWrites
<1>2. \A s \in Noted : s \in Scan /\ scan'[s] \in Outcomes /\ sub[s].state = "none"
  <2>1. \A s \in Noted : s \in Scan /\ scan'[s] \in Outcomes
    BY FlushWrites DEF Noted
  <2>2. \A s \in Noted : s[1] \in File /\ s = <<s[1], ex.run>> /\ ex.pending[s[1]] # "none"
    BY DEF Noted, Scan
  <2>. QED
    BY <2>1, <2>2 DEF Placing, NotedOnce
<1>. QED
  BY <1>1, <1>2 DEF Closed, Resolved, Owes

\* The executor's commits, and the task that it enqueues.
LEMMA CommitTallied ==
  ASSUME Shape, Placing, Tallied, Shape',
         DeferCommit \/ DeferEnqueue \/ CommitBatch
  PROVE  Tallied'
<1>1. UNCHANGED <<crashes, faults>> /\ crashes \in Nat /\ faults \in Nat
  BY TallyTypes DEF DeferCommit, DeferEnqueue, EnqueueCounting, CommitBatch,
     CommitUpTo
<1>2. ex'.count = ex.count
  BY ExFields
<1>3. CASE DeferCommit
  <2>. DEFINE s == <<Current, ex.run>>
  <2>1. At("file") /\ BatchOpen /\ Flush({s}) /\ UNCHANGED <<sub, row, cp>>
    BY <1>3 DEF DeferCommit
  <2>2. s \in Scan /\ scan[s] = "none"
    BY <2>1, PlaceOf DEF Placing, Unwritten, At
  <2>3. Closed \cup Noted \subseteq Closed'
    BY <2>1, <2>2, FlushCloses
  <2>. QED
    BY <1>1, <1>2, <2>1, <2>3, TallyKept
<1>4. CASE DeferEnqueue
  <2>. DEFINE s == <<Current, ex.run>>
  <2>1. At("enqueue") /\ UNCHANGED <<scan, row, cp>> /\ scan[s] = "deferred"
    BY <1>4 DEF DeferEnqueue, EnqueueCounting, Placing, Resolving
  <2>2. \A r \in Scan \ {s} : sub'[r] = sub[r]
    <3>1. sub \in [Scan -> Sub] /\ sub' = [sub EXCEPT ![s].state = "queued"]
      BY <1>4, Parts DEF Shape, DeferEnqueue, EnqueueCounting
    <3>. HIDE DEF s
    <3>. QED
      BY <3>1
  <2>3. Closed \subseteq Closed'
    BY <2>1, <2>2 DEF Closed, Resolved, Owes, Outcomes
  <2>4. Noted = {}
    BY <2>1, NoneNoted DEF At
  <2>. QED
    BY <1>1, <1>2, <2>1, <2>3, <2>4, TallyKept
<1>5. CASE CommitBatch
  <2>1. Closed \cup Noted \subseteq Closed'
    BY <1>5, FlushCloses DEF CommitBatch, CommitUpTo
  <2>2. Cardinality(Closed \cup Noted) <= Cardinality(Closed')
    <3>. DEFINE S == Closed \cup Noted  T == Closed'
    <3>1. S \in SUBSET Scan /\ T \in SUBSET Scan /\ S \subseteq T
      BY <2>1 DEF Closed, Noted, Resolved
    <3>. HIDE DEF S, T
    <3>2. Cardinality(S) <= Cardinality(T)
      BY <3>1, Weighing
    <3>. QED
      BY <3>2 DEF S, T
  <2>3. /\ cp'.counts = ex.count
        /\ \/ row'.counts.processed = row.counts.processed
           \/ row'.counts.processed = ex.count.processed
    <3>1. row \in Row /\ ex.count \in Counts
      BY Parts DEF Shape
    <3>2. row'.counts = Assign(ex.count) /\ cp'.counts = ex.count
      BY <1>5, <3>1 DEF CommitBatch, CommitUpTo, Row
    <3>3. "processed" \in DOMAIN ex.count
      BY <3>1 DEF Counts
    <3>. QED
      BY <3>2, <3>3 DEF Assign
  <2>4. /\ Cardinality(Closed') \in Nat
        /\ Cardinality((Closed \cup Noted)') \in Nat
        /\ Cardinality(Closed') <= Cardinality((Closed \cup Noted)')
    BY NextTypes
  <2>5. /\ row'.counts.processed <= Cardinality(Closed') + crashes + faults
        /\ ex.count.processed <= Cardinality(Closed') + crashes + faults
    BY <2>2, <2>3, <2>4, TallyTypes DEF Tallied
  <2>6. ex.count.processed <= Cardinality((Closed \cup Noted)') + crashes + faults
    BY <2>4, <2>5, TallyTypes
  <2>. QED
    BY <1>1, <1>2, <2>3, <2>5, <2>6 DEF Tallied
<1>. QED
  BY <1>3, <1>4, <1>5

\* A task closes its result when it counts it, and reopens it at the price of
\* a crash or a fault.
LEMMA SubTallied ==
  ASSUME Shape, Placing, Tallied, Shape', NEW s \in Scan, SubStep(s)
  PROVE  Tallied'
<1>1. /\ UNCHANGED <<ex, cp>> /\ sub[s].state \in {"queued", "running"}
      /\ \A r \in Scan \ {s} : scan'[r] = scan[r] /\ sub'[r] = sub[r]
      /\ scan'[s] \in Outcomes \cup {scan[s]}
  BY SubTouches
<1>2. Noted' = Noted
  BY <1>1 DEF Noted
<1>3. Closed \ {s} \subseteq Closed'
  BY <1>1 DEF Closed, Resolved, Owes
<1>4. /\ crashes \in Nat /\ faults \in Nat /\ crashes' \in Nat /\ faults' \in Nat
  BY TallyTypes, NextTypes
<1>5. CASE SubBegin(s) \/ SubSkips(s) \/ SubLabels(s) \/ SubLabelFails(s)
             \/ SubCannotClassify(s) \/ SubResolves(s) \/ SubCloses(s)
             \/ SubTimesOut(s)
  <2>1. s \in Closed => s \in Closed'
    <3>1. CASE SubBegin(s)
      BY <3>1, SubFields DEF Closed, Owes
    <3>2. CASE SubSkips(s) \/ SubLabels(s) \/ SubLabelFails(s) \/ SubCannotClassify(s)
      BY <3>2 DEF Closed, Owes, SubSkips, SubLabels, SubLabelsUnless,
         SubLabelFails, SubLabelFailsAs, SubCannotClassify, SubAt
    <3>3. CASE SubResolves(s)
      <4>1. /\ sub[s].state = "running" /\ sub[s].pc = "resolve"
            /\ sub'[s].pc = IF sub[s].counted THEN "count" ELSE "close"
            /\ sub'[s].state = "running"
        BY <3>3, SubFields DEF SubResolves, SubAt
      <4>. QED
        BY <1>1, <4>1 DEF Closed, Owes, Resolved
    <3>4. CASE SubCloses(s) \/ SubTimesOut(s)
      <4>1. sub'[s].state = "done"
        BY <3>4, SubFields DEF SubCloses, SubTimesOut
      <4>. QED
        BY <1>1, <4>1 DEF Closed, Owes, Resolved
    <3>. QED
      BY <1>5, <3>1, <3>2, <3>3, <3>4
  <2>2. row' = row /\ crashes' >= crashes /\ faults' >= faults
    <3>1. row' = row
      BY <1>5 DEF SubBegin, SubSkips, SubLabels, SubLabelsUnless,
         SubLabelFails, SubLabelFailsAs, SubCannotClassify, SubResolves,
         SubCloses, SubTimesOut
    <3>2. crashes' = crashes /\ faults' \in {faults, faults + 1}
      BY <1>5 DEF SubBegin, SubSkips, SubLabels, SubLabelsUnless,
         SubLabelFails, SubLabelFailsAs, SubCannotClassify, SubResolves,
         SubCloses, SubTimesOut, Fault
    <3>. QED
      BY <1>4, <3>1, <3>2
  <2>3. Closed \subseteq Closed'
    BY <1>3, <2>1
  <2>. QED
    BY <1>1, <1>2, <2>2, <2>3, TallyKept
<1>6. CASE SubCounts(s)
  <2>1. UNCHANGED <<crashes, faults>>
    BY <1>6 DEF SubCounts
  <2>2. row'.counts.processed = row.counts.processed + 1
    BY <1>6, Parts DEF Shape, SubCounts, Row, Plus
  <2>3. s \notin Closed /\ s \in Closed'
    <3>1. /\ sub[s].state = "running" /\ sub[s].pc = "count"
          /\ sub'[s].pc = "close" /\ sub'[s].state = "running"
      BY <1>6, SubFields DEF SubCounts, SubAt
    <3>2. s \in Resolved
      BY <3>1 DEF Placing, Resolving
    <3>. QED
      BY <1>1, <3>1, <3>2 DEF Closed, Owes, Resolved
  <2>4. Closed \subseteq Closed'
    BY <1>3, <2>3
  <2>5. /\ Cardinality(Closed) + 1 <= Cardinality(Closed')
        /\ Cardinality(Closed \cup Noted) <= Cardinality((Closed \cup Noted)')
    <3>. DEFINE C == Closed  N == Closed \cup Noted
                D == Closed'  M == (Closed \cup Noted)'
    <3>1. /\ C \in SUBSET Scan /\ N \in SUBSET Scan /\ D \in SUBSET Scan
          /\ M \in SUBSET Scan
      BY DEF Closed, Noted, Resolved
    <3>2. C \subseteq D /\ s \in D /\ s \notin C /\ N \subseteq M
      BY <1>2, <2>3, <2>4
    <3>. HIDE DEF C, N, D, M
    <3>3. Cardinality(C) + 1 <= Cardinality(D) /\ Cardinality(N) <= Cardinality(M)
      BY <3>1, <3>2, Weighing
    <3>. QED
      BY <3>3 DEF C, N, D, M
  <2>6. /\ row'.counts.processed <= Cardinality(Closed') + crashes + faults
        /\ cp.counts.processed <= Cardinality(Closed') + crashes + faults
        /\ ex.count.processed <= Cardinality((Closed \cup Noted)') + crashes + faults
    BY <2>2, <2>5, TallyTypes, NextTypes DEF Tallied
  <2>. QED
    BY <1>1, <2>1, <2>6 DEF Tallied
<1>7. CASE SubRaises(s) \/ SubCrashes(s)
  <2>1. /\ row' = row
        /\ \/ crashes' = crashes + 1 /\ faults' = faults
           \/ crashes' = crashes /\ faults' = faults + 1
    BY <1>7 DEF SubRaises, SubCrashes, SubDies, Fault
  <2>2. /\ Cardinality(Closed) <= Cardinality(Closed') + 1
        /\ Cardinality(Closed \cup Noted) <= Cardinality((Closed \cup Noted)') + 1
    <3>. DEFINE C == Closed  N == Closed \cup Noted
                D == Closed'  M == (Closed \cup Noted)'
    <3>1. /\ C \in SUBSET Scan /\ N \in SUBSET Scan /\ D \in SUBSET Scan
          /\ M \in SUBSET Scan
      BY DEF Closed, Noted, Resolved
    <3>2. C \ {s} \subseteq D /\ N \ {s} \subseteq M
      BY <1>2, <1>3
    <3>. HIDE DEF C, N, D, M
    <3>3. Cardinality(C) <= Cardinality(D) + 1 /\ Cardinality(N) <= Cardinality(M) + 1
      BY <3>1, <3>2, Weighing
    <3>. QED
      BY <3>3 DEF C, N, D, M
  <2>3. /\ row.counts.processed <= Cardinality(Closed') + crashes' + faults'
        /\ cp.counts.processed <= Cardinality(Closed') + crashes' + faults'
        /\ ex.count.processed <= Cardinality((Closed \cup Noted)') + crashes' + faults'
    BY <2>1, <2>2, TallyTypes, NextTypes DEF Tallied
  <2>. QED
    BY <1>1, <2>1, <2>3 DEF Tallied
<1>. QED
  BY <1>5, <1>6, <1>7 DEF SubStep, Classify, SubDisrupted

\* Every step keeps the tallies covered.
LEMMA NextTallied ==
  ASSUME Shape, Placing, Tallied, [Next]_vars
  PROVE  Tallied'
<1>1. Shape'
  BY NextShape
<1>2. CASE UNCHANGED vars
  BY <1>2 DEF vars, Tallied, Closed, Noted, Resolved, Owes
<1>. QED
  BY <1>1, <1>2, ControlTallied, FileTallied, CommitTallied, SubTallied
     DEF Next, Execute, HandleFile, SubStep

\* Initially there are no results and nothing is counted.
LEMMA Init_Tallied == Init => Placing /\ Tallied
<1>. SUFFICES ASSUME Init PROVE Placing /\ Tallied
  OBVIOUS
<1>1. /\ row.counts = Zero /\ cp.counts = Zero /\ ex.count = Zero
      /\ crashes = 0 /\ faults = 0 /\ ex.state = "queued"
      /\ ex.pending = Nothing
      /\ \A s \in Scan : scan[s] = "none" /\ sub[s].state = "none"
  BY DEF Init, NewSub
<1>2. Placing
  BY <1>1 DEF Placing, Unwritten, NotedOnce, Resolving, Nothing, At
<1>3. Closed \in SUBSET Scan /\ Closed \cup Noted \in SUBSET Scan
  BY DEF Closed, Noted, Resolved
<1>4. Cardinality(Closed) \in Nat /\ Cardinality(Closed \cup Noted) \in Nat
  BY <1>3, Weighing
<1>. QED
  BY <1>1, <1>2, <1>4 DEF Tallied, Zero

\* However the executor's assignments and the tasks' increments interleave,
\* and however often either is delivered again, processed_files exceeds the
\* results by no more than the crashes and faults there were.
THEOREM SpecNeverOvercounts == Spec => []NeverOvercounts
<1>1. Init => Shape /\ Placing /\ Tallied
  BY Init_Shape, Init_Tallied
<1>2. Shape /\ Placing /\ Tallied /\ [Next]_vars => (Shape /\ Placing /\ Tallied)'
  BY NextShape, NextPlacing, NextTallied
<1>3. Shape /\ Placing /\ Tallied => NeverOvercounts
  <2>. SUFFICES ASSUME Shape, Tallied PROVE NeverOvercounts
    OBVIOUS
  <2>1. Closed \in SUBSET Scan /\ Resolved \in SUBSET Scan /\ Closed \subseteq Resolved
    BY DEF Closed, Resolved
  <2>2. /\ Cardinality(Closed) <= Cardinality(Resolved)
        /\ Cardinality(Closed) \in Nat /\ Cardinality(Resolved) \in Nat
    BY <2>1, Weighing
  <2>. QED
    BY <2>2, TallyTypes DEF Tallied, NeverOvercounts
<1>. QED
  BY <1>1, <1>2, <1>3, PTL DEF Spec

-----------------------------------------------------------------------------
(* A completed job accounts for all its files.                             *)

\* Some result of file f stands, or a task will find one.
Accounted(f) == \E r \in Run : <<f, r>> \in Resolved \/ InHand(<<f, r>>)

\* A task is delivered again only after a crash.
DeliveriesPaid ==
  \A s \in Scan : /\ sub[s].tries <= crashes + 1
                  /\ sub[s].state = "queued" => sub[s].tries <= crashes

\* Nothing was lost and no task has used up its deliveries.
Undisturbed == faults = 0 /\ crashes < MaxTries

\* The log, the executor and the status vouch for the files behind them.
Covered ==
  Undisturbed =>
    /\ \A f \in File : f <= cp.index => Accounted(f)
    /\ \A f \in File :
         f <= ex.index + ex.k => Accounted(f) \/ ex.pending[f] # "none"
    /\ row.status = "completed" => \A f \in File : Accounted(f)

\* Only crashes bring a task back to the queue.
LEMMA NextDeliveries ==
  ASSUME Shape, DeliveriesPaid, [Next]_vars
  PROVE  DeliveriesPaid'
<1>1. sub \in [Scan -> Sub] /\ crashes \in Nat
  BY Parts DEF Shape
<1>2. \A s \in Scan : sub[s].tries \in Nat
  BY <1>1, Constants DEF Sub
<1>3. CASE UNCHANGED <<sub, crashes>>
  BY <1>3 DEF DeliveriesPaid
<1>4. CASE ExecutorCrashes
  BY <1>1, <1>2, <1>4 DEF ExecutorCrashes, DeliveriesPaid
<1>5. CASE DeferEnqueue
  <2>. DEFINE s == <<Current, ex.run>>
  <2>1. sub' = [sub EXCEPT ![s].state = "queued"] /\ UNCHANGED crashes
    BY <1>5 DEF DeferEnqueue, EnqueueCounting
  <2>2. s \in Scan
    BY <1>5 DEF DeferEnqueue, EnqueueCounting, Shape, Placed, At, Scan
  <2>3. sub[s].tries = 0
    <3>1. sub[s].state = "none"
      BY <1>5, <2>2, Parts, Constants
         DEF Shape, Fresh, DeferEnqueue, EnqueueCounting, At
    <3>. QED
      BY <2>2, <3>1 DEF Shape, TriesLeft
  <2>. HIDE DEF s
  <2>4. /\ sub'[s].tries = 0 /\ \A r \in Scan \ {s} : sub'[r] = sub[r]
    BY <1>1, <2>1, <2>2, <2>3 DEF Sub
  <2>. QED
    BY <1>1, <2>1, <2>4 DEF DeliveriesPaid
<1>6. ASSUME NEW s \in Scan, SubStep(s) PROVE DeliveriesPaid'
  <2>1. /\ \A r \in Scan \ {s} : sub'[r] = sub[r]
        /\ sub[s].state \in {"queued", "running"}
    BY <1>6, SubTouches
  <2>2. crashes' \in {crashes, crashes + 1}
    BY <1>6 DEF SubStep, Classify, SubDisrupted, SubBegin, SubSkips, SubLabels,
       SubLabelsUnless, SubLabelFails, SubLabelFailsAs, SubCannotClassify,
       SubResolves, SubCounts, SubCloses, SubRaises, SubTimesOut, SubCrashes,
       SubDies
  <2>3. sub'[s].tries <= crashes' + 1
        /\ (sub'[s].state = "queued" => sub'[s].tries <= crashes')
    <3>1. CASE SubBegin(s)
      BY <1>1, <1>2, <2>2, <3>1, SubFields DEF DeliveriesPaid
    <3>2. CASE SubSkips(s) \/ SubLabels(s) \/ SubLabelFails(s) \/ SubCannotClassify(s)
               \/ SubResolves(s) \/ SubCounts(s)
      <4>1. sub'[s].tries = sub[s].tries /\ sub'[s].state = "running"
        BY <3>2, SubFields DEF SubSkips, SubLabels, SubLabelsUnless,
           SubLabelFails, SubLabelFailsAs, SubCannotClassify, SubResolves,
           SubCounts, SubAt
      <4>. QED
        BY <1>1, <1>2, <2>2, <4>1 DEF DeliveriesPaid
    <3>3. CASE SubCloses(s) \/ SubTimesOut(s) \/ (SubRaises(s) /\ sub[s].handling)
      <4>1. sub'[s].tries = 0 /\ sub'[s].state = "done"
        BY <3>3, SubFields DEF SubCloses, SubTimesOut, SubRaises
      <4>2. crashes' \in Nat
        BY <1>1, <2>2
      <4>3. \A n \in Nat : 0 <= n + 1
        OBVIOUS
      <4>. QED
        BY <4>1, <4>2, <4>3
    <3>4. CASE SubRaises(s) /\ ~sub[s].handling
      BY <1>1, <1>2, <2>2, <3>4, SubFields DEF DeliveriesPaid
    <3>5. CASE SubCrashes(s)
      <4>1. crashes' = crashes + 1
        BY <3>5 DEF SubCrashes, SubDies
      <4>2. sub'[s].tries \in {0, sub[s].tries}
        BY <3>5, SubFields DEF SubCrashes, SubDies
      <4>. QED
        BY <1>1, <1>2, <4>1, <4>2 DEF DeliveriesPaid
    <3>. QED
      BY <1>6, <3>1, <3>2, <3>3, <3>4, <3>5 DEF SubStep, Classify, SubDisrupted
  <2>. QED
    BY <2>1, <2>2, <2>3, <1>1, <1>2 DEF DeliveriesPaid
<1>7. \/ UNCHANGED <<sub, crashes>> \/ ExecutorCrashes \/ DeferEnqueue
      \/ \E s \in Scan : SubStep(s)
  BY DEF Next, Execute, HandleFile, SubStep, vars, Pause, Resume, Begin,
     StopOnSignal, NextBatch, Complete, SkipFile, LabelFile, FailFile,
     UnansweredFile, DeferCommit, CommitBatch, CommitUpTo, ExecutorRaises
<1>. QED
  BY <1>3, <1>4, <1>5, <1>6, <1>7

\* Crashes and faults stay.
LEMMA StillUndisturbed ==
  ASSUME Shape, [Next]_vars, Undisturbed'
  PROVE  Undisturbed /\ faults' = faults /\ crashes' \in {crashes, crashes + 1}
<1>1. crashes \in Nat /\ faults \in Nat /\ MaxTries \in Nat
  BY Parts, Constants DEF Shape
<1>2. faults' \in {faults, faults + 1} /\ crashes' \in {crashes, crashes + 1}
  <2>1. CASE UNCHANGED vars \/ Pause \/ Resume \/ Begin \/ StopOnSignal
             \/ NextBatch \/ Complete \/ ExecutorRaises \/ ExecutorCrashes
    BY <2>1 DEF vars, Pause, Resume, Begin, StopOnSignal, NextBatch, Complete,
       ExecutorRaises, ExecutorCrashes, Fault
  <2>2. CASE HandleFile \/ CommitBatch
    BY <2>2 DEF HandleFile, SkipFile, LabelFile, FailFile, UnansweredFile,
       DeferCommit, DeferEnqueue, EnqueueCounting, CommitBatch, CommitUpTo,
       Fault
  <2>3. CASE \E s \in Scan : Classify(s) \/ SubDisrupted(s)
    BY <2>3 DEF Classify, SubDisrupted, SubBegin, SubSkips, SubLabels,
       SubLabelsUnless, SubLabelFails, SubLabelFailsAs, SubCannotClassify,
       SubResolves, SubCounts, SubCloses, SubRaises, SubTimesOut, SubCrashes,
       SubDies, Fault
  <2>. QED
    BY <2>1, <2>2, <2>3 DEF Next, Execute
<1>. QED
  BY <1>1, <1>2 DEF Undisturbed

\* Results stay, and as long as nothing is lost a task stays until it has
\* found one.
LEMMA AccountStays ==
  ASSUME Shape, Placing, DeliveriesPaid, [Next]_vars, Undisturbed',
         NEW f \in File, Accounted(f)
  PROVE  Accounted(f)'
<1>1. PICK r \in Run : <<f, r>> \in Resolved \/ InHand(<<f, r>>)
  BY DEF Accounted
<1>. DEFINE s == <<f, r>>
<1>2. s \in Scan
  BY DEF Scan
<1>3. /\ Undisturbed /\ faults' = faults /\ crashes' \in {crashes, crashes + 1}
      /\ faults \in Nat /\ crashes \in Nat /\ MaxTries \in Nat
  BY StillUndisturbed, Parts, Constants DEF Shape
<1>4. SUFFICES s \in Resolved' \/ InHand(s)'
  BY DEF Accounted
<1>. HIDE DEF s
<1>5. CASE UNCHANGED <<scan, sub>>
  BY <1>1, <1>5 DEF Resolved, InHand, s
<1>6. CASE DeferCommit \/ CommitBatch
  <2>1. UNCHANGED sub
    BY <1>6 DEF DeferCommit, CommitBatch, CommitUpTo
  <2>2. PICK new \in SUBSET Scan : Flush(new) /\ \A q \in new : scan[q] = "none"
    <3>1. CASE DeferCommit
      <4>1. At("file") /\ BatchOpen /\ Flush({<<Current, ex.run>>})
        BY <3>1 DEF DeferCommit
      <4>2. /\ <<Current, ex.run>> \in Scan
            /\ scan[<<Current, ex.run>>] = "none"
        BY <4>1, PlaceOf DEF Placing, Unwritten, At
      <4>. QED
        BY <4>1, <4>2
    <3>2. CASE CommitBatch
      BY <3>2 DEF CommitBatch, CommitUpTo
    <3>. QED
      BY <1>6, <3>1, <3>2
  <2>3. /\ scan'[s] # scan[s] => scan[s] = "none"
        /\ Resolved \subseteq Resolved'
    BY <1>2, <2>2, FlushWrites
  <2>. QED
    BY <1>1, <2>1, <2>3 DEF InHand, s
<1>7. CASE DeferEnqueue
  <2>1. UNCHANGED scan
    BY <1>7 DEF DeferEnqueue, EnqueueCounting
  <2>2. sub'[s].state \in {sub[s].state, "queued"}
    <3>1. sub \in [Scan -> Sub]
      BY Parts DEF Shape
    <3>2. sub' = [sub EXCEPT ![<<Current, ex.run>>].state = "queued"]
      BY <1>7 DEF DeferEnqueue, EnqueueCounting
    <3>. QED
      BY <1>2, <3>1, <3>2 DEF Sub
  <2>. QED
    BY <1>1, <2>1, <2>2 DEF Resolved, InHand, s
<1>8. ASSUME NEW q \in Scan, SubStep(q) PROVE s \in Resolved' \/ InHand(s)'
  <2>1. /\ \A p \in Scan \ {q} : scan'[p] = scan[p] /\ sub'[p] = sub[p]
        /\ scan'[q] \in Outcomes \cup {scan[q]}
    BY <1>8, SubTouches
  <2>2. CASE s # q \/ s \in Resolved
    BY <1>1, <1>2, <2>1, <2>2 DEF Resolved, InHand, s
  <2>3. CASE s = q /\ scan[s] = "deferred"
    <3>1. CASE SubCloses(s)
      BY <2>3, <3>1 DEF SubCloses, SubAt, Placing, Resolving, Resolved, Outcomes
    <3>2. CASE SubRaises(s) \/ SubTimesOut(s)
      BY <1>3, <3>2 DEF SubRaises, SubTimesOut, Fault
    <3>3. CASE SubCrashes(s)
      <4>1. sub[s].tries <= crashes + 1 /\ sub[s].tries \in Nat /\ crashes' = crashes + 1
        BY <1>2, <3>3, Parts, Constants
           DEF DeliveriesPaid, SubCrashes, SubDies, Shape, Sub
      <4>2. sub[s].tries < MaxTries
        BY <1>3, <4>1 DEF Undisturbed
      <4>3. sub'[s].state = "queued"
        BY <1>2, <3>3, <4>2, SubFields DEF SubCrashes, SubDies
      <4>. QED
        BY <1>2, <2>1, <2>3, <4>3 DEF InHand, Resolved
    <3>4. CASE SubBegin(s) \/ SubSkips(s) \/ SubLabels(s) \/ SubLabelFails(s)
               \/ SubCannotClassify(s) \/ SubResolves(s) \/ SubCounts(s)
      <4>1. sub'[s].state = "running"
        BY <1>2, <3>4, SubFields DEF SubSkips, SubLabels, SubLabelsUnless,
           SubLabelFails, SubLabelFailsAs, SubCannotClassify, SubResolves,
           SubCounts, SubAt
      <4>. QED
        BY <1>2, <2>1, <2>3, <4>1 DEF InHand, Resolved
    <3>. QED
      BY <1>8, <2>3, <3>1, <3>2, <3>3, <3>4 DEF SubStep, Classify, SubDisrupted
  <2>. QED
    BY <1>1, <2>2, <2>3 DEF InHand, s
<1>9. \/ UNCHANGED <<scan, sub>> \/ DeferCommit \/ CommitBatch \/ DeferEnqueue
      \/ \E q \in Scan : SubStep(q)
  BY DEF Next, Execute, HandleFile, SubStep, vars, Pause, Resume, Begin,
     StopOnSignal, NextBatch, Complete, SkipFile, LabelFile, FailFile,
     UnansweredFile, ExecutorRaises, ExecutorCrashes
<1>. QED
  BY <1>5, <1>6, <1>7, <1>8, <1>9

\* Between two batches no file of a batch is done.
Between == ex.pc = "turn" => ex.k = 0

LEMMA NextBetween == ASSUME Shape, Between, [Next]_vars PROVE Between'
<1>1. CASE Pause \/ UNCHANGED vars \/ \E s \in Scan : SubStep(s)
  BY <1>1, SubTouches DEF Pause, vars, Between
<1>2. CASE Resume \/ Begin \/ NextBatch \/ CommitBatch \/ DeferCommit
             \/ DeferEnqueue \/ UnansweredFile
  BY <1>2, ExFields DEF Between
<1>3. CASE StopOnSignal \/ Complete \/ ExecutorRaises \/ ExecutorCrashes
  <2>1. PICK state : Stop(state)
    BY <1>3 DEF StopOnSignal, Complete, ExecutorRaises, ExecutorCrashes
  <2>. QED
    BY <2>1, ExFields DEF Between
<1>4. CASE SkipFile \/ LabelFile \/ FailFile
  <2>1. /\ \E o : Record(o)
        /\ At("file") /\ BatchOpen
    BY <1>4 DEF SkipFile, LabelFile, FailFile
  <2>2. ex'.pc = "file"
    BY <2>1, PlaceOf, ExFields DEF At
  <2>. QED
    BY <2>2 DEF Between
<1>. QED
  BY <1>1, <1>2, <1>3, <1>4 DEF Next, Execute, HandleFile, SubStep

\* A batch that is committed has a row for what was noted down.
LEMMA FlushAccounts ==
  ASSUME Shape, Placing, NEW new \in SUBSET Scan, Flush(new),
         \A s \in new : scan[s] = "none", ex.state = "running",
         NEW f \in File, ex.pending[f] # "none"
  PROVE  Accounted(f)'
<1>1. ex.run \in Run
  BY DEF Shape, Placed
<1>2. <<f, ex.run>> \in Scan
  BY <1>1 DEF Scan
<1>3. <<f, ex.run>> \in Resolved'
  BY <1>2, FlushWrites DEF Resolved
<1>. QED
  BY <1>1, <1>3 DEF Accounted

\* Every step keeps the files accounted for.
LEMMA NextCovered ==
  ASSUME Shape, Placing, DeliveriesPaid, Between, Covered, [Next]_vars
  PROVE  Covered'
<1>. SUFFICES ASSUME Undisturbed'
              PROVE  /\ \A f \in File : f <= cp'.index => Accounted(f)'
                     /\ \A f \in File : f <= ex'.index + ex'.k =>
                          Accounted(f)' \/ ex'.pending[f] # "none"
                     /\ row'.status = "completed" => \A f \in File : Accounted(f)'
  BY DEF Covered
<1>1. Undisturbed /\ faults' = faults
  BY StillUndisturbed
<1>2. /\ \A f \in File : f <= cp.index => Accounted(f)'
      /\ \A f \in File : f <= ex.index + ex.k => Accounted(f)' \/ ex.pending[f] # "none"
      /\ row.status = "completed" => \A f \in File : Accounted(f)'
  BY <1>1, AccountStays DEF Covered
<1>3. /\ ex.index \in Nat /\ ex.k \in Nat /\ faults \in Nat /\ NumFiles \in Nat
      /\ File = 1 .. NumFiles /\ row \in Row /\ cp \in Cursor
      /\ Current = ex.index + ex.k + 1
  BY Parts, Constants DEF Shape, File, Current
<1>4. \A f \in File : ~At("file") => ex.pending[f] = "none"
  BY DEF Placing, NotedOnce
<1>5. CASE Pause \/ Resume \/ NextBatch
  <2>1. /\ ex'.index = ex.index /\ ex'.k = ex.k /\ ex'.pending = ex.pending
        /\ cp' = cp
    BY <1>5, ExFields DEF Pause, Resume, NextBatch
  <2>2. row'.status = "completed" => row.status = "completed"
    BY <1>3, <1>5 DEF Pause, Resume, NextBatch, Row
  <2>. QED
    BY <1>2, <2>1, <2>2
<1>6. CASE Begin
  <2>1. ex.k = 0
    BY <1>6 DEF Begin, Shape, Placed, Between
  <2>2. /\ ex'.index = cp.index /\ ex'.k = 0 /\ cp' = cp /\ row' = row
    BY <1>6, <2>1, ExFields DEF Begin
  <2>3. cp.index \in Nat
    BY <1>3 DEF Cursor
  <2>. QED
    BY <1>2, <2>2, <2>3
<1>7. CASE StopOnSignal \/ Complete \/ ExecutorCrashes
  <2>1. PICK state : Stop(state)
    BY <1>7 DEF StopOnSignal, Complete, ExecutorCrashes
  <2>2. ex'.index = 0 /\ ex'.k = 0
    BY <2>1, ExFields
  <2>3. \A f \in File : ~(f <= ex'.index + ex'.k)
    BY <1>3, <2>2
  <2>4. CASE StopOnSignal
    <3>1. /\ cp'.index = ex.index /\ ex.k = 0
          /\ \A f \in File : ex.pending[f] = "none"
      BY <1>4, <2>4 DEF StopOnSignal, At, Between
    <3>2. row'.status = "paused"
      BY <1>3, <2>4 DEF StopOnSignal, Row
    <3>. QED
      BY <1>2, <1>3, <2>3, <3>1, <3>2
  <2>5. CASE Complete
    <3>1. /\ cp' = cp /\ ex.index >= NumFiles /\ ex.k = 0
          /\ \A f \in File : ex.pending[f] = "none"
      BY <1>4, <2>5 DEF Complete, At, Between
    <3>2. \A f \in File : Accounted(f)'
      BY <1>2, <1>3, <3>1
    <3>. QED
      BY <1>2, <2>3, <3>1, <3>2
  <2>6. CASE ExecutorCrashes
    BY <1>2, <2>3, <2>6 DEF ExecutorCrashes
  <2>. QED
    BY <1>7, <2>4, <2>5, <2>6
<1>8. CASE ExecutorRaises \/ FailFile \/ UnansweredFile
  BY <1>1, <1>3, <1>8 DEF ExecutorRaises, FailFile, UnansweredFile, Fault
<1>9. CASE SkipFile \/ LabelFile
  <2>1. PICK o \in Outcomes : Record(o)
    BY <1>9 DEF SkipFile, LabelFile, Outcomes
  <2>2. At("file") /\ BatchOpen /\ cp' = cp /\ row' = row
    BY <1>9 DEF SkipFile, LabelFile
  <2>3. Current \in File
    BY <2>2, PlaceOf
  <2>4. /\ ex'.index = ex.index /\ ex'.k = ex.k + 1
        /\ ex'.pending = [ex.pending EXCEPT ![Current] = o]
    BY <2>1, <2>3, ExFields
  <2>5. ex.pending \in [File -> Outcomes \cup {"none"}]
    BY ExFields DEF Executor
  <2>6. ex'.pending[Current] # "none"
    BY <2>3, <2>4, <2>5 DEF Outcomes
  <2>7. \A f \in File : f <= ex'.index + ex'.k =>
          f = Current \/ (f <= ex.index + ex.k /\ ex'.pending[f] = ex.pending[f])
    BY <1>3, <2>4, <2>5
  <2>. QED
    BY <1>2, <2>2, <2>6, <2>7
<1>10. CASE DeferCommit
  <2>1. /\ At("file") /\ BatchOpen /\ Flush({<<Current, ex.run>>})
        /\ cp' = cp /\ row' = row
    BY <1>10 DEF DeferCommit
  <2>2. /\ <<Current, ex.run>> \in Scan
        /\ scan[<<Current, ex.run>>] = "none"
    BY <2>1, PlaceOf DEF Placing, Unwritten, At
  <2>3. \A f \in File : ex.pending[f] # "none" => Accounted(f)'
    BY <2>1, <2>2, FlushAccounts DEF At
  <2>4. ex'.index = ex.index /\ ex'.k = ex.k
    BY <1>10, ExFields
  <2>. QED
    BY <1>2, <2>1, <2>3, <2>4
<1>11. CASE DeferEnqueue
  <2>1. /\ At("enqueue") /\ UNCHANGED <<scan, cp, row>>
        /\ sub' = [sub EXCEPT ![<<Current, ex.run>>].state = "queued"]
    BY <1>11 DEF DeferEnqueue, EnqueueCounting
  <2>2. PICK g \in File, r \in Run : g = Current /\ r = ex.run
    BY <2>1 DEF Shape, Placed, At
  <2>3. sub'[<<g, r>>].state = "queued"
    <3>1. sub \in [Scan -> Sub] /\ <<g, r>> \in Scan
      BY Parts DEF Shape, Scan
    <3>2. sub' = [sub EXCEPT ![<<g, r>>].state = "queued"]
      BY <2>1, <2>2
    <3>. QED
      BY <3>1, <3>2 DEF Sub
  <2>4. scan'[<<g, r>>] = "deferred"
    BY <2>1, <2>2 DEF Placing, Resolving
  <2>5. Accounted(g)'
    BY <2>3, <2>4 DEF Accounted, InHand
  <2>6. ex'.index = ex.index /\ ex'.k = ex.k + 1 /\ ex'.pending = ex.pending
    BY <1>11, ExFields
  <2>7. \A f \in File : f <= ex'.index + ex'.k =>
          f = g \/ f <= ex.index + ex.k
    BY <1>3, <2>2, <2>6
  <2>. QED
    BY <1>2, <2>1, <2>5, <2>6, <2>7
<1>12. CASE CommitBatch
  <2>1. At("file") /\ Flush({}) /\ cp'.index = ex.index + ex.k
    BY <1>3, <1>12 DEF CommitBatch, CommitUpTo, Cursor
  <2>2. \A f \in File : ex.pending[f] # "none" => Accounted(f)'
    BY <2>1, FlushAccounts DEF At
  <2>3. ex'.index = ex.index + ex.k /\ ex'.k = 0
    BY <1>12, ExFields
  <2>4. row'.status = row.status
    BY <1>3, <1>12 DEF CommitBatch, CommitUpTo, Row
  <2>5. \A f \in File : f <= ex.index + ex.k => Accounted(f)'
    BY <1>2, <2>2
  <2>. QED
    BY <1>2, <1>3, <2>1, <2>3, <2>4, <2>5
<1>13. CASE UNCHANGED vars \/ \E s \in Scan : SubStep(s)
  <2>1. UNCHANGED <<ex, cp>> /\ row'.status = row.status
    BY <1>13, SubTouches DEF vars
  <2>. QED
    BY <1>2, <2>1
<1>. QED
  BY <1>5, <1>6, <1>7, <1>8, <1>9, <1>10, <1>11, <1>12, <1>13
     DEF Next, Execute, HandleFile, SubStep

\* Initially no file has been reached and no task delivered.
LEMMA Init_Covered == Init => DeliveriesPaid /\ Between /\ Covered
BY Constants DEF Init, DeliveriesPaid, Between, Covered, NewSub, File

\* Placeholders committed in the middle of a batch, crashes and redeliveries
\* notwithstanding, a job that lost nothing is completed only when every file
\* has a result or a task that will find one.
THEOREM SpecCompletedAccountsForAll == Spec => []CompletedAccountsForAll
<1>. DEFINE Inv == Shape /\ Placing /\ DeliveriesPaid /\ Between /\ Covered
<1>1. Init => Inv
  BY Init_Shape, Init_Tallied, Init_Covered
<1>2. Inv /\ [Next]_vars => Inv'
  BY NextShape, NextPlacing, NextDeliveries, NextBetween, NextCovered
<1>3. Inv => CompletedAccountsForAll
  BY DEF Covered, Undisturbed, Accounted, CompletedAccountsForAll
<1>. QED
  BY <1>1, <1>2, <1>3, PTL DEF Spec

=============================================================================
